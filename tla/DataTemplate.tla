----------------------------- MODULE DataTemplate -----------------------------
(***************************************************************************)
(* The data template (src/data_template/data_template_client.c and         *)
(* data_template_client_manager.c) driven by data_template_demo_task       *)
(* (usr_logic/data_template_usr_logic.c): the application reports system   *)
(* information, gets the status, and then loops, handling control messages *)
(* from the cloud, acknowledging them and reporting changed properties.    *)
(*                                                                         *)
(* A request is published first and then added to reply_list, with a       *)
(* timer.  Messages from the cloud wait in pMsgList, put there by the      *)
(* parser task, until IOT_Template_Yield hands them to the template, which *)
(* looks for the request with the token of the reply.                      *)
(*                                                                         *)
(* A request has a number; its token is <<"dev", number>>, or the token of *)
(* the control message or get_status_reply it answers.  The AT commands    *)
(* below (is connected, publish) succeed or fail, and reach the cloud or   *)
(* not, independently of each other.  reply_list is the set of its         *)
(* requests: what a traversal does to them does not depend on their order. *)
(***************************************************************************)
EXTENDS Naturals, Sequences, FiniteSets

CONSTANTS MaxControls,   \* control messages the cloud ever sends (bounds a run)
          MaxPending,    \* MAX_APPENDING_REQUEST_AT_ANY_GIVEN_TIME
          MaxMsgs        \* messages waiting in pMsgList (bounds a run)

ASSUME BoundAssumption == /\ MaxControls \in Nat
                          /\ MaxPending \in Nat \ {0}
                          /\ MaxMsgs \in Nat

Control == 1 .. MaxControls
(* RINFO, GET and CLEAR once, one REPLY and one REPORT per control, and    *)
(* for the control data of the get_status_reply; nothing makes it send    *)
(* more, so the guard of Start stops nothing.                              *)
MaxRequests == 3 + 2 * (MaxControls + 1)
Id == 1 .. MaxRequests
Method == {"RINFO", "GET", "CLEAR", "REPLY", "REPORT"}
(* Only the synchronous forms of these are called; user_context points to  *)
(* the ReplyAck on the stack of the call.                                  *)
Sync == {"RINFO", "GET"}
Token == {"dev"} \X Id \cup {"ctl"} \X Control
NoToken == <<"dev", 0>>
Request == [id : Id, method : Method, token : Token]
NoRequest == [id |-> 0, method |-> "REPORT", token |-> NoToken]
Message == [method : Method \cup {"CONTROL"}, token : Token,
            code : {"ok", "error", "none"},   \* "none": no code can be read
            control : BOOLEAN,                \* a status with control data
            known : BOOLEAN]                  \* its data are of our properties
NoMessage == [method |-> "CONTROL", token |-> NoToken, code |-> "none", control |-> FALSE,
              known |-> FALSE]
Ack == {"NONE", "ACCEPTED", "REJECTED"}

VARIABLES
  pc,             \* next statement of the application task
  ret,            \* who called IOT_Template_Yield
  subscribed,     \* the cloud has the subscription of the downstream topic
  destroyed,      \* IOT_Template_Destroy has run: lists, mutex and client are freed
  ack,            \* the ReplyAck of the synchronous call
  req,            \* the request being sent
  reply_list,
  expired,        \* requests whose timer has run out
  pMsgList,
  msg, newest,    \* the message being handled; no newer one was linked to it
  control_token,  \* sg_template_clientToken
  arrived,        \* sg_control_msg_arrived
  changed,        \* a property is in state eCHANGED
  product,        \* sg_ProductData: the tokens whose values it has taken
  lamp,           \* the same for what deal_down_stream_user_logic has set
  inbox,          \* requests the cloud has got and not yet answered
  controls,       \* control messages sent by the cloud
  used,           \* numbers given to requests
  replied,        \* history: tokens put into a REPLY that was published
  calls,          \* history: callbacks made for each request
  upset           \* history: how replies have gone missing

subscription == <<subscribed, destroyed>>
sending == <<req, reply_list, used>>
handling == <<pMsgList, msg, newest>>
user == <<control_token, arrived, changed, product, lamp>>
cloud == <<inbox, controls>>
history == <<replied, calls, upset>>
vars == <<pc, ret, subscription, ack, sending, expired, handling, user, cloud, history>>

PC == {"construct", "register", "info", "get", "publish", "add", "yield", "fetch", "deliver", "drop",
       "expire", "return", "loop", "report", "dead"}

Init == /\ pc = "construct"
        /\ ret = "loop"
        /\ subscribed = FALSE
        /\ destroyed = FALSE
        /\ ack = "NONE"
        /\ req = NoRequest
        /\ reply_list = {}
        /\ expired = {}
        /\ pMsgList = <<>>
        /\ msg = NoMessage
        /\ newest = FALSE
        /\ control_token = NoToken
        /\ arrived = FALSE
        /\ changed = FALSE
        /\ product = {}
        /\ lamp = {}
        /\ inbox = {}
        /\ controls = 0
        /\ used = 0
        /\ replied = {}
        /\ calls = [i \in Id |-> 0]
        /\ upset = {}
-----------------------------------------------------------------------------
(* The module may have done what it reports to have failed.                *)
Subscribe == subscribed' \in BOOLEAN
Unsubscribe == subscribed' \in {FALSE, subscribed}

(* IOT_Template_Destroy: the lists, the mutex and the client are freed.    *)
Destroy == destroyed' = TRUE /\ Unsubscribe

(* IOT_Template_Construct subscribes, and returns the result of the last   *)
(* initialisation after it.  sync_status is 0 from the start and after a   *)
(* success, so no later call subscribes again.                             *)
Construct ==
    /\ pc = "construct"
    /\ Subscribe
    /\ pc' \in {"register", "dead"}
    /\ UNCHANGED <<ret, destroyed, ack, sending, expired, handling, user, cloud, history>>

(* _register_data_template_property: when a property is refused (for one,  *)
(* because the module did not say that it is connected) the template is    *)
(* destroyed, and the success of that is the result.                       *)
Register ==
    /\ pc = "register"
    /\ \/ UNCHANGED <<subscribed, destroyed>>
       \/ Destroy
    /\ pc' = "info"
    /\ UNCHANGED <<ret, ack, sending, expired, handling, user, cloud,
                   history>>

(* The token of build_empty_json; faulty variant: its counter stands still.*)
NextTokenSame == <<"dev", 1>>
NextToken == <<"dev", used + 1>>

Start(method, token) ==
    /\ used < MaxRequests
    /\ req' = [id |-> used + 1, method |-> method, token |-> token]
    /\ used' = used + 1
    /\ pc' = "publish"
    /\ UNCHANGED reply_list

(* IOT_Template_Report_SysInfo_Sync and IOT_Template_GetStatus_sync.       *)
StartSync(method) ==
    /\ Start(method, NextToken)
    /\ ack' = "NONE"
    /\ ret' = method
    /\ UNCHANGED <<subscription, expired, handling, user, cloud, history>>

SysInfo == pc = "info" /\ StartSync("RINFO")
GetStatus == pc = "get" /\ StartSync("GET")

(* The caller of send_template_request gets an error: the application task *)
(* ends, but _get_status_reply_ack_cb ignores it.                          *)
Failed == pc' = IF req.method = "CLEAR" THEN "drop" ELSE "dead"

(* IOT_MQTT_IsConnected and _publish_to_template_upstream_topic.  What the  *)
(* module refuses or loses is as if the cloud never answered it; there is  *)
(* no answer to a REPLY.                                                   *)
Publish ==
    /\ pc = "publish"
    /\ pc' = "add" \/ Failed
    /\ IF req.method = "REPLY"
       THEN replied' = replied \cup {req.token} /\ UNCHANGED inbox
       ELSE inbox' = inbox \cup {req} /\ UNCHANGED replied
    /\ UNCHANGED <<ret, subscription, ack, sending, expired, handling, user, controls,
                   calls, upset>>

(* _add_request_to_template_list, for lack of room or memory an error.     *)
(* With a destroyed template the list is freed memory: the model ends the  *)
(* task there.                                                             *)
AddFails ==
    /\ pc = "add"
    /\ Failed
    /\ UNCHANGED <<ret, subscription, ack, sending, expired, handling, user, cloud,
                   history>>

(* Faulty variant: the list is not limited.                                *)
AddUnlimited ==
    /\ pc = "add"
    /\ ~destroyed
    /\ reply_list' = reply_list \cup {req}
    /\ pc' = CASE req.method \in Sync   -> "yield"
               [] req.method = "CLEAR"  -> "drop"
               [] req.method = "REPLY"  -> "report"
               [] req.method = "REPORT" -> "loop"
    /\ arrived' = IF req.method = "REPLY" THEN FALSE ELSE arrived
    /\ UNCHANGED <<ret, subscription, ack, req, used, expired, handling, control_token,
                   changed, product, lamp, cloud, history>>

Add ==
    /\ pc = "add"
    /\ ~destroyed
    /\ Cardinality(reply_list) < MaxPending
    /\ reply_list' = reply_list \cup {req}
    /\ pc' = CASE req.method \in Sync   -> "yield"
               [] req.method = "CLEAR"  -> "drop"
               [] req.method = "REPLY"  -> "report"
               [] req.method = "REPORT" -> "loop"
    /\ arrived' = IF req.method = "REPLY" THEN FALSE ELSE arrived
    /\ UNCHANGED <<ret, subscription, ack, req, used, expired, handling, control_token,
                   changed, product, lamp, cloud, history>>
-----------------------------------------------------------------------------
(* IOT_Template_Yield: _handle_message iterates over pMsgList from the     *)
(* oldest message, then handle_template_expired_reply looks at the timers. *)

Yield ==
    /\ pc = "yield"
    /\ pc' = IF pMsgList = <<>> THEN "expire" ELSE "fetch"
    /\ UNCHANGED <<ret, subscription, ack, sending, expired, handling, user, cloud,
                   history>>

(* The iterator steps to the next message before this one is handled, so   *)
(* it does not see what is pushed behind the newest one in the meantime.   *)
Fetch ==
    /\ pc = "fetch"
    /\ msg' = Head(pMsgList)
    /\ newest' = (Len(pMsgList) = 1)
    /\ pMsgList' = Tail(pMsgList)
    /\ pc' = "deliver"
    /\ UNCHANGED <<ret, subscription, ack, sending, expired, user, cloud, history>>

NextMessage == /\ pc' = IF newest THEN "expire" ELSE "fetch"
               /\ msg' = NoMessage
               /\ newest' = FALSE
               /\ UNCHANGED pMsgList

(* _set_control_clientToken, _handle_control and OnControlMsgCallback: the *)
(* token is kept even when no property is affected.  Faulty variant:       *)
(* sg_control_msg_arrived is not set.                                      *)
SetToken(token) == control_token' = token

HandleControlQuiet(token, control) ==
    /\ SetToken(token)
    /\ IF control
       THEN changed' = TRUE /\ product' = product \cup {token}
       ELSE UNCHANGED <<changed, product>>
    /\ UNCHANGED <<arrived, lamp>>
HandleControl(token, control) ==
    /\ SetToken(token)
    /\ IF control
       THEN arrived' = TRUE /\ changed' = TRUE /\ product' = product \cup {token}
       ELSE UNCHANGED <<arrived, changed, product>>
    /\ UNCHANGED lamp

DeliverControl ==
    /\ pc = "deliver"
    /\ msg.method = "CONTROL"
    /\ HandleControl(msg.token, msg.known)
    /\ NextMessage
    /\ UNCHANGED <<ret, subscription, ack, sending, expired, cloud, history>>

Match(r) == r.token = msg.token
Without(set) == reply_list \ set

(* CLEAR and REPLY have no callback.                                       *)
HasCallback(r) == r.method \in Sync \cup {"REPORT"}
Called(set) == calls' = [i \in Id |-> IF \E r \in set : r.id = i /\ HasCallback(r)
                                      THEN calls[i] + 1 ELSE calls[i]]
Matching == {r \in reply_list : Match(r)}
HasControlData == msg.method = "GET" /\ msg.code = "ok" /\ msg.control

DeliverUnknown ==
    /\ pc = "deliver"
    /\ msg.method # "CONTROL"
    /\ Matching = {}
    /\ NextMessage
    /\ UNCHANGED <<ret, subscription, ack, sending, expired, user, cloud, history>>

(* The code of the reply cannot be parsed: no callback.                    *)
DeliverMalformed ==
    /\ pc = "deliver"
    /\ msg.code = "none"
    /\ Matching # {}
    /\ reply_list' = Without(Matching)
    /\ upset' = IF \E r \in Matching : r.method \in Sync THEN upset \cup {"malformed"} ELSE upset
    /\ NextMessage
    /\ UNCHANGED <<ret, subscription, ack, req, used, expired, user, cloud, replied,
                   calls>>

(* _reply_ack_cb: what the waiting call is told.                           *)
Acknowledge ==
    ack' = IF \E r \in Matching : r.method \in Sync
           THEN IF msg.code = "ok" THEN "ACCEPTED" ELSE "REJECTED"
           ELSE ack

(* Faulty variants: the acknowledgement of a refused request is not given; *)
(* a request stays in the list after its callback.                         *)
DeliverReplyAccepted ==
    /\ pc = "deliver"
    /\ msg.code # "none"
    /\ Matching # {}
    /\ ~HasControlData
    /\ ack' = IF msg.code = "ok" /\ \E r \in Matching : r.method \in Sync THEN "ACCEPTED" ELSE ack
    /\ Called(Matching)
    /\ reply_list' = Without(Matching)
    /\ NextMessage
    /\ UNCHANGED <<ret, subscription, req, used, expired, user, cloud, replied, upset>>
DeliverReplyKeep ==
    /\ pc = "deliver"
    /\ msg.code # "none"
    /\ Matching # {}
    /\ ~HasControlData
    /\ Acknowledge
    /\ Called(Matching)
    /\ NextMessage
    /\ UNCHANGED <<ret, subscription, sending, expired, user, cloud, replied, upset>>

(* _handle_template_reply_callback for every request with the token, with  *)
(* _reply_ack_cb, or with _get_status_reply_ack_cb while the               *)
(* acknowledgement is still ACK_NONE.                                      *)
DeliverReply ==
    /\ pc = "deliver"
    /\ msg.code # "none"
    /\ Matching # {}
    /\ ~HasControlData
    /\ Acknowledge
    /\ Called(Matching)
    /\ reply_list' = Without(Matching)
    /\ NextMessage
    /\ UNCHANGED <<ret, subscription, req, used, expired, user, cloud, replied, upset>>

(* The status comes with control data: the acknowledgement is set before   *)
(* the callback, which then clears the control on the server by a request  *)
(* of its own, with the same token, while the list is being traversed.     *)
DeliverStatusWithControl ==
    /\ pc = "deliver"
    /\ HasControlData
    /\ Matching # {}
    /\ HandleControl(msg.token, msg.known)
    /\ Acknowledge
    /\ Called(Matching)
    /\ Start("CLEAR", msg.token)
    /\ UNCHANGED <<ret, subscription, expired, handling, cloud, replied, upset>>

(* Back in the traversal, which removes the request that was answered.     *)
Drop ==
    /\ pc = "drop"
    /\ reply_list' = Without({r \in Matching : r.method = "GET"})
    /\ NextMessage
    /\ UNCHANGED <<ret, subscription, ack, req, used, expired, user, cloud, history>>

(* The timer of a pending request runs out.                                *)
Tick ==
    /\ pc # "dead"
    /\ \E r \in reply_list :
          /\ r.id \notin expired
          /\ expired' = expired \cup {r.id}
    /\ UNCHANGED <<pc, ret, subscription, ack, sending, handling, user, cloud, history>>

(* Faulty variant: expired requests are reported and kept.                 *)
ExpireKeep ==
    /\ pc = "expire"
    /\ LET gone == {r \in reply_list : r.id \in expired} IN
       /\ Called(gone)
       /\ upset' = IF \E r \in gone : r.method \in Sync THEN upset \cup {"expired"}
                                                        ELSE upset
       /\ pc' = "return"
    /\ UNCHANGED <<ret, subscription, ack, sending, expired, handling, user, cloud,
                   replied>>

(* handle_template_expired_reply.  The callbacks of synchronous calls take *)
(* their last argument, the address of the ReplyAck, for the Request: they *)
(* write ACK_TIMEOUT where some word of the stack points to, or fault.     *)
Expire ==
    /\ pc = "expire"
    /\ LET gone == {r \in reply_list : r.id \in expired} IN
       /\ reply_list' = Without(gone)
       /\ Called(gone)
       /\ IF \E r \in gone : r.method \in Sync
          THEN upset' = upset \cup {"expired"} /\ pc' \in {"return", "dead"}
          ELSE UNCHANGED upset /\ pc' = "return"
       /\ expired' = {}
    /\ UNCHANGED <<ret, subscription, ack, req, used, handling, user, cloud, replied>>

(* Faulty variant: the call does not wait for its acknowledgement.         *)
ReturnImpatient ==
    /\ pc = "return"
    /\ ret \in Sync
    /\ pc' = CASE ack = "REJECTED" -> "dead"
               [] ack # "REJECTED" -> IF ret = "RINFO" THEN "get" ELSE "loop"
    /\ UNCHANGED <<ret, subscription, ack, sending, expired, handling, user, cloud,
                   history>>

(* The loops of the synchronous calls, and what the task does afterwards.  *)
Return ==
    /\ pc = "return"
    /\ ret \in Sync
    /\ pc' = CASE ack = "NONE"     -> "yield"
               [] ack = "REJECTED" -> "dead"
               [] ack = "ACCEPTED" -> IF ret = "RINFO" THEN "get" ELSE "loop"
    /\ UNCHANGED <<ret, subscription, ack, sending, expired, handling, user, cloud,
                   history>>
-----------------------------------------------------------------------------
(* The main loop of data_template_demo_task.                               *)

Loop ==
    /\ pc = "loop"
    /\ ret' = "loop"
    /\ pc' = "yield"
    /\ UNCHANGED <<subscription, ack, sending, expired, handling, user, cloud, history>>

(* deal_down_stream_user_logic, then IOT_Template_ControlReply.            *)
DealDownStream ==
    /\ pc = "return"
    /\ ret = "loop"
    /\ arrived
    /\ lamp' = product
    /\ Start("REPLY", control_token)
    /\ UNCHANGED <<ret, subscription, ack, expired, handling, control_token, arrived,
                   changed, product, cloud, history>>

NoControl ==
    /\ pc = "return"
    /\ ret = "loop"
    /\ ~arrived
    /\ pc' = "report"
    /\ UNCHANGED <<ret, subscription, ack, sending, expired, handling, user, cloud,
                   history>>

(* deal_up_stream_user_logic, then IOT_Template_Report.                    *)
DealUpStream ==
    /\ pc = "report"
    /\ changed
    /\ changed' = FALSE
    /\ Start("REPORT", NextToken)
    /\ UNCHANGED <<ret, subscription, ack, expired, handling, control_token, arrived,
                   product, lamp, cloud, history>>

NoChange ==
    /\ pc = "report"
    /\ ~changed
    /\ pc' = "loop"
    /\ UNCHANGED <<ret, subscription, ack, sending, expired, handling, user, cloud,
                   history>>

App == \/ Construct \/ Register \/ SysInfo \/ GetStatus \/ Publish \/ AddFails \/ Add \/ Yield
       \/ Fetch \/ DeliverControl \/ DeliverUnknown \/ DeliverMalformed \/ DeliverReply
       \/ DeliverStatusWithControl \/ Drop \/ Expire \/ Return \/ Loop \/ DealDownStream
       \/ NoControl \/ DealUpStream \/ NoChange
-----------------------------------------------------------------------------
(* The cloud (not in src/) and the way back: the parser task puts the      *)
(* message into pMsgList with IOT_Template_Message_Arrived_CallBack.       *)

Arrive(m) == /\ subscribed
             /\ pc # "dead"         \* no one reads what arrives later
             /\ Len(pMsgList) < MaxMsgs
             /\ pMsgList' = Append(pMsgList, m)
             /\ UNCHANGED <<msg, newest>>

Answer ==
    /\ \E r \in inbox, code \in {"ok", "error", "none"},
          control, known \in BOOLEAN :
          /\ control => r.method = "GET" /\ code = "ok"
          /\ known => control
          /\ Arrive([method |-> r.method, token |-> r.token, code |-> code,
                     control |-> control, known |-> known])
          /\ inbox' = inbox \ {r}
    /\ UNCHANGED <<pc, ret, subscription, ack, sending, expired, user, controls, history>>

SendControl ==
    /\ controls < MaxControls
    /\ controls' = controls + 1
    /\ \E known \in BOOLEAN :
          Arrive([method |-> "CONTROL", token |-> <<"ctl", controls + 1>>, code |-> "none",
                  control |-> FALSE, known |-> known])
    /\ UNCHANGED <<pc, ret, subscription, ack, sending, expired, user, inbox, history>>

Next == App \/ Tick \/ Answer \/ SendControl

(* The application task is scheduled (one priority, time slices) and the   *)
(* tick advances every timer.  The cloud promises nothing.                 *)
Spec == Init /\ [][Next]_vars /\ WF_vars(App) /\ WF_vars(Tick)
-----------------------------------------------------------------------------
TypeOK ==
    /\ pc \in PC
    /\ ret \in Sync \cup {"loop"}
    /\ subscribed \in BOOLEAN
    /\ destroyed \in BOOLEAN
    /\ ack \in Ack
    /\ req \in Request \cup {NoRequest}
    /\ reply_list \subseteq Request
    /\ IsFiniteSet(reply_list) /\ Cardinality(reply_list) <= MaxPending
    /\ expired \subseteq Id
    /\ pMsgList \in Seq(Message)
    /\ msg \in Message \cup {NoMessage}
    /\ newest \in BOOLEAN
    /\ control_token \in Token \cup {NoToken}
    /\ arrived \in BOOLEAN
    /\ changed \in BOOLEAN
    /\ product \subseteq Token
    /\ lamp \subseteq Token
    /\ inbox \subseteq Request
    /\ controls \in 0 .. MaxControls
    /\ used \in 0 .. MaxRequests
    /\ replied \subseteq Token
    /\ calls \in [Id -> Nat]
    /\ upset \subseteq {"malformed", "expired"}

(* While a synchronous call waits, its request is in reply_list, unless    *)
(* the request has expired or was answered without a code: then no one     *)
(* will ever set the acknowledgement.                                      *)
Waiting == ret \in Sync /\ ack = "NONE" /\ pc \in {"yield", "fetch", "deliver", "expire", "return"}
WaitsForPending ==
    Waiting /\ upset = {} => \E r \in reply_list : r.method = ret

(* A request that refers to the stack of a synchronous call never outlives *)
(* the call.                                                               *)
NoDanglingContext ==
    \A r \in reply_list : r.method \in Sync
        => ret = r.method /\ pc \notin {"info", "get", "loop", "report"}

(* The callback of a request is made at most once, and a request that is   *)
(* still in the list between two messages has not been called back.        *)
CallbackOnce ==
    /\ \A i \in Id : calls[i] <= 1
    /\ pc \in {"yield", "loop", "expire", "fetch"} =>
           \A r \in reply_list : calls[r.id] = 0

(* A reply reaches the callback of the request it answers and of no other, *)
(* although CLEAR and REPLY borrow the token of a message and a reply is   *)
(* given to every request with its token.                                  *)
RepliesMatchRequests ==
    pc = "deliver" /\ msg.method # "CONTROL" =>
        /\ \A r \in Matching : HasCallback(r) => r.method = msg.method
        /\ \A r, q \in Matching : HasCallback(r) /\ HasCallback(q) => r = q

(* Every request leaves the list in the end, answered or expired, unless   *)
(* the task has ended.                                                     *)
RequestsEnd ==
    \A i \in Id : (\E r \in reply_list : r.id = i)
                      ~> (pc = "dead" \/ \A r \in reply_list : r.id # i)

(* A control message that changes a property is applied in the end, and    *)
(* the cloud told about the change, unless the task has ended or its       *)
(* synchronous call waits for a lost reply for ever.                       *)
ControlIsApplied ==
    \A c \in Control : (<<"ctl", c>> \in product)
        ~> (\/ <<"ctl", c>> \in lamp /\ ~changed
            \/ pc = "dead"
            \/ upset # {} /\ ret \in Sync)
-----------------------------------------------------------------------------
(* What a comment says, and the code does not do.                          *)

(* qcloud_iot_export_data_template.h:304, "timeout_ms: time the call waits *)
(* for the response": a synchronous call returns.                          *)
SyncReturns == \A m \in Sync : (pc = "yield" /\ ret = m) ~> (pc \in {"dead", "get", "loop"})

=============================================================================
