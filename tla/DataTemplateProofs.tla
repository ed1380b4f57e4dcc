------------------------ MODULE DataTemplateProofs ------------------------
(***************************************************************************)
(* The safety properties of DataTemplate, for any number of control        *)
(* messages and any limits of the lists; and what Template says of the     *)
(* events that wait for a reply, for any limit of their list, and of the   *)
(* room a document needs, for any properties, labels, events and buffers.  *)
(* The two modules share nothing but the client they describe.             *)
(***************************************************************************)
EXTENDS DataTemplate, Template, FiniteSetTheorems, SequenceTheorems, TLAPS

\* The traversal that called back for a status with control data is under way.
Clearing == pc = "drop" \/ (pc \in {"publish", "add"} /\ req.method = "CLEAR")
Cleared(r) == Clearing /\ r.method = "GET" /\ r.token = msg.token

\* The requests in the list and the one that is about to be.
Sending == pc \in {"publish", "add"}
Active == reply_list \cup (IF Sending THEN {req} ELSE {})

(***************************************************************************)
(* Requests are told apart by their numbers, and those with a callback by  *)
(* their tokens.                                                           *)
(***************************************************************************)
IdInv ==
  /\ \A r \in Active : /\ r.id <= used
                       /\ HasCallback(r) => r.token = <<"dev", r.id>>
  /\ \A r, q \in Active : r.id = q.id => r = q
  /\ Sending => req \in Request \ reply_list

CallInv ==
  /\ \A i \in Id : calls[i] <= 1 /\ (i > used => calls[i] = 0)
  /\ \A r \in Active : calls[r.id] = 0 \/ Cleared(r)

(***************************************************************************)
(* What the cloud has got or sent answers one of the device's own tokens.  *)
(* A request with a callback and this token was sent with this method; a   *)
(* CLEAR meets none any more.                                              *)
(***************************************************************************)
Consistent(m, t) ==
  /\ m # "REPLY"
  /\ \E i \in 1 .. used :
       /\ t = <<"dev", i>>
       /\ \A r \in Active : HasCallback(r) /\ r.id = i => r.method = m \/ Cleared(r)

MsgInv ==
  /\ \A r \in inbox : Consistent(r.method, r.token)
  /\ \A j \in 1 .. Len(pMsgList) :
       pMsgList[j].method # "CONTROL" => Consistent(pMsgList[j].method, pMsgList[j].token)
  /\ msg.method # "CONTROL" => Consistent(msg.method, msg.token)

(***************************************************************************)
(* The message in hand, and the one that the iterator expects next.        *)
(***************************************************************************)
FlowInv ==
  /\ pc = "fetch" => pMsgList # <<>>
  /\ pc = "deliver" \/ Clearing => msg \in Message /\ (newest \/ pMsgList # <<>>)
  /\ Clearing => msg.method = "GET"
  /\ Sending /\ req.method = "CLEAR" => req.token = msg.token
  /\ arrived => control_token \in Token

(***************************************************************************)
(* The synchronous call: while its request is in the list the call waits   *)
(* and has not been acknowledged.                                          *)
(***************************************************************************)
SyncInv ==
  /\ pc \in {"construct", "register", "info"} => reply_list = {}
  /\ Sending /\ req.method \in Sync =>
       /\ ret = req.method /\ ack = "NONE"
       /\ \A r \in reply_list : r.method \notin Sync
  /\ Sending /\ req.method \in {"REPLY", "REPORT"} => ret = "loop"
  /\ pc = "report" => ret = "loop"
  /\ \A r \in reply_list : r.method \in Sync =>
       ret = r.method /\ pc \notin {"info", "get", "loop", "report"}
  /\ \A r \in reply_list : r.method \in Sync => (ack = "NONE" <=> ~Cleared(r))
  /\ \A r, q \in reply_list : r.method \in Sync /\ q.method \in Sync => r = q

PendingInv ==
  ret \in Sync /\ ack = "NONE" /\ upset = {}
  /\ (pc \in {"yield", "fetch", "deliver", "expire", "return"} \/ Clearing) =>
       \E r \in reply_list : r.method = ret

IInv == TypeOK /\ IdInv /\ CallInv /\ MsgInv /\ FlowInv /\ SyncInv /\ PendingInv

-----------------------------------------------------------------------------
(***************************************************************************)
(* Types.                                                                  *)
(***************************************************************************)
LEMMA MaxRequestsNat == MaxRequests \in Nat /\ MaxRequests > 0
  BY BoundAssumption DEF MaxRequests

LEMMA StartTyped ==
  ASSUME TypeOK, NEW method \in Method, NEW token \in Token, Start(method, token)
  PROVE  /\ req' \in Request /\ used' \in 0 .. MaxRequests /\ pc' \in PC
         /\ used' \in Id /\ reply_list' = reply_list
  BY MaxRequestsNat DEF TypeOK, Start, Request, Id, PC

LEMMA NextTokenTyped ==
  ASSUME TypeOK, used < MaxRequests
  PROVE  NextToken \in Token
  BY MaxRequestsNat DEF TypeOK, NextToken, Token, Id

\* A traversal takes requests off the list.
LEMMA WithoutTyped ==
  ASSUME TypeOK, NEW set
  PROVE  /\ Without(set) \subseteq Request
         /\ IsFiniteSet(Without(set)) /\ Cardinality(Without(set)) <= MaxPending
  <1>1. Without(set) \subseteq reply_list /\ IsFiniteSet(reply_list) /\ reply_list \subseteq Request
    BY DEF TypeOK, Without
  <1>2. /\ IsFiniteSet(Without(set)) /\ Cardinality(Without(set)) <= Cardinality(reply_list)
        /\ Cardinality(Without(set)) \in Nat /\ Cardinality(reply_list) \in Nat
    BY <1>1, FS_Subset, FS_CardinalityType
  <1>3. Cardinality(reply_list) <= MaxPending
    BY DEF TypeOK
  <1> QED BY <1>1, <1>2, <1>3, BoundAssumption

LEMMA NextMessageTyped ==
  ASSUME TypeOK, NextMessage
  PROVE  /\ pc' \in PC /\ msg' \in Message \cup {NoMessage} /\ newest' \in BOOLEAN
         /\ pMsgList' \in Seq(Message)
  BY DEF TypeOK, NextMessage, PC

LEMMA CalledTyped ==
  ASSUME TypeOK, NEW set, Called(set)
  PROVE  calls' \in [Id -> Nat]
  BY DEF TypeOK, Called

LEMMA HandleControlTyped ==
  ASSUME TypeOK, msg \in Message, NEW known \in BOOLEAN, HandleControl(msg.token, known)
  PROVE  /\ control_token' \in Token \cup {NoToken} /\ arrived' \in BOOLEAN
         /\ changed' \in BOOLEAN /\ product' \subseteq Token /\ lamp' \subseteq Token
  <1>1. msg.token \in Token
    BY DEF Message
  <1>2. control_token' \in Token \cup {NoToken} /\ product' \subseteq Token /\ lamp' \subseteq Token
    BY <1>1 DEF TypeOK, HandleControl, SetToken
  <1>3. arrived' \in BOOLEAN /\ changed' \in BOOLEAN
    BY Zenon DEF TypeOK, HandleControl
  <1> QED BY <1>2, <1>3

LEMMA BootTyped ==
  ASSUME TypeOK, Construct \/ Register \/ SysInfo \/ GetStatus
  PROVE  TypeOK'
  <1> USE DEF sending, handling, user, cloud, history, subscription
  <1>1. CASE Construct
    <2>1. subscribed' \in BOOLEAN
      BY <1>1, Zenon DEF Construct, Subscribe
    <2> QED BY <1>1, <2>1 DEF TypeOK, Construct, PC
  <1>2. CASE Register
    <2>1. subscribed' \in BOOLEAN /\ destroyed' \in BOOLEAN
      BY <1>2, Zenon DEF TypeOK, Register, Destroy, Unsubscribe
    <2> QED BY <1>2, <2>1 DEF TypeOK, Register, PC
  <1>3. ASSUME NEW method \in Sync, StartSync(method) PROVE TypeOK'
    <2>1. NextToken \in Token
      BY <1>3, NextTokenTyped DEF StartSync, Start
    <2>2. /\ req' \in Request /\ used' \in 0 .. MaxRequests /\ pc' \in PC
          /\ reply_list' = reply_list
      BY <1>3, <2>1, StartTyped DEF StartSync, Sync, Method
    <2> QED BY <1>3, <2>2 DEF TypeOK, StartSync, Ack
  <1> QED BY <1>1, <1>2, <1>3 DEF SysInfo, GetStatus, Sync

LEMMA SendTyped ==
  ASSUME TypeOK, Sending => req \in Request, Publish \/ AddFails \/ Add
  PROVE  TypeOK'
  <1> USE DEF sending, handling, user, cloud, history, subscription
  <1>1. CASE Publish
    <2>1. req \in Request /\ req.token \in Token
      BY <1>1 DEF Publish, Sending, Request
    <2>2. inbox' \subseteq Request /\ replied' \subseteq Token
      BY <1>1, <2>1 DEF TypeOK, Publish
    <2>3. pc' \in PC
      BY <1>1 DEF Publish, Failed, PC
    <2> QED BY <1>1, <2>2, <2>3 DEF TypeOK, Publish
  <1>2. CASE AddFails
    <2>1. pc' \in PC
      BY <1>2 DEF AddFails, Failed, PC
    <2> QED BY <1>2, <2>1 DEF TypeOK, AddFails
  <1>3. CASE Add
    <2>1. req \in Request
      BY <1>3 DEF Add, Sending
    <2>2. req.method \in Method
      BY <2>1 DEF Request
    <2>3. pc' \in PC
      BY <1>3, <2>2 DEF Add, PC, Method, Sync
    <2>4. reply_list' \subseteq Request
      BY <1>3, <2>1 DEF Add, TypeOK
    <2>5. IsFiniteSet(reply_list') /\ Cardinality(reply_list') <= MaxPending
      <3>1. IsFiniteSet(reply_list) /\ Cardinality(reply_list) \in Nat
        BY FS_CardinalityType DEF TypeOK
      <3>2. /\ IsFiniteSet(reply_list \cup {req})
            /\ \/ Cardinality(reply_list \cup {req}) = Cardinality(reply_list)
               \/ Cardinality(reply_list \cup {req}) = Cardinality(reply_list) + 1
        BY <3>1, FS_AddElement
      <3> QED BY <1>3, <3>1, <3>2, BoundAssumption DEF Add
    <2>6. arrived' \in BOOLEAN
      BY <1>3, Zenon DEF TypeOK, Add
    <2> QED BY <1>3, <2>3, <2>4, <2>5, <2>6 DEF TypeOK, Add
  <1> QED BY <1>1, <1>2, <1>3

LEMMA YieldTyped ==
  ASSUME TypeOK, pc = "fetch" => pMsgList # <<>>,
         Yield \/ Fetch \/ Tick \/ Expire \/ Return \/ Drop
  PROVE  TypeOK'
  <1> USE DEF sending, handling, user, cloud, history, subscription
  <1>1. CASE Yield
    BY <1>1 DEF TypeOK, Yield, PC
  <1>2. CASE Fetch
    <2>1. Head(pMsgList) \in Message /\ Tail(pMsgList) \in Seq(Message)
      BY <1>2 DEF Fetch, TypeOK
    <2>2. newest' \in BOOLEAN
      BY <1>2, Zenon DEF Fetch
    <2> QED BY <1>2, <2>1, <2>2 DEF TypeOK, Fetch, PC
  <1>3. CASE Tick
    <2>1. expired' \subseteq Id
      BY <1>3 DEF Tick, TypeOK, Request
    <2> QED BY <1>3, <2>1 DEF TypeOK, Tick
  <1>4. CASE Expire
    <2> DEFINE gone == {r \in reply_list : r.id \in expired}
    <2>1. calls' \in [Id -> Nat]
      BY <1>4, CalledTyped DEF Expire
    <2>2. /\ reply_list' \subseteq Request
          /\ IsFiniteSet(reply_list') /\ Cardinality(reply_list') <= MaxPending
      BY <1>4, WithoutTyped DEF Expire
    <2>3. pc' \in PC /\ upset' \subseteq {"malformed", "expired"}
      BY <1>4 DEF TypeOK, Expire, PC
    <2> QED BY <1>4, <2>1, <2>2, <2>3 DEF TypeOK, Expire
  <1>5. CASE Return
    <2>1. pc' \in PC
      BY <1>5 DEF TypeOK, Return, PC, Ack
    <2> QED BY <1>5, <2>1 DEF TypeOK, Return
  <1>6. CASE Drop
    <2>1. /\ reply_list' \subseteq Request
          /\ IsFiniteSet(reply_list') /\ Cardinality(reply_list') <= MaxPending
      BY <1>6, WithoutTyped DEF Drop
    <2> QED BY <1>6, <2>1, NextMessageTyped DEF TypeOK, Drop
  <1> QED BY <1>1, <1>2, <1>3, <1>4, <1>5, <1>6

LEMMA DeliverTyped ==
  ASSUME TypeOK, pc = "deliver" => msg \in Message,
         DeliverControl \/ DeliverUnknown \/ DeliverMalformed \/ DeliverReply
           \/ DeliverStatusWithControl
  PROVE  TypeOK'
  <1> USE DEF sending, handling, user, cloud, history, subscription
  <1>1. msg \in Message
    BY DEF DeliverControl, DeliverUnknown, DeliverMalformed, DeliverReply, DeliverStatusWithControl
  <1>2. msg.known \in BOOLEAN /\ msg.token \in Token
    BY <1>1 DEF Message
  <1>3. CASE DeliverControl
    BY <1>1, <1>2, <1>3, HandleControlTyped, NextMessageTyped DEF TypeOK, DeliverControl
  <1>4. CASE DeliverUnknown
    BY <1>4, NextMessageTyped DEF TypeOK, DeliverUnknown
  <1>5. CASE DeliverMalformed
    <2>1. upset' \subseteq {"malformed", "expired"}
      BY <1>5 DEF TypeOK, DeliverMalformed
    <2>2. /\ reply_list' \subseteq Request
          /\ IsFiniteSet(reply_list') /\ Cardinality(reply_list') <= MaxPending
      BY <1>5, WithoutTyped DEF DeliverMalformed
    <2> QED BY <1>5, <2>1, <2>2, NextMessageTyped DEF TypeOK, DeliverMalformed
  <1>6. CASE DeliverReply
    <2>1. ack' \in Ack
      BY <1>6 DEF TypeOK, DeliverReply, Acknowledge, Ack
    <2>2. /\ reply_list' \subseteq Request
          /\ IsFiniteSet(reply_list') /\ Cardinality(reply_list') <= MaxPending
      BY <1>6, WithoutTyped DEF DeliverReply
    <2>3. calls' \in [Id -> Nat]
      BY <1>6, CalledTyped DEF DeliverReply
    <2> QED BY <1>6, <2>1, <2>2, <2>3, NextMessageTyped DEF TypeOK, DeliverReply
  <1>7. CASE DeliverStatusWithControl
    <2>1. ack' \in Ack
      BY <1>7 DEF TypeOK, DeliverStatusWithControl, Acknowledge, Ack
    <2>2. calls' \in [Id -> Nat]
      BY <1>7, CalledTyped DEF DeliverStatusWithControl
    <2>3. /\ req' \in Request /\ used' \in 0 .. MaxRequests /\ pc' \in PC
          /\ reply_list' = reply_list
      BY <1>2, <1>7, StartTyped DEF DeliverStatusWithControl, Method
    <2>4. /\ control_token' \in Token \cup {NoToken} /\ arrived' \in BOOLEAN
          /\ changed' \in BOOLEAN /\ product' \subseteq Token /\ lamp' \subseteq Token
      BY <1>1, <1>2, <1>7, HandleControlTyped DEF DeliverStatusWithControl
    <2> QED BY <1>7, <2>1, <2>2, <2>3, <2>4 DEF TypeOK, DeliverStatusWithControl
  <1> QED BY <1>3, <1>4, <1>5, <1>6, <1>7

LEMMA LoopTyped ==
  ASSUME TypeOK, arrived => control_token \in Token,
         Loop \/ DealDownStream \/ NoControl \/ DealUpStream \/ NoChange
  PROVE  TypeOK'
  <1> USE DEF sending, handling, user, cloud, history, subscription
  <1>1. CASE Loop
    BY <1>1 DEF TypeOK, Loop, PC
  <1>2. CASE DealDownStream
    <2>1. control_token \in Token
      BY <1>2 DEF DealDownStream
    <2>2. /\ req' \in Request /\ used' \in 0 .. MaxRequests /\ pc' \in PC
          /\ reply_list' = reply_list
      BY <1>2, <2>1, StartTyped DEF DealDownStream, Method
    <2> QED BY <1>2, <2>2 DEF TypeOK, DealDownStream
  <1>3. CASE NoControl
    BY <1>3 DEF TypeOK, NoControl, PC
  <1>4. CASE DealUpStream
    <2>1. NextToken \in Token
      BY <1>4, NextTokenTyped DEF DealUpStream, Start
    <2>2. /\ req' \in Request /\ used' \in 0 .. MaxRequests /\ pc' \in PC
          /\ reply_list' = reply_list
      BY <1>4, <2>1, StartTyped DEF DealUpStream, Method
    <2>3. changed' \in BOOLEAN
      BY <1>4 DEF DealUpStream
    <2> QED BY <1>4, <2>2, <2>3 DEF TypeOK, DealUpStream
  <1>5. CASE NoChange
    BY <1>5 DEF TypeOK, NoChange, PC
  <1> QED BY <1>1, <1>2, <1>3, <1>4, <1>5

LEMMA CloudTyped ==
  ASSUME TypeOK, Answer \/ SendControl \/ UNCHANGED vars
  PROVE  TypeOK'
  <1> USE DEF sending, handling, user, cloud, history, subscription
  <1>1. ASSUME NEW m \in Message, Arrive(m) 
        PROVE  pMsgList' \in Seq(Message) /\ UNCHANGED <<msg, newest>>
    BY <1>1 DEF TypeOK, Arrive
  <1>2. CASE Answer
    <2>1. PICK r \in inbox, code \in {"ok", "error", "none"}, control \in BOOLEAN, known \in BOOLEAN :
            /\ Arrive([method |-> r.method, token |-> r.token, code |-> code,
                       control |-> control, known |-> known])
            /\ inbox' = inbox \ {r}
      BY <1>2, Zenon DEF Answer
    <2>2. r.method \in Method /\ r.token \in Token
      BY DEF TypeOK, Request
    <2>3. [method |-> r.method, token |-> r.token, code |-> code, control |-> control,
           known |-> known] \in Message
      BY <2>2 DEF Message
    <2>4. pMsgList' \in Seq(Message) /\ UNCHANGED <<msg, newest>> /\ inbox' \subseteq Request
      BY <1>1, <2>1, <2>3 DEF TypeOK
    <2> QED BY <1>2, <2>4 DEF TypeOK, Answer
  <1>3. CASE SendControl
    <2>1. PICK known \in BOOLEAN :
            Arrive([method |-> "CONTROL", token |-> <<"ctl", controls + 1>>, code |-> "none",
                    control |-> FALSE, known |-> known])
      BY <1>3, Zenon DEF SendControl
    <2>2. <<"ctl", controls + 1>> \in Token /\ controls' \in 0 .. MaxControls
      BY <1>3, BoundAssumption DEF SendControl, TypeOK, Token, Control
    <2>3. [method |-> "CONTROL", token |-> <<"ctl", controls + 1>>, code |-> "none",
           control |-> FALSE, known |-> known] \in Message
      BY <2>2 DEF Message
    <2>4. pMsgList' \in Seq(Message) /\ UNCHANGED <<msg, newest>>
      BY <1>1, <2>1, <2>3
    <2> QED BY <1>3, <2>2, <2>4 DEF TypeOK, SendControl
  <1>4. CASE UNCHANGED vars
    BY <1>4 DEF TypeOK, vars
  <1> QED BY <1>2, <1>3, <1>4

-----------------------------------------------------------------------------
(***************************************************************************)
(* A step either starts a request or starts none: then the requests that   *)
(* are under way at most get fewer, and one that is to be cleared stays so *)
(* or goes.                                                                *)
(***************************************************************************)
StartsNone ==
  /\ used' = used
  /\ Active' \subseteq Active
  /\ Sending' => Sending /\ req' = req /\ reply_list' \subseteq reply_list
  /\ \A r \in Active' : Cleared(r) => Cleared(r)'

Starts ==
  /\ ~Sending /\ pc # "drop"
  /\ \E method \in Method, token \in Token :
       /\ Start(method, token)
       /\ method \in Sync \cup {"REPORT"} => token = NextToken

Quiet == \/ Construct \/ Register \/ AddFails \/ Add \/ Yield \/ Fetch \/ DeliverControl
         \/ DeliverUnknown \/ DeliverMalformed \/ Tick \/ Return \/ Loop \/ NoControl \/ NoChange
         \/ Answer \/ SendControl \/ Publish \/ Drop \/ UNCHANGED vars
Answers == DeliverReply \/ Expire
Opens == SysInfo \/ GetStatus \/ DealDownStream \/ DealUpStream

LEMMA StepSplit ==
  ASSUME [Next]_vars PROVE Quiet \/ Answers \/ Opens \/ DeliverStatusWithControl
  BY DEF Next, App, Quiet, Answers, Opens

LEMMA QuietStartsNone ==
  ASSUME TypeOK, IdInv, Quiet
  PROVE  StartsNone /\ calls' = calls
  <1> USE DEF StartsNone, Active, Sending, Cleared, Clearing, sending, handling, history
  <1>1. CASE Construct \/ Register
    BY <1>1 DEF Construct, Register
  <1>2. CASE AddFails \/ Publish
    BY <1>2 DEF AddFails, Publish, Failed
  <1>3. CASE Add
    <2>1. used' = used /\ calls' = calls /\ req' = req /\ msg' = msg
      BY <1>3 DEF Add
    <2>2. pc = "add" /\ reply_list' = reply_list \cup {req} /\ ~Sending'
      <3>1. pc = "add" /\ req.method \in Method
        BY <1>3 DEF Add, IdInv, Request
      <3> QED BY <1>3, <3>1 DEF Add, Sync, Method
    <2>3. Active' = Active
      BY <2>2
    <2>4. req.method = "CLEAR" => pc' = "drop"
      BY <1>3 DEF Add, Sync
    <2> QED BY <2>1, <2>2, <2>3, <2>4
  <1>4. CASE Yield \/ Fetch \/ DeliverControl \/ DeliverUnknown
    BY <1>4 DEF Yield, Fetch, DeliverControl, DeliverUnknown, NextMessage
  <1>5. CASE DeliverMalformed
    BY <1>5 DEF DeliverMalformed, NextMessage, Without
  <1>6. CASE Tick
    BY <1>6 DEF Tick
  <1>7. CASE Return
    BY <1>7 DEF Return, Sync, TypeOK, Ack
  <1>8. CASE Loop \/ NoControl \/ NoChange
    BY <1>8 DEF Loop, NoControl, NoChange
  <1>9. CASE Answer \/ SendControl
    <2>1. UNCHANGED <<pc, req, reply_list, used, msg, calls>>
      BY <1>9 DEF Answer, SendControl, Arrive
    <2> QED BY <2>1
  <1>10. CASE Drop
    <2>1. /\ pc = "drop" /\ ~Sending' /\ used' = used /\ calls' = calls
          /\ reply_list' = reply_list \ {r \in Matching : r.method = "GET"}
      BY <1>10 DEF Drop, NextMessage, Without
    <2>2. \A r \in reply_list' : ~Cleared(r)
      BY <2>1 DEF Matching, Match
    <2> QED BY <2>1, <2>2
  <1>11. CASE UNCHANGED vars
    BY <1>11 DEF vars
  <1> QED BY <1>1, <1>2, <1>3, <1>4, <1>5, <1>6, <1>7, <1>8, <1>9, <1>10, <1>11 DEF Quiet

LEMMA AnswersStartNone ==
  ASSUME Answers
  PROVE  StartsNone /\ ~Clearing /\ ~Clearing'
  <1> USE DEF StartsNone, Active, Sending, Cleared, Clearing, sending, handling, history
  <1>1. CASE DeliverReply
    BY <1>1 DEF DeliverReply, NextMessage, Without
  <1>2. CASE Expire
    <2>1. pc' \in {"return", "dead"} /\ pc = "expire"
      BY <1>2 DEF Expire
    <2>2. reply_list' \subseteq reply_list /\ used' = used
      BY <1>2 DEF Expire, Without
    <2> QED BY <2>1, <2>2
  <1> QED BY <1>1, <1>2 DEF Answers

LEMMA OpensStarts ==
  ASSUME TypeOK, FlowInv, Opens
  PROVE  Starts /\ calls' = calls /\ UNCHANGED <<inbox, pMsgList, msg, newest>>
  <1> USE DEF Starts, Sending, cloud, handling, history
  <1>1. ASSUME NEW method \in Sync, StartSync(method), pc \in {"info", "get"}
        PROVE  Starts /\ calls' = calls /\ UNCHANGED <<inbox, pMsgList, msg, newest>>
    <2>1. NextToken \in Token /\ method \in Method
      BY <1>1, NextTokenTyped DEF StartSync, Start, Sync, Method
    <2> QED BY <1>1, <2>1 DEF StartSync
  <1>2. CASE DealDownStream
    <2>1. control_token \in Token /\ "REPLY" \in Method /\ "REPLY" \notin Sync \cup {"REPORT"}
      BY <1>2 DEF DealDownStream, FlowInv, Method, Sync
    <2> QED BY <1>2, <2>1 DEF DealDownStream
  <1>3. CASE DealUpStream
    <2>1. NextToken \in Token /\ "REPORT" \in Method
      BY <1>3, NextTokenTyped DEF DealUpStream, Start, Method
    <2> QED BY <1>3, <2>1 DEF DealUpStream
  <1> QED BY <1>1, <1>2, <1>3 DEF Opens, SysInfo, GetStatus, Sync

LEMMA StatusStarts ==
  ASSUME TypeOK, FlowInv, DeliverStatusWithControl
  PROVE  /\ Starts /\ Start("CLEAR", msg.token)
         /\ Called(Matching) /\ UNCHANGED <<inbox, pMsgList, msg, newest>>
         /\ pc = "deliver" /\ msg.method = "GET" /\ msg \in Message
  <1>1. /\ Start("CLEAR", msg.token) /\ pc = "deliver" /\ msg.method = "GET"
        /\ Called(Matching) /\ UNCHANGED <<inbox, pMsgList, msg, newest>>
    BY DEF DeliverStatusWithControl, HasControlData, cloud, handling
  <1>2. msg \in Message
    BY <1>1 DEF FlowInv
  <1>3. msg.token \in Token /\ "CLEAR" \in Method /\ "CLEAR" \notin Sync \cup {"REPORT"}
    BY <1>2 DEF Message, Method, Sync
  <1> QED BY <1>1, <1>2, <1>3 DEF Starts, Sending

-----------------------------------------------------------------------------
(***************************************************************************)
(* Requests are told apart.                                                *)
(***************************************************************************)
LEMMA IdKept ==
  ASSUME IdInv, StartsNone
  PROVE  IdInv'
  <1>1. \A r \in Active' : r \in Active
    BY DEF StartsNone
  <1>2. Sending' => req' \in Request \ reply_list'
    BY DEF IdInv, StartsNone
  <1>3. used' = used
    BY DEF StartsNone
  <1> QED BY <1>1, <1>2, <1>3 DEF IdInv, HasCallback

\* The state after a request has been started.
LEMMA StartedActive ==
  ASSUME TypeOK, Starts
  PROVE  /\ used' = used + 1 /\ used \in Nat
         /\ reply_list' = reply_list /\ Active = reply_list
         /\ Active' = reply_list \cup {req'} /\ Sending' /\ ~Clearing
         /\ req' \in Request /\ req'.id = used + 1
         /\ HasCallback(req') => req'.token = <<"dev", req'.id>>
  <1>1. PICK method \in Method, token \in Token :
          /\ Start(method, token)
          /\ method \in Sync \cup {"REPORT"} => token = NextToken
    BY DEF Starts
  <1>2. req' = [id |-> used + 1, method |-> method, token |-> token]
    BY <1>1 DEF Start
  <1>3. req' \in Request
    BY <1>1, StartTyped
  <1>4. HasCallback(req') => req'.token = <<"dev", req'.id>>
    BY <1>1, <1>2 DEF HasCallback, NextToken
  <1>5. used' = used + 1 /\ reply_list' = reply_list /\ pc' = "publish"
    BY <1>1 DEF Start
  <1>6. used \in Nat
    BY DEF TypeOK
  <1> QED BY <1>2, <1>3, <1>4, <1>5, <1>6 DEF Starts, Active, Sending, Clearing

LEMMA IdStarted ==
  ASSUME TypeOK, IdInv, Starts
  PROVE  IdInv'
  <1> USE StartedActive
  <1>1. \A r \in reply_list : r.id \in Nat /\ r.id <= used
    BY DEF IdInv, TypeOK, Request, Id
  <1>2. \A r \in Active' : /\ r.id <= used'
                           /\ HasCallback(r) => r.token = <<"dev", r.id>>
    BY <1>1 DEF IdInv
  <1>3. \A r, q \in Active' : r.id = q.id => r = q
    BY <1>1 DEF IdInv
  <1>4. Sending' => req' \in Request \ reply_list'
    BY <1>1
  <1> QED BY <1>2, <1>3, <1>4 DEF IdInv, HasCallback

-----------------------------------------------------------------------------
(***************************************************************************)
(* Messages answer what was sent.                                          *)
(***************************************************************************)
LEMMA ConsistentKept ==
  ASSUME TypeOK, NEW m, NEW t, Consistent(m, t), StartsNone
  PROVE  Consistent(m, t)'
  BY DEF StartsNone, Consistent, HasCallback

LEMMA ConsistentStarted ==
  ASSUME TypeOK, NEW m, NEW t, Consistent(m, t), Starts
  PROVE  Consistent(m, t)'
  <1>1. PICK i \in 1 .. used :
          /\ t = <<"dev", i>>
          /\ \A r \in Active : HasCallback(r) /\ r.id = i => r.method = m \/ Cleared(r)
    BY DEF Consistent
  <1>2. \A r \in Active' : HasCallback(r) /\ r.id = i => r \in Active
    BY StartedActive
  <1>3. \A r \in Active : ~Cleared(r)
    BY StartedActive DEF Cleared
  <1>4. i \in 1 .. used'
    BY StartedActive
  <1>5. \A r \in Active' : HasCallback(r) /\ r.id = i => r.method = m
    BY <1>1, <1>2, <1>3
  <1> QED BY <1>1, <1>4, <1>5 DEF Consistent, HasCallback

\* What is published is a request with its own number, or a CLEAR while the
\* request it belongs to is being taken off the list.
LEMMA PublishConsistent ==
  ASSUME TypeOK, IdInv, FlowInv, MsgInv, Sending, req.method # "REPLY"
  PROVE  Consistent(req.method, req.token)
  <1>1. req \in Request /\ req \in Active
    BY DEF IdInv, Active
  <1>2. CASE req.method = "CLEAR"
    <2>1. req.token = msg.token /\ msg.method = "GET" /\ Clearing
      BY <1>2 DEF FlowInv, Clearing, Sending
    <2>2. PICK i \in 1 .. used :
            /\ msg.token = <<"dev", i>>
            /\ \A r \in Active : HasCallback(r) /\ r.id = i => r.method = "GET" \/ Cleared(r)
      BY <2>1 DEF MsgInv, Consistent
    <2>3. \A r \in Active : HasCallback(r) /\ r.id = i => Cleared(r)
      BY <2>1, <2>2 DEF IdInv, Cleared
    <2> QED BY <1>2, <2>1, <2>2, <2>3 DEF Consistent
  <1>3. CASE req.method # "CLEAR"
    <2>1. HasCallback(req)
      BY <1>1, <1>3 DEF HasCallback, Request, Method, Sync
    <2>2. req.id \in 1 .. used /\ req.token = <<"dev", req.id>>
      BY <1>1, <2>1 DEF IdInv, Request, Id, TypeOK
    <2>3. \A r \in Active : r.id = req.id => r = req
      BY <1>1 DEF IdInv
    <2> QED BY <2>2, <2>3 DEF Consistent
  <1> QED BY <1>2, <1>3

LEMMA MsgKept ==
  ASSUME TypeOK, IdInv, FlowInv, MsgInv, [Next]_vars
  PROVE  MsgInv'
  <1>1. ASSUME NEW m, NEW t, Consistent(m, t) PROVE Consistent(m, t)'
    BY <1>1, StepSplit, QuietStartsNone, AnswersStartNone, OpensStarts, StatusStarts,
       ConsistentKept, ConsistentStarted
  <1>2. CASE UNCHANGED <<inbox, pMsgList, msg>>
    BY <1>1, <1>2 DEF MsgInv
  <1>3. CASE Publish
    <2>1. UNCHANGED <<pMsgList, msg>> /\ Sending
      BY <1>3 DEF Publish, handling, Sending
    <2>2. inbox' = inbox \/ (inbox' = inbox \cup {req} /\ req.method # "REPLY")
      BY <1>3 DEF Publish
    <2> QED BY <1>1, <2>1, <2>2, PublishConsistent DEF MsgInv
  <1>4. CASE Fetch
    <2>1. pMsgList # <<>> /\ pMsgList \in Seq(Message)
      BY <1>4 DEF Fetch, FlowInv, TypeOK
    <2>2. msg' = pMsgList[1] /\ inbox' = inbox /\ Len(pMsgList) \in Nat /\ Len(pMsgList) >= 1
      BY <1>4, <2>1 DEF Fetch, cloud
    <2>3. /\ Len(pMsgList') = Len(pMsgList) - 1
          /\ \A j \in 1 .. Len(pMsgList') : pMsgList'[j] = pMsgList[j + 1]
      BY <1>4, <2>1 DEF Fetch
    <2>4. \A j \in 1 .. Len(pMsgList') : j + 1 \in 1 .. Len(pMsgList)
      BY <2>2, <2>3
    <2> QED BY <1>1, <2>2, <2>3, <2>4 DEF MsgInv
  <1>5. CASE UNCHANGED <<inbox, pMsgList>> /\ msg' = NoMessage
    BY <1>1, <1>5 DEF MsgInv, NoMessage
  <1>6. ASSUME NEW m \in Message, Arrive(m), m.method # "CONTROL" => Consistent(m.method, m.token),
               inbox' \subseteq inbox
        PROVE  MsgInv'
    <2>1. pMsgList' = Append(pMsgList, m) /\ msg' = msg /\ pMsgList \in Seq(Message)
      BY <1>6 DEF Arrive, TypeOK
    <2>2. \A j \in 1 .. Len(pMsgList') :
            pMsgList'[j] = m \/ (j \in 1 .. Len(pMsgList) /\ pMsgList'[j] = pMsgList[j])
      BY <2>1
    <2> QED BY <1>1, <1>6, <2>1, <2>2 DEF MsgInv
  <1>7. CASE Answer
    <2>1. PICK r \in inbox, code \in {"ok", "error", "none"}, control \in BOOLEAN, known \in BOOLEAN :
            /\ Arrive([method |-> r.method, token |-> r.token, code |-> code,
                       control |-> control, known |-> known])
            /\ inbox' = inbox \ {r}
      BY <1>7, Zenon DEF Answer
    <2>2. [method |-> r.method, token |-> r.token, code |-> code, control |-> control,
           known |-> known] \in Message
      BY DEF Message, TypeOK, Request
    <2>3. Consistent(r.method, r.token)
      BY DEF MsgInv
    <2> QED BY <1>6, <2>1, <2>2, <2>3
  <1>8. CASE SendControl
    <2>1. PICK known \in BOOLEAN :
            Arrive([method |-> "CONTROL", token |-> <<"ctl", controls + 1>>, code |-> "none",
                    control |-> FALSE, known |-> known])
      BY <1>8, Zenon DEF SendControl
    <2>2. [method |-> "CONTROL", token |-> <<"ctl", controls + 1>>, code |-> "none",
           control |-> FALSE, known |-> known] \in Message
      BY <1>8, BoundAssumption DEF SendControl, Message, TypeOK, Token, Control
    <2>3. inbox' = inbox
      BY <1>8 DEF SendControl
    <2> QED BY <1>6, <2>1, <2>2, <2>3
  <1>9. CASE Construct \/ Register \/ AddFails \/ Add \/ Yield \/ Tick \/ Return \/ Loop
             \/ NoControl \/ NoChange \/ Expire \/ UNCHANGED vars
    <2>1. UNCHANGED <<inbox, pMsgList, msg>>
      BY <1>9 DEF Construct, Register, AddFails, Add, Yield, Tick, Return, Loop, NoControl, NoChange,
                  Expire, vars, handling, cloud
    <2> QED BY <1>2, <2>1
  <1>10. CASE DeliverControl \/ DeliverUnknown \/ DeliverMalformed \/ DeliverReply \/ Drop
    <2>1. UNCHANGED <<inbox, pMsgList>> /\ msg' = NoMessage
      BY <1>10 DEF DeliverControl, DeliverUnknown, DeliverMalformed, DeliverReply, Drop, NextMessage,
                   cloud
    <2> QED BY <1>5, <2>1
  <1> QED BY <1>2, <1>3, <1>4, <1>7, <1>8, <1>9, <1>10, StepSplit, OpensStarts, StatusStarts
          DEF Quiet, Answers

-----------------------------------------------------------------------------
(***************************************************************************)
(* Callbacks.                                                              *)
(***************************************************************************)
LEMMA RepliesMatch ==
  ASSUME TypeOK, IdInv, MsgInv
  PROVE  RepliesMatchRequests
  <1> SUFFICES ASSUME pc = "deliver", msg.method # "CONTROL"
               PROVE  /\ \A r \in Matching : HasCallback(r) => r.method = msg.method
                      /\ \A r, q \in Matching : HasCallback(r) /\ HasCallback(q) => r = q
    BY DEF RepliesMatchRequests
  <1>1. PICK i \in 1 .. used :
          /\ msg.token = <<"dev", i>>
          /\ \A r \in Active : HasCallback(r) /\ r.id = i => r.method = msg.method \/ Cleared(r)
    BY DEF MsgInv, Consistent
  <1>2. ~Clearing
    BY DEF Clearing
  <1>3. \A r \in Matching : r \in Active /\ r.token = msg.token
    BY DEF Matching, Match, Active
  <1>4. \A r \in Matching : HasCallback(r) => r.id = i
    BY <1>1, <1>3 DEF IdInv
  <1>5. \A r, q \in Matching : HasCallback(r) /\ HasCallback(q) => r = q
    BY <1>3, <1>4 DEF IdInv
  <1> QED BY <1>1, <1>2, <1>3, <1>4, <1>5 DEF Cleared

\* What a round of callbacks leaves untouched.
LEMMA CalledOnce ==
  ASSUME TypeOK, IdInv, CallInv, ~Clearing, NEW set, set \subseteq reply_list, Called(set)
  PROVE  /\ \A i \in Id : calls'[i] <= 1 /\ (i > used => calls'[i] = 0)
         /\ \A r \in reply_list : (r \notin set \/ ~HasCallback(r)) => calls'[r.id] = 0
  <1>1. \A r \in reply_list : calls[r.id] = 0 /\ r.id \in Id /\ r.id <= used
    BY DEF CallInv, Cleared, Active, IdInv, TypeOK, Request
  <1>2. \A i \in Id : calls'[i] = IF \E r \in set : r.id = i /\ HasCallback(r)
                                   THEN calls[i] + 1 ELSE calls[i]
    BY DEF Called
  <1>3. \A r \in reply_list, q \in set : q.id = r.id => q = r
    BY DEF IdInv, Active
  <1>4. used \in Nat /\ Id \subseteq Nat /\ calls \in [Id -> Nat]
    BY DEF TypeOK, Id
  <1>5. \A i \in Id : calls'[i] <= 1 /\ (i > used => calls'[i] = 0)
    <2> SUFFICES ASSUME NEW i \in Id PROVE calls'[i] <= 1 /\ (i > used => calls'[i] = 0)
      OBVIOUS
    <2>1. CASE \E r \in set : r.id = i /\ HasCallback(r)
      BY <1>1, <1>2, <1>4, <2>1
    <2>2. CASE ~\E r \in set : r.id = i /\ HasCallback(r)
      <3>1. calls'[i] = calls[i]
        BY <1>2, <2>2
      <3> QED BY <3>1 DEF CallInv
    <2> QED BY <2>1, <2>2
  <1>6. \A r \in reply_list : (r \notin set \/ ~HasCallback(r)) => calls'[r.id] = 0
    BY <1>1, <1>2, <1>3
  <1> QED BY <1>5, <1>6

LEMMA CallKept ==
  ASSUME TypeOK, IdInv, CallInv, MsgInv, FlowInv, [Next]_vars
  PROVE  CallInv'
  <1>1. CASE Quiet
    <2>1. StartsNone /\ calls' = calls
      BY <1>1, QuietStartsNone
    <2> QED BY <2>1 DEF CallInv, StartsNone
  <1>2. CASE Answers
    <2>1. StartsNone /\ ~Clearing
      BY <1>2, AnswersStartNone
    <2>2. PICK set : /\ set \subseteq reply_list /\ Called(set)
                     /\ reply_list' = reply_list \ set /\ ~Sending'
      <3>1. CASE DeliverReply
        BY <3>1 DEF DeliverReply, Matching, Without, Sending, NextMessage
      <3>2. CASE Expire
        <4>1. pc' \in {"return", "dead"}
          BY <3>2 DEF Expire
        <4> QED BY <3>2, <4>1 DEF Expire, Without, Sending
      <3> QED BY <1>2, <3>1, <3>2 DEF Answers
    <2>3. Active' = reply_list \ set
      BY <2>2 DEF Active
    <2>4. used' = used
      BY <2>1 DEF StartsNone
    <2> QED BY <2>1, <2>2, <2>3, <2>4, CalledOnce DEF CallInv
  <1>3. CASE Opens
    <2>1. Starts /\ calls' = calls
      BY <1>3, OpensStarts
    <2>2. \A r \in reply_list : calls[r.id] = 0
      BY <2>1, StartedActive DEF CallInv, Cleared
    <2>3. calls[req'.id] = 0
      BY <2>1, StartedActive DEF CallInv, Request
    <2>4. \A i \in Id : calls[i] <= 1 /\ (i > used' => calls[i] = 0)
      BY <2>1, StartedActive DEF CallInv, Id
    <2> QED BY <2>1, <2>2, <2>3, <2>4, StartedActive DEF CallInv
  <1>4. CASE DeliverStatusWithControl
    <2>1. /\ Starts /\ Start("CLEAR", msg.token) /\ Called(Matching)
          /\ pc = "deliver" /\ msg.method = "GET" /\ msg' = msg
      BY <1>4, StatusStarts
    <2>2. /\ Matching \subseteq reply_list /\ ~Clearing
      BY <2>1, StartedActive DEF Matching
    <2>3. Clearing'
      BY <2>1 DEF Start, Clearing
    <2>4. \A r \in Matching : HasCallback(r) => Cleared(r)'
      BY <2>1, <2>3, RepliesMatch DEF RepliesMatchRequests, Cleared, Matching, Match
    <2>5. \A r \in reply_list : calls'[r.id] = 0 \/ Cleared(r)'
      BY <2>1, <2>2, <2>4, CalledOnce
    <2>6. calls'[req'.id] = 0
      BY <2>1, <2>2, CalledOnce, StartedActive DEF Request
    <2>7. \A i \in Id : calls'[i] <= 1 /\ (i > used' => calls'[i] = 0)
      BY <2>1, <2>2, CalledOnce, StartedActive DEF Id
    <2> QED BY <2>1, <2>5, <2>6, <2>7, StartedActive DEF CallInv
  <1> QED BY <1>1, <1>2, <1>3, <1>4, StepSplit

-----------------------------------------------------------------------------
(***************************************************************************)
(* The message in hand.                                                    *)
(***************************************************************************)
LEMMA FlowKept ==
  ASSUME TypeOK, IdInv, FlowInv, [Next]_vars
  PROVE  FlowInv'
  <1> USE DEF FlowInv, Sending, Clearing, sending, handling, user, history
  <1>1. CASE Construct \/ Register \/ Tick \/ Return \/ Loop \/ NoControl \/ NoChange \/ Expire
    BY <1>1 DEF Construct, Register, Tick, Return, Loop, NoControl, NoChange, Expire, Sync, TypeOK, Ack
  <1>2. CASE Publish \/ AddFails
    BY <1>2 DEF Publish, AddFails, Failed
  <1>3. CASE Add
    <2>1. pc = "add" /\ req.method \in Method
      BY <1>3 DEF Add, IdInv, Request
    <2> QED BY <1>3, <2>1 DEF Add, Method, Sync
  <1>4. CASE Yield
    BY <1>4 DEF Yield
  <1>5. CASE Fetch
    <2>1. pMsgList # <<>> /\ pMsgList \in Seq(Message)
      BY <1>5 DEF Fetch, TypeOK
    <2>2. Len(pMsgList) = 1 \/ Tail(pMsgList) # <<>>
      <3> DEFINE rest == Tail(pMsgList)
      <3>1. Len(rest) = Len(pMsgList) - 1 /\ Len(pMsgList) \in Nat
        BY <2>1
      <3>2. Len(<<>>) = 0
        OBVIOUS
      <3> HIDE DEF rest
      <3>3. Len(pMsgList) = 1 \/ rest # <<>>
        BY <3>1, <3>2
      <3> QED BY <3>3 DEF rest
    <2>3. Head(pMsgList) \in Message
      BY <2>1
    <2> QED BY <1>5, <2>2, <2>3 DEF Fetch
  <1>6. CASE DeliverControl
    <2>1. msg.token \in Token /\ pc = "deliver"
      BY <1>6 DEF DeliverControl, Message
    <2> QED BY <1>6, <2>1 DEF DeliverControl, NextMessage, HandleControl, SetToken
  <1>7. CASE DeliverUnknown \/ DeliverMalformed \/ DeliverReply \/ Drop
    BY <1>7 DEF DeliverUnknown, DeliverMalformed, DeliverReply, Drop, NextMessage
  <1>8. CASE DeliverStatusWithControl
    <2>1. /\ msg \in Message /\ msg.method = "GET" /\ Start("CLEAR", msg.token)
          /\ UNCHANGED <<pMsgList, msg, newest>> /\ pc = "deliver"
      BY <1>8, StatusStarts
    <2>2. msg.token \in Token
      BY <2>1 DEF Message
    <2>3. control_token' \in Token
      BY <1>8, <2>2 DEF DeliverStatusWithControl, HandleControl, SetToken
    <2> QED BY <2>1, <2>3 DEF Start
  <1>9. CASE Opens
    <2>1. UNCHANGED <<pMsgList, msg, newest, control_token, arrived>>
      BY <1>9 DEF Opens, SysInfo, GetStatus, StartSync, DealDownStream, DealUpStream
    <2>2. pc' = "publish" /\ req'.method # "CLEAR"
      BY <1>9 DEF Opens, SysInfo, GetStatus, StartSync, DealDownStream, DealUpStream, Start
    <2> QED BY <2>1, <2>2
  <1>10. CASE Answer \/ SendControl
    <2>1. UNCHANGED <<pc, req, msg, newest, control_token, arrived>>
      BY <1>10 DEF Answer, SendControl, Arrive
    <2>2. pMsgList' # <<>>
      <3>1. PICK m : pMsgList' = Append(pMsgList, m)
        BY <1>10 DEF Answer, SendControl, Arrive
      <3>2. Len(pMsgList') = Len(pMsgList) + 1 /\ Len(pMsgList) \in Nat
        BY <3>1 DEF TypeOK
      <3> QED BY <3>2
    <2> QED BY <2>1, <2>2
  <1>11. CASE UNCHANGED vars
    BY <1>11 DEF vars
  <1> QED BY <1>1, <1>2, <1>3, <1>4, <1>5, <1>6, <1>7, <1>8, <1>9, <1>10, <1>11 DEF Next, App, Opens

-----------------------------------------------------------------------------
(***************************************************************************)
(* The synchronous call and its request.                                   *)
(***************************************************************************)
LEMMA SyncKept ==
  ASSUME TypeOK, IdInv, MsgInv, FlowInv, SyncInv, [Next]_vars
  PROVE  SyncInv'
  <1> USE DEF SyncInv, Sending, Clearing, Cleared, sending, handling, user, history
  <1>1. CASE Construct \/ Register
    BY <1>1 DEF Construct, Register
  <1>2. CASE Tick
    BY <1>2 DEF Tick
  <1>3. CASE Return
    BY <1>3 DEF Return, Sync, TypeOK, Ack
  <1>4. CASE Loop \/ NoControl \/ NoChange
    BY <1>4 DEF Loop, NoControl, NoChange, Sync
  <1>5. CASE Publish \/ AddFails
    <2>1. UNCHANGED <<ret, ack, req, reply_list, msg>> /\ Sending
      BY <1>5 DEF Publish, AddFails
    <2>2. pc' = "add" \/ (pc' = IF req.method = "CLEAR" THEN "drop" ELSE "dead")
      BY <1>5 DEF Publish, AddFails, Failed
    <2> QED BY <2>1, <2>2
  <1>6. CASE Add
    <2>1. UNCHANGED <<ret, ack, req, msg>> /\ reply_list' = reply_list \cup {req} /\ pc = "add"
      BY <1>6 DEF Add
    <2>2. req.method \in Method
      BY <2>1 DEF IdInv, Request
    <2>3. CASE req.method \in Sync
      <3>1. pc' = "yield"
        BY <1>6, <2>3 DEF Add, Sync
      <3> QED BY <2>1, <2>3, <3>1 DEF Sync
    <2>4. CASE req.method = "CLEAR"
      <3>1. pc' = "drop"
        BY <1>6, <2>4 DEF Add, Sync
      <3> QED BY <2>1, <2>4, <3>1 DEF Sync
    <2>5. CASE req.method \in {"REPLY", "REPORT"}
      <3>1. pc' \in {"report", "loop"}
        BY <1>6, <2>5 DEF Add, Sync
      <3> QED BY <2>1, <2>5, <3>1 DEF Sync
    <2> QED BY <2>2, <2>3, <2>4, <2>5 DEF Method, Sync
  <1>7. CASE Yield \/ Fetch
    BY <1>7 DEF Yield, Fetch
  <1>8. CASE DeliverControl \/ DeliverUnknown
    BY <1>8 DEF DeliverControl, DeliverUnknown, NextMessage
  <1>9. CASE DeliverMalformed
    BY <1>9 DEF DeliverMalformed, NextMessage, Without
  <1>10. CASE DeliverReply
    <2>1. /\ pc = "deliver" /\ reply_list' = reply_list \ Matching /\ ret' = ret
          /\ pc' \in {"expire", "fetch"} /\ Acknowledge
      BY <1>10 DEF DeliverReply, NextMessage, Without
    <2>2. CASE \E r \in Matching : r.method \in Sync
      <3>1. \A r \in reply_list' : r.method \notin Sync
        BY <2>1, <2>2 DEF Matching
      <3> QED BY <2>1, <3>1
    <2>3. CASE ~\E r \in Matching : r.method \in Sync
      BY <2>1, <2>3 DEF Acknowledge
    <2> QED BY <2>2, <2>3
  <1>11. CASE DeliverStatusWithControl
    <2>1. /\ Start("CLEAR", msg.token) /\ pc = "deliver" /\ msg.method = "GET" /\ msg' = msg
      BY <1>11, StatusStarts
    <2>2. /\ Acknowledge /\ msg.code = "ok" /\ ret' = ret
      BY <1>11 DEF DeliverStatusWithControl, HasControlData
    <2>3. /\ pc' = "publish" /\ req'.method = "CLEAR" /\ reply_list' = reply_list
      BY <2>1 DEF Start
    <2>4. ASSUME NEW r \in reply_list, r.method \in Sync PROVE ack' = "NONE" <=> ~Cleared(r)'
      <3>1. ack = "NONE"
        BY <2>1, <2>4
      <3>2. CASE r \in Matching
        <4>1. r.method = "GET" /\ r.token = msg.token
          BY <2>1, <2>4, <3>2, RepliesMatch DEF RepliesMatchRequests, HasCallback, Matching, Match
        <4>2. ack' = "ACCEPTED"
          BY <2>2, <2>4, <3>2 DEF Acknowledge
        <4> QED BY <2>1, <2>3, <4>1, <4>2
      <3>3. CASE r \notin Matching
        <4>1. r.token # msg.token
          BY <3>3 DEF Matching, Match
        <4>2. ~\E q \in Matching : q.method \in Sync
          BY <2>4, <3>3 DEF Matching
        <4> QED BY <2>1, <2>2, <3>1, <4>1, <4>2 DEF Acknowledge
      <3> QED BY <3>2, <3>3
    <2> QED BY <2>1, <2>2, <2>3, <2>4 DEF Sync
  <1>12. CASE Drop
    <2>1. /\ pc = "drop" /\ UNCHANGED <<ret, ack>> /\ pc' \in {"expire", "fetch"}
          /\ reply_list' = reply_list \ {r \in Matching : r.method = "GET"}
      BY <1>12 DEF Drop, NextMessage, Without
    <2>2. \A r \in reply_list' : ~Cleared(r)
      BY <2>1 DEF Matching, Match
    <2> QED BY <2>1, <2>2
  <1>13. CASE Expire
    <2>1. /\ pc = "expire" /\ pc' \in {"return", "dead"} /\ UNCHANGED <<ret, ack>>
      BY <1>13 DEF Expire
    <2>2. reply_list' \subseteq reply_list
      BY <1>13 DEF Expire, Without
    <2> QED BY <2>1, <2>2
  <1>14. CASE SysInfo \/ GetStatus
    <2>1. PICK method \in Sync : StartSync(method) /\ pc \in {"info", "get"}
      BY <1>14 DEF SysInfo, GetStatus, Sync
    <2>2. /\ ack' = "NONE" /\ ret' = method /\ pc' = "publish" /\ req'.method = method
          /\ reply_list' = reply_list
      BY <2>1 DEF StartSync, Start
    <2>3. \A r \in reply_list : r.method \notin Sync
      BY <2>1
    <2> QED BY <2>2, <2>3 DEF Sync
  <1>15. CASE DealDownStream \/ DealUpStream
    <2>1. /\ ret = "loop" /\ UNCHANGED <<ret, ack, reply_list>> /\ pc' = "publish"
          /\ req'.method \in {"REPLY", "REPORT"}
      BY <1>15 DEF DealDownStream, DealUpStream, Start
    <2>2. \A r \in reply_list : r.method \notin Sync
      BY <2>1 DEF Sync
    <2> QED BY <2>1, <2>2 DEF Sync
  <1>16. CASE Answer \/ SendControl
    <2>1. UNCHANGED <<pc, ret, ack, req, reply_list, msg>>
      BY <1>16 DEF Answer, SendControl, Arrive
    <2> QED BY <2>1
  <1>17. CASE UNCHANGED vars
    BY <1>17 DEF vars
  <1> QED BY <1>1, <1>2, <1>3, <1>4, <1>5, <1>6, <1>7, <1>8, <1>9, <1>10, <1>11, <1>12, <1>13, <1>14,
             <1>15, <1>16, <1>17 DEF Next, App

-----------------------------------------------------------------------------
LEMMA PendingKept ==
  ASSUME TypeOK, IdInv, MsgInv, FlowInv, SyncInv, PendingInv, [Next]_vars
  PROVE  PendingInv'
  <1> DEFINE Waits == pc \in {"yield", "fetch", "deliver", "expire", "return"} \/ Clearing
  <1> SUFFICES ASSUME ret' \in Sync, ack' = "NONE", upset' = {}, Waits'
               PROVE  \E r \in reply_list' : r.method = ret'
    BY DEF PendingInv
  <1> USE DEF PendingInv, Clearing, Sending, sending, handling, user, history
  \* Most steps of a waiting call leave its request where it is.
  <1>1. ASSUME ret' = ret, ack' = ack, upset' = upset, Waits, reply_list \subseteq reply_list'
        PROVE  \E r \in reply_list' : r.method = ret'
    BY <1>1
  <1>2. CASE Construct \/ Register \/ Loop \/ NoControl \/ NoChange
    BY <1>2 DEF Construct, Register, Loop, NoControl, NoChange, Sync
  <1>3. CASE Tick \/ Answer \/ SendControl \/ UNCHANGED vars
    <2>1. UNCHANGED <<pc, ret, ack, upset, req, reply_list>>
      BY <1>3 DEF Tick, Answer, SendControl, vars
    <2> QED BY <1>1, <2>1
  <1>4. CASE Yield \/ Fetch
    BY <1>1, <1>4 DEF Yield, Fetch
  <1>5. CASE Return
    BY <1>1, <1>5 DEF Return, Ack, TypeOK, Sync
  <1>6. CASE Publish \/ AddFails
    <2>1. UNCHANGED <<ret, ack, upset, req, reply_list>> /\ Sending
      BY <1>6 DEF Publish, AddFails
    <2>2. pc' = "add" \/ (pc' = IF req.method = "CLEAR" THEN "drop" ELSE "dead")
      BY <1>6 DEF Publish, AddFails, Failed
    <2>3. req.method = "CLEAR"
      BY <2>1, <2>2
    <2> QED BY <1>1, <2>1, <2>3
  <1>7. CASE Add
    <2>1. UNCHANGED <<ret, ack, upset, req>> /\ reply_list' = reply_list \cup {req} /\ pc = "add"
      BY <1>7 DEF Add
    <2>2. req.method \in Method
      BY <2>1 DEF IdInv, Request
    <2>3. CASE req.method = "CLEAR"
      BY <1>1, <2>1, <2>3
    <2>4. CASE req.method \in Sync
      BY <2>1, <2>4 DEF SyncInv
    <2>5. CASE req.method \in {"REPLY", "REPORT"}
      BY <2>1, <2>5 DEF SyncInv, Sync
    <2> QED BY <2>2, <2>3, <2>4, <2>5 DEF Method, Sync
  <1>8. CASE DeliverControl \/ DeliverUnknown
    BY <1>1, <1>8 DEF DeliverControl, DeliverUnknown, NextMessage
  <1>9. CASE DeliverMalformed
    <2>1. /\ pc = "deliver" /\ UNCHANGED <<ret, ack>> /\ reply_list' = reply_list \ Matching
          /\ upset' = IF \E r \in Matching : r.method \in Sync THEN upset \cup {"malformed"} ELSE upset
      BY <1>9 DEF DeliverMalformed, Without
    <2>2. upset = {} /\ ~\E r \in Matching : r.method \in Sync
      BY <2>1
    <2>3. PICK r \in reply_list : r.method = ret
      BY <2>1, <2>2
    <2> QED BY <2>1, <2>2, <2>3
  <1>10. CASE DeliverReply
    <2>1. /\ pc = "deliver" /\ UNCHANGED <<ret, upset>> /\ reply_list' = reply_list \ Matching
          /\ Acknowledge
      BY <1>10 DEF DeliverReply, Without
    <2>2. ack = "NONE" /\ ~\E r \in Matching : r.method \in Sync
      BY <2>1 DEF Acknowledge
    <2>3. PICK r \in reply_list : r.method = ret
      BY <2>1, <2>2
    <2> QED BY <2>1, <2>2, <2>3
  <1>11. CASE DeliverStatusWithControl
    <2>1. /\ pc = "deliver" /\ UNCHANGED <<ret, upset>> /\ Acknowledge /\ reply_list' = reply_list
      BY <1>11 DEF DeliverStatusWithControl, Start
    <2>2. ack = "NONE"
      BY <2>1 DEF Acknowledge
    <2> QED BY <1>1, <2>1, <2>2
  <1>12. CASE Drop
    <2>1. /\ pc = "drop" /\ UNCHANGED <<ret, ack, upset>>
          /\ reply_list' = reply_list \ {r \in Matching : r.method = "GET"}
      BY <1>12 DEF Drop, Without
    <2>2. PICK r \in reply_list : r.method = ret
      BY <2>1
    <2>3. ~Cleared(r)
      BY <2>1, <2>2 DEF SyncInv
    <2>4. r \in reply_list'
      BY <2>1, <2>2, <2>3 DEF Cleared, Matching, Match
    <2> QED BY <2>1, <2>2, <2>4
  <1>13. CASE Expire
    <2> DEFINE gone == {r \in reply_list : r.id \in expired}
    <2>1. /\ pc = "expire" /\ UNCHANGED <<ret, ack>> /\ reply_list' = reply_list \ gone
          /\ IF \E r \in gone : r.method \in Sync
             THEN upset' = upset \cup {"expired"} ELSE UNCHANGED upset
      BY <1>13 DEF Expire, Without
    <2>2. upset = {} /\ ~\E r \in gone : r.method \in Sync
      BY <2>1
    <2>3. PICK r \in reply_list : r.method = ret
      BY <2>1, <2>2
    <2> QED BY <2>1, <2>2, <2>3
  <1>14. CASE Opens
    <2>1. pc' = "publish" /\ req'.method # "CLEAR"
      BY <1>14 DEF Opens, SysInfo, GetStatus, StartSync, DealDownStream, DealUpStream, Start
    <2> QED BY <2>1
  <1> QED BY <1>2, <1>3, <1>4, <1>5, <1>6, <1>7, <1>8, <1>9, <1>10, <1>11, <1>12, <1>13, <1>14
          DEF Next, App, Opens

-----------------------------------------------------------------------------
LEMMA InitIInv == Init => IInv
  <1> SUFFICES ASSUME Init PROVE IInv
    OBVIOUS
  <1>1. TypeOK
    <2>1. /\ subscribed \in BOOLEAN /\ destroyed \in BOOLEAN /\ newest \in BOOLEAN
          /\ arrived \in BOOLEAN /\ changed \in BOOLEAN
      BY Zenon DEF Init
    <2>2. IsFiniteSet(reply_list) /\ Cardinality(reply_list) <= MaxPending
      BY FS_EmptySet, BoundAssumption DEF Init
    <2> QED BY <2>1, <2>2, MaxRequestsNat, BoundAssumption DEF Init, TypeOK, PC, Ack
  <1>2. IdInv /\ CallInv
    BY DEF Init, IdInv, CallInv, Active, Sending
  <1>3. MsgInv /\ FlowInv
    BY DEF Init, MsgInv, FlowInv, NoMessage, Sending, Clearing
  <1>4. SyncInv /\ PendingInv
    BY DEF Init, SyncInv, PendingInv, Sending, Clearing, Sync
  <1> QED BY <1>1, <1>2, <1>3, <1>4 DEF IInv

LEMMA TypeKept ==
  ASSUME TypeOK, IdInv, FlowInv, [Next]_vars
  PROVE  TypeOK'
  <1>1. /\ Sending => req \in Request
        /\ pc = "fetch" => pMsgList # <<>>
        /\ pc = "deliver" => msg \in Message
        /\ arrived => control_token \in Token
    BY DEF IdInv, FlowInv
  <1> QED BY <1>1, BootTyped, SendTyped, YieldTyped, DeliverTyped, LoopTyped, CloudTyped
          DEF Next, App

LEMMA IdAlwaysKept ==
  ASSUME TypeOK, IdInv, FlowInv, [Next]_vars
  PROVE  IdInv'
  BY StepSplit, QuietStartsNone, AnswersStartNone, OpensStarts, StatusStarts, IdKept, IdStarted

LEMMA NextIInv == IInv /\ [Next]_vars => IInv'
  <1> SUFFICES ASSUME IInv, [Next]_vars PROVE IInv'
    OBVIOUS
  <1>1. TypeOK' /\ IdInv' /\ FlowInv'
    BY TypeKept, IdAlwaysKept, FlowKept DEF IInv
  <1>2. CallInv' /\ MsgInv'
    BY CallKept, MsgKept DEF IInv
  <1>3. SyncInv' /\ PendingInv'
    BY SyncKept, PendingKept DEF IInv
  <1> QED BY <1>1, <1>2, <1>3 DEF IInv

LEMMA Invariance == Spec => []IInv
  BY InitIInv, NextIInv, PTL DEF Spec

\* The limits of the lists are kept, and every token and message is one that
\* the device or the cloud has made.
THEOREM TypeCorrect == Spec => []TypeOK
  <1>1. IInv => TypeOK
    BY DEF IInv
  <1> QED BY <1>1, Invariance, PTL

\* A reply reaches the callback of its request and of no other.
THEOREM RepliesMatched == Spec => []RepliesMatchRequests
  <1>1. IInv => RepliesMatchRequests
    BY RepliesMatch DEF IInv
  <1> QED BY <1>1, Invariance, PTL

\* No callback is made twice, by whatever replies, expiries and nested calls.
THEOREM CalledBackOnce == Spec => []CallbackOnce
  <1>1. IInv => CallbackOnce
    <2> SUFFICES ASSUME IInv PROVE CallbackOnce
      OBVIOUS
    <2>1. pc \in {"yield", "loop", "expire", "fetch"} => ~Clearing
      BY DEF Clearing
    <2> QED BY <2>1 DEF IInv, CallInv, CallbackOnce, Cleared, Active
  <1> QED BY <1>1, Invariance, PTL

\* The pointer to the stack of a synchronous call never outlives the call.
THEOREM ContextsValid == Spec => []NoDanglingContext
  <1>1. IInv => NoDanglingContext
    BY DEF IInv, SyncInv, NoDanglingContext
  <1> QED BY <1>1, Invariance, PTL

\* A call that waits has a request that can still be answered or expire,
\* unless its request has expired or was answered without a code.
THEOREM WaitingPending == Spec => []WaitsForPending
  <1>1. IInv => WaitsForPending
    BY DEF IInv, PendingInv, WaitsForPending, Waiting
  <1> QED BY <1>1, Invariance, PTL

-----------------------------------------------------------------------------
(***************************************************************************)
(* Events.  A token that was not given out yet is nowhere, and what is     *)
(* published was built with the last one that was.                         *)
(***************************************************************************)
EventTypeInv ==
  /\ token_num \in Nat
  /\ event_list \subseteq [token : EventToken, callback : BOOLEAN, expired : BOOLEAN]
  /\ IsFiniteSet(event_list)
  /\ posted \subseteq EventToken
  /\ called \in [EventToken -> Nat]

FreshInv ==
  \A n \in 0 .. MaxToken - 1 : n >= token_num =>
    /\ TokenName(n) \notin posted
    /\ called[TokenName(n)] = 0
    /\ \A r \in event_list : r.token # TokenName(n)

EventInv == EventTypeInv /\ FreshInv /\ EventAnsweredOnce

PublishableInv == built.doc.kind \in {"event", "events", "raw"} => token_num \in 1 .. MaxToken

(* No two tokens have the same name.                                       *)
LEMMA TokenNames ==
  /\ \A n \in 0 .. MaxToken - 1 : TokenName(n) \in EventToken
  /\ \A t \in EventToken : \E n \in 0 .. MaxToken - 1 : t = TokenName(n)
  /\ \A m, n \in 0 .. 3 : TokenName(m) = TokenName(n) => m = n
<1>1. /\ \A n \in 0 .. MaxToken - 1 : TokenName(n) \in EventToken
      /\ \A t \in EventToken : \E n \in 0 .. MaxToken - 1 : t = TokenName(n)
  BY DEF EventToken
<1>2. \A m, n \in 0 .. 3 : TokenName(m) = TokenName(n) => m = n
  BY DEF TokenName
<1> QED
  BY <1>1, <1>2

(* Records taken off the list leave the rest as it was.                    *)
LEMMA EventsLeft ==
  ASSUME EventInv, event_list' \subseteq event_list,
         UNCHANGED <<token_num, posted, called>>
  PROVE  EventInv'
<1>1. IsFiniteSet(event_list')
  BY FS_Subset DEF EventInv, EventTypeInv
<1>2. Cardinality(event_list') <= Cardinality(event_list)
  BY FS_Subset DEF EventInv, EventTypeInv
<1>3. /\ Cardinality(event_list) \in Nat /\ Cardinality(event_list') \in Nat
      /\ MAX_EVENT_WAIT_REPLY \in Nat
  BY <1>1, FS_CardinalityType, TemplateAssumption DEF EventInv, EventTypeInv
<1>4. EventTypeInv'
  BY <1>1 DEF EventInv, EventTypeInv
<1>5. FreshInv'
  BY DEF EventInv, FreshInv
<1>6. \A t \in EventToken : Awaiting(t)' \subseteq Awaiting(t)
  BY DEF Awaiting
<1>7. EventAnsweredOnce'
  BY <1>2, <1>3, <1>6 DEF EventInv, EventAnsweredOnce
<1> QED
  BY <1>4, <1>5, <1>7 DEF EventInv

(* A record is listed with a token of its own.                             *)
LEMMA PostEventInv == EventInv /\ PostEvent => EventInv'
<1> SUFFICES ASSUME EventInv, PostEvent PROVE EventInv'
  OBVIOUS
<1>1. PICK reply \in [token : EventToken, callback : BOOLEAN, expired : {FALSE}] :
        Create(reply)
  BY DEF PostEvent
<1> DEFINE t0 == TokenName(token_num)
<1>2. /\ token_num < MaxToken /\ token_num' = token_num + 1
      /\ reply.token = t0
      /\ Cardinality(event_list) < MAX_EVENT_WAIT_REPLY
      /\ event_list' = event_list \cup {reply}
  BY <1>1 DEF Create, NewToken, Listed
<1>3. posted' = posted
  BY DEF PostEvent
<1>4. called' = called
  BY DEF PostEvent
<1>5. /\ token_num \in 0 .. MaxToken - 1 /\ t0 \in EventToken
      /\ MaxToken \in 0 .. 4 /\ MAX_EVENT_WAIT_REPLY \in Nat
  BY <1>2, TokenNames, TemplateAssumption DEF EventInv, EventTypeInv
<1>6. t0 \notin posted /\ called[t0] = 0 /\ \A r \in event_list : r.token # t0
  BY <1>5 DEF EventInv, FreshInv, EventTypeInv
<1>7. IsFiniteSet(event_list') /\ Cardinality(event_list') <= Cardinality(event_list) + 1
  <2>1. Cardinality(event_list) \in Nat
    BY FS_CardinalityType DEF EventInv, EventTypeInv
  <2>2. /\ IsFiniteSet(event_list \cup {reply})
        /\ \/ Cardinality(event_list \cup {reply}) = Cardinality(event_list)
           \/ Cardinality(event_list \cup {reply}) = Cardinality(event_list) + 1
    BY FS_AddElement DEF EventInv, EventTypeInv
  <2> QED
    BY <1>2, <2>1, <2>2
<1>8. EventTypeInv'
  <2>1. reply \in [token : EventToken, callback : BOOLEAN, expired : BOOLEAN]
    OBVIOUS
  <2> QED
    BY <1>2, <1>3, <1>4, <1>5, <1>7, <2>1 DEF EventInv, EventTypeInv
<1>9. FreshInv'
  <2> SUFFICES ASSUME NEW n \in 0 .. MaxToken - 1, n >= token_num + 1
               PROVE  /\ TokenName(n) \notin posted'
                      /\ called'[TokenName(n)] = 0
                      /\ \A r \in event_list' : r.token # TokenName(n)
    BY <1>2 DEF FreshInv
  <2>1. /\ TokenName(n) \notin posted
        /\ called[TokenName(n)] = 0
        /\ \A r \in event_list : r.token # TokenName(n)
    BY <1>5 DEF EventInv, FreshInv
  <2>2. TokenName(n) # t0
    <3>1. n \in 0 .. 3 /\ token_num \in 0 .. 3 /\ n # token_num
      BY <1>5
    <3> QED
      BY <3>1, TokenNames
  <2> QED
    BY <1>2, <1>3, <1>4, <2>1, <2>2
<1>10. EventAnsweredOnce'
  <2>1. \A t \in EventToken : called'[t] <= 1
    BY <1>4 DEF EventInv, EventAnsweredOnce
  <2>2. ASSUME NEW t \in EventToken, called'[t] = 1
        PROVE  t \in posted' /\ Awaiting(t)' = {}
    <3>1. called[t] = 1 /\ t # t0
      BY <1>4, <1>6, <2>2
    <3>2. t \in posted' /\ Awaiting(t) = {}
      BY <1>3, <3>1 DEF EventInv, EventAnsweredOnce
    <3> QED
      BY <1>2, <3>1, <3>2 DEF Awaiting
  <2>3. Cardinality(event_list') <= MAX_EVENT_WAIT_REPLY
    <3>1. Cardinality(event_list) \in Nat /\ Cardinality(event_list') \in Nat
      BY <1>7, FS_CardinalityType DEF EventInv, EventTypeInv
    <3> QED
      BY <1>2, <1>5, <1>7, <3>1
  <2>4. \A r, q \in event_list' : r.token = q.token => r = q
    BY <1>2, <1>6 DEF EventInv, EventAnsweredOnce
  <2> QED
    BY <2>1, <2>2, <2>3, <2>4 DEF EventAnsweredOnce
<1> QED
  BY <1>8, <1>9, <1>10 DEF EventInv

LEMMA CreateFailsInv == EventInv /\ CreateFails => EventInv'
<1> SUFFICES ASSUME EventInv, CreateFails PROVE EventInv'
  OBVIOUS
<1>1. token_num' = token_num + 1 /\ UNCHANGED <<event_list, posted, called>>
  BY DEF CreateFails, NewToken, eventVars
<1>2. EventTypeInv'
  BY <1>1 DEF EventInv, EventTypeInv
<1>3. FreshInv'
  <2>1. \A n \in 0 .. MaxToken - 1 : n >= token_num' => n >= token_num
    BY <1>1, TemplateAssumption DEF EventInv, EventTypeInv
  <2> QED
    BY <1>1, <2>1 DEF EventInv, FreshInv
<1>4. EventAnsweredOnce'
  BY <1>1 DEF EventInv, EventAnsweredOnce, Awaiting
<1> QED
  BY <1>2, <1>3, <1>4 DEF EventInv

(* What is published has a token that was given out.                       *)
LEMMA PublishEventInv == EventInv /\ PublishableInv /\ PublishEvent => EventInv'
<1> SUFFICES ASSUME EventInv, PublishableInv, PublishEvent PROVE EventInv'
  OBVIOUS
<1> DEFINE t0 == TokenName(token_num - 1)
<1>1. /\ posted' = posted \cup {t0}
      /\ UNCHANGED <<token_num, event_list, called>>
  BY DEF PublishEvent
<1>2. token_num \in 1 .. MaxToken /\ MaxToken \in 0 .. 4
  BY TemplateAssumption DEF PublishEvent, PublishableInv
<1>3. token_num - 1 \in 0 .. MaxToken - 1 /\ token_num - 1 \in 0 .. 3
  BY <1>2
<1>4. t0 \in EventToken
  BY <1>3, TokenNames
<1>5. EventTypeInv'
  BY <1>1, <1>4 DEF EventInv, EventTypeInv
<1>6. FreshInv'
  <2> SUFFICES ASSUME NEW n \in 0 .. MaxToken - 1, n >= token_num
               PROVE  /\ TokenName(n) \notin posted'
                      /\ called[TokenName(n)] = 0
                      /\ \A r \in event_list : r.token # TokenName(n)
    BY <1>1 DEF FreshInv
  <2>1. /\ TokenName(n) \notin posted
        /\ called[TokenName(n)] = 0
        /\ \A r \in event_list : r.token # TokenName(n)
    BY DEF EventInv, FreshInv
  <2>2. TokenName(n) # t0
    <3>1. n \in 0 .. 3 /\ n # token_num - 1
      BY <1>2
    <3> QED
      BY <1>3, <3>1, TokenNames
  <2> QED
    BY <1>1, <2>1, <2>2
<1>7. EventAnsweredOnce'
  BY <1>1 DEF EventInv, EventAnsweredOnce, Awaiting
<1> QED
  BY <1>5, <1>6, <1>7 DEF EventInv

(* A reply calls back for at most one record, and takes it off the list.   *)
LEMMA OnEventReplyInv == EventInv /\ OnEventReply => EventInv'
<1> SUFFICES ASSUME EventInv, OnEventReply PROVE EventInv'
  OBVIOUS
<1>1. UNCHANGED <<token_num, posted>>
  BY DEF OnEventReply
<1>2. PICK t \in posted, code \in ReplyCode, status \in Status :
        \/ UNCHANGED <<called, event_list>>
        \/ LET client_token == parse_client_token(Received("event", Reply(t, code, status)))
           IN  /\ called' = [called EXCEPT ![client_token[1]] =
                                @ + Cardinality(Awaiting(client_token[1]))]
               /\ Answered(client_token[1])
  BY DEF OnEventReply
<1>3. t \in EventToken
  BY DEF EventInv, EventTypeInv
<1>4. parse_client_token(Received("event", Reply(t, code, status))) = <<t>>
  <2>1. PICK n \in 0 .. MaxToken - 1 : t = TokenName(n)
    BY <1>3, TokenNames
  <2>2. n \in 0 .. 3
    BY TemplateAssumption
  <2> QED
    BY <2>1, <2>2, ReplyAssumption
<1>5. CASE UNCHANGED <<called, event_list>>
  BY <1>1, <1>5, EventsLeft
<1>6. CASE /\ called' = [called EXCEPT ![t] = @ + Cardinality(Awaiting(t))]
           /\ Answered(t)
  <2>1. event_list' = event_list \ Awaiting(t)
    BY <1>6 DEF Answered
  <2>2. Awaiting(t) \subseteq event_list /\ IsFiniteSet(Awaiting(t))
    BY FS_Subset DEF Awaiting, EventInv, EventTypeInv
  <2>3. Cardinality(Awaiting(t)) \in 0 .. 1
    <3>1. CASE Awaiting(t) = {}
      BY <3>1, FS_EmptySet
    <3>2. CASE Awaiting(t) # {}
      <4>1. PICK r \in Awaiting(t) : TRUE
        BY <3>2
      <4>2. Awaiting(t) = {r}
        BY <4>1 DEF Awaiting, EventInv, EventAnsweredOnce
      <4>3. Cardinality({r}) = 1
        BY FS_Singleton
      <4> QED
        BY <4>2, <4>3
    <3> QED
      BY <3>1, <3>2
  <2>4. called[t] = 1 => Cardinality(Awaiting(t)) = 0
    BY <1>3, FS_EmptySet DEF EventInv, EventAnsweredOnce
  <2>5. called[t] \in {0, 1}
    BY <1>3 DEF EventInv, EventTypeInv, EventAnsweredOnce
  <2>6. /\ called' \in [EventToken -> Nat] /\ called'[t] <= 1
        /\ \A u \in EventToken : u # t => called'[u] = called[u]
    BY <1>3, <1>6, <2>3, <2>4, <2>5 DEF EventInv, EventTypeInv
  <2>7. \A u \in EventToken : Awaiting(u)' \subseteq Awaiting(u)
    BY <2>1 DEF Awaiting
  <2>8. Awaiting(t)' = {}
    BY <2>1 DEF Awaiting
  <2>9. IsFiniteSet(event_list') /\ Cardinality(event_list') <= Cardinality(event_list)
    BY <2>1, FS_Subset DEF EventInv, EventTypeInv
  <2>10. EventTypeInv'
    BY <1>1, <2>1, <2>6, <2>9 DEF EventInv, EventTypeInv
  <2>11. FreshInv'
    <3> SUFFICES ASSUME NEW n \in 0 .. MaxToken - 1, n >= token_num
                 PROVE  /\ TokenName(n) \notin posted
                        /\ called'[TokenName(n)] = 0
                        /\ \A r \in event_list' : r.token # TokenName(n)
      BY <1>1 DEF FreshInv
    <3>1. /\ TokenName(n) \notin posted
          /\ called[TokenName(n)] = 0
          /\ \A r \in event_list : r.token # TokenName(n)
      BY DEF EventInv, FreshInv
    <3>2. TokenName(n) # t /\ TokenName(n) \in EventToken
      BY <3>1, TokenNames
    <3> QED
      BY <2>1, <2>6, <3>1, <3>2
  <2>12. EventAnsweredOnce'
    <3>1. \A u \in EventToken : called'[u] <= 1
      BY <2>6 DEF EventInv, EventAnsweredOnce
    <3>2. ASSUME NEW u \in EventToken, called'[u] = 1
          PROVE  u \in posted' /\ Awaiting(u)' = {}
      <4>1. CASE u = t
        BY <1>1, <2>8, <4>1
      <4>2. CASE u # t
        BY <1>1, <2>6, <2>7, <3>2, <4>2 DEF EventInv, EventAnsweredOnce
      <4> QED
        BY <4>1, <4>2
    <3>3. Cardinality(event_list') <= MAX_EVENT_WAIT_REPLY
      <4>1. /\ Cardinality(event_list) \in Nat /\ Cardinality(event_list') \in Nat
            /\ MAX_EVENT_WAIT_REPLY \in Nat
        BY <2>9, FS_CardinalityType, TemplateAssumption DEF EventInv, EventTypeInv
      <4> QED
        BY <2>9, <4>1 DEF EventInv, EventAnsweredOnce
    <3>4. \A r, q \in event_list' : r.token = q.token => r = q
      BY <2>1 DEF EventInv, EventAnsweredOnce
    <3> QED
      BY <3>1, <3>2, <3>3, <3>4 DEF EventAnsweredOnce
  <2> QED
    BY <2>10, <2>11, <2>12 DEF EventInv
<1>7. <<t>>[1] = t
  OBVIOUS
<1> QED
  BY <1>2, <1>4, <1>5, <1>6, <1>7

(* A record whose time has passed is the same record otherwise.            *)
LEMMA ExpireEventInv == EventInv /\ ExpireEvent => EventInv'
<1> SUFFICES ASSUME EventInv, ExpireEvent PROVE EventInv'
  OBVIOUS
<1>1. UNCHANGED <<token_num, posted, called>>
  BY DEF ExpireEvent
<1>2. PICK e \in event_list :
        event_list' = (event_list \ {e}) \cup {[e EXCEPT !.expired = TRUE]}
  BY DEF ExpireEvent
<1> DEFINE f == [e EXCEPT !.expired = TRUE]
<1>3. /\ f \in [token : EventToken, callback : BOOLEAN, expired : BOOLEAN]
      /\ f.token = e.token /\ f.callback = e.callback
  BY DEF EventInv, EventTypeInv
<1>4. event_list' = (event_list \ {e}) \cup {f}
  BY <1>2
<1> HIDE DEF f
<1>5. /\ IsFiniteSet(event_list')
      /\ Cardinality(event_list') <= Cardinality(event_list)
  <2>1. /\ IsFiniteSet(event_list \ {e})
        /\ Cardinality(event_list \ {e}) = Cardinality(event_list) - 1
    BY FS_RemoveElement DEF EventInv, EventTypeInv
  <2>2. Cardinality(event_list) \in Nat /\ Cardinality(event_list \ {e}) \in Nat
    BY <2>1, FS_CardinalityType DEF EventInv, EventTypeInv
  <2>3. /\ IsFiniteSet((event_list \ {e}) \cup {f})
        /\ \/ Cardinality((event_list \ {e}) \cup {f}) = Cardinality(event_list \ {e})
           \/ Cardinality((event_list \ {e}) \cup {f}) = Cardinality(event_list \ {e}) + 1
    BY <2>1, FS_AddElement
  <2> QED
    BY <1>4, <2>1, <2>2, <2>3
<1>6. EventTypeInv'
  BY <1>1, <1>3, <1>4, <1>5 DEF EventInv, EventTypeInv
<1>7. FreshInv'
  BY <1>1, <1>3, <1>4 DEF EventInv, FreshInv
<1>8. EventAnsweredOnce'
  <2>1. \A t \in EventToken : Awaiting(t) = {} => Awaiting(t)' = {}
    BY <1>3, <1>4 DEF Awaiting
  <2>2. \A r, q \in event_list' : r.token = q.token => r = q
    BY <1>3, <1>4 DEF EventInv, EventAnsweredOnce
  <2>3. Cardinality(event_list') <= MAX_EVENT_WAIT_REPLY
    <3>1. /\ Cardinality(event_list) \in Nat /\ Cardinality(event_list') \in Nat
          /\ MAX_EVENT_WAIT_REPLY \in Nat
      BY <1>5, FS_CardinalityType, TemplateAssumption DEF EventInv, EventTypeInv
    <3> QED
      BY <1>5, <3>1 DEF EventInv, EventAnsweredOnce
  <2> QED
    BY <1>1, <2>1, <2>2, <2>3 DEF EventInv, EventAnsweredOnce
<1> QED
  BY <1>6, <1>7, <1>8 DEF EventInv

(* The calls and messages that have nothing to do with events.             *)
LEMMA OtherEventInv ==
  EventInv /\ ( \/ NextRound \/ WriteStep
                \/ Send \/ DropExpired
                \/ RegisterProperty \/ RegisterAction
                \/ UnRegisterProperty \/ UnRegisterAction
                \/ OnControl \/ OnAction \/ OnCutLine \/ OnTopic
                \/ UNCHANGED templateVars )
    => EventInv'
<1> SUFFICES ASSUME EventInv,
                    \/ NextRound \/ WriteStep
                    \/ Send \/ DropExpired
                    \/ RegisterProperty \/ RegisterAction
                    \/ UnRegisterProperty \/ UnRegisterAction
                    \/ OnControl \/ OnAction \/ OnCutLine \/ OnTopic
                    \/ UNCHANGED templateVars
             PROVE  EventInv'
  OBVIOUS
<1>1. CASE Send
  <2>1. /\ UNCHANGED <<event_list, posted, called>>
        /\ token_num' = token_num \/ token_num' = token_num + 1
    BY <1>1 DEF Send, eventVars, EventInv, EventTypeInv
  <2>2. EventTypeInv'
    BY <2>1 DEF EventInv, EventTypeInv
  <2>3. FreshInv'
    <3>1. \A n \in 0 .. MaxToken - 1 : n >= token_num' => n >= token_num
      BY <2>1, TemplateAssumption DEF EventInv, EventTypeInv
    <3> QED
      BY <2>1, <3>1 DEF EventInv, FreshInv
  <2>4. EventAnsweredOnce'
    BY <2>1 DEF EventInv, EventAnsweredOnce, Awaiting
  <2> QED
    BY <2>2, <2>3, <2>4 DEF EventInv
<1>2. CASE DropExpired
  BY <1>2, EventsLeft DEF DropExpired
<1>3. CASE RegisterProperty
  BY <1>3, EventsLeft DEF RegisterProperty, eventVars
<1>4. CASE RegisterAction
  BY <1>4, EventsLeft DEF RegisterAction, eventVars
<1>5. CASE UnRegisterProperty
  BY <1>5, EventsLeft DEF UnRegisterProperty, eventVars
<1>6. CASE UnRegisterAction
  BY <1>6, EventsLeft DEF UnRegisterAction, eventVars
<1>7. CASE OnControl
  BY <1>7, EventsLeft DEF OnControl, eventVars
<1>8. CASE OnAction
  BY <1>8, EventsLeft DEF OnAction, eventVars
<1>9. CASE OnCutLine
  BY <1>9, EventsLeft DEF OnCutLine, eventVars
<1>10. CASE OnTopic
  BY <1>10, EventsLeft DEF OnTopic, eventVars
<1>11. CASE UNCHANGED templateVars
  BY <1>11, EventsLeft DEF templateVars
<1>12. CASE NextRound
  BY <1>12, EventsLeft DEF NextRound, eventVars
<1>13. CASE WriteStep
  BY <1>13, EventsLeft DEF WriteStep, eventVars
<1> QED
  BY <1>1, <1>2, <1>3, <1>4, <1>5, <1>6, <1>7, <1>8, <1>9, <1>10, <1>11, <1>12, <1>13

(* An event that is built has taken a number; any other call or message    *)
(* builds something else.                                                  *)
LEMMA PublishableNext ==
  EventInv /\ PublishableInv /\ [TemplateNext]_templateVars => PublishableInv'
<1> SUFFICES ASSUME EventInv, PublishableInv, [TemplateNext]_templateVars PROVE PublishableInv'
  OBVIOUS
<1>1. CASE NextRound \/ WriteStep \/ PublishEvent
  BY <1>1 DEF NextRound, WriteStep, PublishEvent, PublishableInv
<1>2. CASE Send
  <2>1. PICK b \in Document, size \in Sizes : Build(b, size)
    BY <1>2 DEF Send
  <2>2. built'.doc.kind \in {"report", "info", "reply", "action"}
    BY <2>1 DEF Build, Document
  <2> QED
    BY <2>2 DEF PublishableInv
<1>3. CASE PostEvent
  <2>1. token_num < MaxToken /\ token_num' = token_num + 1
    BY <1>3 DEF PostEvent, Create, NewToken
  <2>2. token_num' \in 1 .. MaxToken
    BY <2>1, TemplateAssumption DEF EventInv, EventTypeInv
  <2> QED
    BY <2>2 DEF PublishableInv
<1>4. ASSUME Silent PROVE PublishableInv'
  BY <1>4 DEF Silent, Nothing, PublishableInv
<1>5. CASE CreateFails \/ OnEventReply \/ ExpireEvent \/ DropExpired
  BY <1>4, <1>5 DEF CreateFails, OnEventReply, ExpireEvent, DropExpired
<1>6. CASE RegisterProperty \/ RegisterAction \/ UnRegisterProperty \/ UnRegisterAction
  BY <1>4, <1>6 DEF RegisterProperty, RegisterAction, UnRegisterProperty, UnRegisterAction
<1>7. CASE OnControl \/ OnAction \/ OnCutLine \/ OnTopic
  <2>1. OnControl => built'.doc.kind = "control"
    BY DEF OnControl
  <2>2. OnAction => built'.doc.kind = "call"
    BY DEF OnAction
  <2>3. OnCutLine => built'.doc.kind = "line"
    <3> SUFFICES ASSUME OnCutLine PROVE built'.doc.kind = "line"
      OBVIOUS
    <3>1. \E fp, g : built' = [doc |-> [kind |-> "line", fp |-> fp], got |-> g]
      BY Zenon DEF OnCutLine
    <3> QED
      BY <3>1
  <2>4. OnTopic => built'.doc.kind = "topic"
    <3> SUFFICES ASSUME OnTopic PROVE built'.doc.kind = "topic"
      OBVIOUS
    <3>1. \E g : built' = [doc |-> [kind |-> "topic"], got |-> g]
      BY Zenon DEF OnTopic
    <3> QED
      BY <3>1
  <2> QED
    BY <1>7, <2>1, <2>2, <2>3, <2>4 DEF PublishableInv
<1>8. CASE UNCHANGED templateVars
  BY <1>8 DEF templateVars, PublishableInv
<1> QED
  BY <1>1, <1>2, <1>3, <1>5, <1>6, <1>7, <1>8 DEF TemplateNext

LEMMA EventInit == TemplateInit => EventInv
<1> SUFFICES ASSUME TemplateInit PROVE EventInv
  OBVIOUS
<1>1. /\ token_num = 0 /\ event_list = {} /\ posted = {}
      /\ called = [t \in EventToken |-> 0]
  BY DEF TemplateInit
<1>2. IsFiniteSet(event_list) /\ Cardinality(event_list) = 0
  BY <1>1, FS_EmptySet
<1>3. EventTypeInv
  BY <1>1, <1>2 DEF EventTypeInv
<1>4. FreshInv
  BY <1>1, TokenNames DEF FreshInv
<1>5. EventAnsweredOnce
  BY <1>1, <1>2, TemplateAssumption DEF EventAnsweredOnce
<1> QED
  BY <1>3, <1>4, <1>5 DEF EventInv

(***************************************************************************)
(* The callback of an event runs at most once and only for an event that   *)
(* reached the cloud, and the list holds no more than it has room for, for *)
(* any room, any number of events, and replies that are late, repeated or  *)
(* refused (_create_event_add_to_list, _traverse_event_list).              *)
(***************************************************************************)
THEOREM EventsCalledOnce == TemplateSpec => []EventAnsweredOnce
<1>1. TemplateInit => EventInv /\ PublishableInv
  BY EventInit DEF TemplateInit, Nothing, PublishableInv
<1>2. EventInv /\ PublishableInv /\ [TemplateNext]_templateVars
        => EventInv' /\ PublishableInv'
  BY PostEventInv, PublishEventInv, CreateFailsInv, OnEventReplyInv, ExpireEventInv,
     OtherEventInv, PublishableNext
     DEF TemplateNext
<1>3. EventInv => EventAnsweredOnce
  BY DEF EventInv
<1> QED
  BY <1>1, <1>2, <1>3, PTL DEF TemplateSpec

-----------------------------------------------------------------------------
(***************************************************************************)
(* The documents.  A statement writes tokens; a put takes at most three    *)
(* bytes off the end and writes no fewer than one less; a document is      *)
(* begun with more than the empty one, and its type is 13 bytes long.      *)
(***************************************************************************)
Literal ==
  {"e", "q", ":", ",", "{", "}", "[", "]", "0", "1", "true", "null", "w", "t", "c", "clientToken",
   "method", "report", "report_info", "control_reply", "event_post", "events_post", "action_reply",
   "params", "device_label", "code", "status", "eventId", "type", "info", "timestamp", "events",
   "response"}
Tok == STRING \cup Literal    \* no prover knows that a literal is in STRING
Toks == Seq(Tok)
Pair == [key : STRING, val : Val]
Row == [id : STRING, nodes : Seq(Pair)]

Written == [op : {"room"}]
           \cup [op : {"closing", "node"}, toks : Toks]
           \cup {s \in [op : {"put"}, back : 0 .. 3, toks : Toks] : Len(s.toks) >= s.back}
           \cup {s \in [op : {"type"}, toks : Toks] : Len(s.toks) = 13}
Looped == [op : {"nodes"}, list : Seq(Pair), true : {"true", "1"}]
          \cup [op : {"events"}, list : Seq(Row)]
Shrinking == {s \in [op : {"put"}, back : 0 .. 3, toks : Toks] : Len(s.toks) = s.back - 1}
Beginning == {s \in [op : {"over"}, toks : Toks] : Len(s.toks) >= 13}

Usual == Written \cup Looped
Statement == Usual \cup Shrinking \cup Beginning

\* A list of statements begins the document first, and shrinks it once.
Shrinks(s) == s.op = "put" /\ Len(s.toks) < s.back
Begins(s) == s.op = "over"

Ordered(q) ==
  /\ q \in Seq(Statement)
  /\ \A i, j \in 1 .. Len(q) : Shrinks(q[i]) /\ Shrinks(q[j]) => i = j
  /\ \A i \in 1 .. Len(q) : Begins(q[i]) => i = 1 \/ (i = 2 /\ q[1].op = "room")

Begun(q) == \A i \in 1 .. Len(q) : ~Begins(q[i])
Slack(q) == IF \E i \in 1 .. Len(q) : Shrinks(q[i]) THEN 0 ELSE 1

(***************************************************************************)
(* A buffer under construction: either the text fits and the last measured *)
(* remain_size is no smaller than what is left, but for the old text and   *)
(* the byte the document shrank by, or the text is as long as the buffer.  *)
(***************************************************************************)
BufferType ==
  [text : Toks, size : 1 .. WORD - 1, remain : Nat,
   rc : {"ok", "too_small", "invalid", "truncated"}, over : BOOLEAN]

Fits(d, n, k) ==
  /\ d.over = FALSE
  /\ Len(d.text) < d.size
  /\ d.remain >= d.size - Len(d.text) - n - k
Full(d, k) == Len(d.text) >= d.size - k

Under(d, n, k) ==
  /\ d.rc = "ok" /\ d.remain \in 1 .. WORD - 1 /\ Len(d.text) >= 13 - k
  /\ Fits(d, n, k) \/ Full(d, k)

\* Before the document is begun, the buffer holds the old text.
Unbegun(d, n) ==
  /\ d.rc = "ok" /\ d.remain \in 1 .. WORD - 1 /\ d.over = FALSE
  /\ Len(d.text) = n /\ n < d.size

\* The buffer d, the statements q that are left, the text old it began with.
Building(d, q, old) ==
  /\ d \in BufferType /\ Ordered(q) /\ old \in Toks
  /\ IF d.rc # "ok" THEN q = <<>> /\ HalfFull(d, old)
     ELSE IF Begun(q) THEN Under(d, Len(old), Slack(q))
     ELSE /\ Unbegun(d, Len(old))
          /\ Begins(q[1]) => d.remain >= d.size - Len(old)

BuildInv ==
  \/ todo = <<>> /\ jsonBuffer = NoBuffer
  \/ Building(jsonBuffer, todo, OldTextOf(built.doc))

-----------------------------------------------------------------------------
(* The smaller of two lengths.                                             *)
LEMMA MinOfTwo ==
  ASSUME NEW a \in Nat, NEW b \in Nat
  PROVE  Min({a, b}) = IF a <= b THEN a ELSE b
<1>1. ASSUME NEW m \in {a, b}, \A x \in {a, b} : m <= x
      PROVE  Min({a, b}) = m
  <2>1. \A y \in {a, b} : (\A x \in {a, b} : y <= x) => y = m
    BY <1>1
  <2> QED
    BY <1>1, <2>1 DEF Min
<1>2. CASE a <= b
  BY <1>1, <1>2
<1>3. CASE ~(a <= b)
  BY <1>1, <1>3
<1> QED
  BY <1>2, <1>3

(* What size_t keeps of a difference.                                      *)
LEMMA Wrap ==
  ASSUME NEW x \in Int
  PROVE  /\ x % WORD \in 0 .. WORD - 1
         /\ x \in 0 .. WORD - 1 => x % WORD = x
  BY WordAssumption

(* HAL_Snprintf writes all of it, or what remains but one byte.            *)
Wrote(d, at, remain, toks) ==
  LET e == Snprintf(d, at, remain, toks)
  IN  /\ e \in BufferType /\ e.size = d.size /\ e.remain = remain
      /\ e.rc = "ok" => Len(e.text) = at + Len(toks)
      /\ e.rc # "ok" => Len(e.text) = at + remain - 1
      /\ d.over = FALSE /\ Len(e.text) < d.size => e.over = FALSE

LEMMA SnprintfLength ==
  ASSUME NEW d \in BufferType, NEW at \in 0 .. Len(d.text), NEW remain \in 1 .. WORD - 1,
         NEW toks \in Toks
  PROVE  Wrote(d, at, remain, toks)
<1> DEFINE n == Min({Len(toks), remain - 1})
           text == SubSeq(d.text, 1, at) \o SubSeq(toks, 1, n)
           e == Snprintf(d, at, remain, toks)
<1>1. /\ d.text \in Seq(Tok) /\ toks \in Seq(Tok) /\ Len(d.text) \in Nat
      /\ Len(toks) \in Nat /\ remain \in Nat \ {0} /\ at \in Nat
  BY WordAssumption DEF BufferType, Toks
<1>2. n = IF Len(toks) <= remain - 1 THEN Len(toks) ELSE remain - 1
  BY <1>1, MinOfTwo
<1>3. n \in 0 .. Len(toks)
  BY <1>1, <1>2
<1> HIDE DEF n
<1>4. SubSeq(d.text, 1, at) \in Seq(Tok) /\ Len(SubSeq(d.text, 1, at)) = at
  BY <1>1, SubSeqProperties
<1>5. SubSeq(toks, 1, n) \in Seq(Tok) /\ Len(SubSeq(toks, 1, n)) = n
  BY <1>1, <1>3, SubSeqProperties
<1>6. text \in Seq(Tok) /\ Len(text) = at + n
  BY <1>4, <1>5, ConcatProperties
<1>7. e = [text |-> text, size |-> d.size, remain |-> remain,
           rc |-> IF Len(toks) >= remain THEN "truncated" ELSE "ok",
           over |-> d.over \/ at + n >= d.size]
  BY DEF Snprintf, BufferType, n
<1> HIDE DEF text, e
<1>8. e \in BufferType
  BY <1>1, <1>6, <1>7 DEF BufferType, Toks
<1>9. d.over = FALSE /\ Len(text) < d.size => e.over = FALSE
  <2>1. at + n >= d.size <=> ~(Len(text) < d.size)
    BY <1>1, <1>3, <1>6 DEF BufferType
  <2> QED
    BY <1>7, <2>1, Zenon
<1>10. /\ e.rc = "ok" => Len(toks) < remain
       /\ e.rc # "ok" => Len(toks) >= remain
  BY <1>1, <1>7
<1> QED
  BY <1>1, <1>2, <1>6, <1>7, <1>8, <1>9, <1>10 DEF e, Wrote

(* What a statement has to leave behind.                                   *)
Sound(e, old, k) ==
  /\ e \in BufferType
  /\ e.rc = "ok" => Under(e, Len(old), k)
  /\ e.rc # "ok" => HalfFull(e, old)

(* What is left of a buffer, in size_t.                                    *)
LEMMA LeftSize ==
  ASSUME NEW size \in 0 .. WORD - 1, NEW text \in Toks
  PROVE  /\ Left(size, text) \in 0 .. WORD - 1
         /\ Len(text) <= size => Left(size, text) = size - Len(text)
<1>1. Len(text) \in Nat /\ size - Len(text) \in Int
  BY WordAssumption DEF Toks
<1>2. /\ (size - Len(text)) % WORD \in 0 .. WORD - 1
      /\ size - Len(text) \in 0 .. WORD - 1 =>
           (size - Len(text)) % WORD = size - Len(text)
  BY <1>1, Wrap
<1>3. Len(text) <= size => size - Len(text) \in 0 .. WORD - 1
  BY <1>1, WordAssumption
<1> QED
  BY <1>2, <1>3 DEF Left

LEMMA FailSound ==
  ASSUME NEW d \in BufferType, NEW rc \in {"too_small", "invalid"}, NEW old, NEW k,
         HalfFull(d, old)
  PROVE  Sound(Fails(d, rc), old, k)
<1> DEFINE e == Fails(d, rc)
<1>1. e \in BufferType /\ e.rc = rc /\ e.text = d.text /\ e.size = d.size
  BY DEF Fails, BufferType
<1> HIDE DEF e
<1>2. HalfFull(e, old)
  BY <1>1 DEF HalfFull
<1> QED
  BY <1>1, <1>2 DEF Sound, e

(* What is left, measured anew.                                            *)
LEMMA MeasuredSound ==
  ASSUME NEW d \in BufferType, NEW old \in Toks, NEW k \in 0 .. 1, Under(d, Len(old), k)
  PROVE  LET left == Left(d.size, d.text)
             e == [d EXCEPT !.remain = left]
         IN  /\ left \in 0 .. WORD - 1
             /\ left <= 1 => HalfFull(d, old)
             /\ left >= 1 => e \in BufferType /\ Under(e, Len(old), k)
<1> DEFINE left == Left(d.size, d.text)
           e == [d EXCEPT !.remain = left]
<1>1. /\ Len(d.text) \in Nat /\ d.size \in 1 .. WORD - 1 /\ Len(old) \in Nat
      /\ WORD \in Nat \ {0} /\ d.text \in Toks /\ d.size \in 0 .. WORD - 1
  BY WordAssumption DEF BufferType, Toks
<1>2. /\ left \in 0 .. WORD - 1
      /\ Len(d.text) <= d.size => left = d.size - Len(d.text)
  BY <1>1, LeftSize
<1>3. /\ e \in BufferType /\ e.remain = left /\ e.text = d.text /\ e.size = d.size
      /\ e.over = d.over /\ e.rc = d.rc
  BY <1>2, WordAssumption DEF BufferType
<1> HIDE DEF left, e
<1>4. ASSUME left <= 1 PROVE HalfFull(d, old)
  BY <1>1, <1>2, <1>4 DEF HalfFull, Under, Fits, Full
<1>5. ASSUME left >= 1 PROVE Under(e, Len(old), k)
  BY <1>1, <1>2, <1>3, <1>5 DEF Under, Fits, Full
<1> QED
  BY <1>2, <1>3, <1>4, <1>5 DEF left, e

LEMMA RoomSound ==
  ASSUME NEW d \in BufferType, NEW old \in Toks, NEW k \in 0 .. 1, Under(d, Len(old), k)
  PROVE  Sound(Step(d, room), old, k)
<1> DEFINE left == Left(d.size, d.text)
           e == [d EXCEPT !.remain = left]
<1>1. /\ left \in 0 .. WORD - 1
      /\ left <= 1 => HalfFull(d, old)
      /\ left >= 1 => e \in BufferType /\ Under(e, Len(old), k)
  BY MeasuredSound
<1>2. Step(d, room) = IF left <= 1 THEN Fails(d, "too_small") ELSE e
  BY DEF Step, room
<1> HIDE DEF left, e
<1>3. CASE left <= 1
  BY <1>1, <1>2, <1>3, FailSound
<1>4. CASE left > 1
  <2>1. Step(d, room) = e /\ left >= 1
    BY <1>1, <1>2, <1>4
  <2> QED
    BY <1>1, <2>1 DEF Sound, Under
<1> QED
  BY <1>1, <1>3, <1>4

(* A text that is written at the end of another, or up to three bytes      *)
(* before.                                                                 *)
LEMMA WriteSound ==
  ASSUME NEW d \in BufferType, NEW old \in Toks, NEW k \in 0 .. 1, Under(d, Len(old), k),
         NEW back \in 0 .. 3, NEW toks \in Toks, NEW c \in 0 .. 1, k <= c,
         Len(toks) >= back \/ (k = 0 /\ c = 1 /\ Len(toks) = back - 1)
  PROVE  Sound(Snprintf(d, Len(d.text) - back, d.remain, toks), old, c)
<1> DEFINE e == Snprintf(d, Len(d.text) - back, d.remain, toks)
           len == Len(d.text)
           more == Len(toks)
           size == d.size
           remain == d.remain
           n == Len(old)
           end == Len(e.text)
<1>1. /\ len \in Nat /\ size \in 1 .. WORD - 1 /\ n \in Nat /\ remain \in 1 .. WORD - 1
      /\ WORD \in Nat /\ more \in Nat /\ toks \in Toks /\ d.text \in Toks
      /\ more >= back \/ (k = 0 /\ c = 1 /\ more = back - 1)
  BY WordAssumption DEF BufferType, Toks, Under
<1>2. /\ len >= 13 - k
      /\ \/ d.over = FALSE /\ len < size /\ remain >= size - len - n - k
         \/ len >= size - k
  BY DEF Under, Fits, Full
<1>3. len - back \in 0 .. len
  BY <1>1, <1>2
<1>4. /\ e \in BufferType /\ e.size = size /\ e.remain = remain
      /\ e.rc = "ok" => end = len - back + more
      /\ e.rc # "ok" => end = len - back + remain - 1
      /\ d.over = FALSE /\ end < size => e.over = FALSE
  BY <1>1, <1>3, SnprintfLength DEF Wrote
<1>5. end \in Nat
  BY <1>4 DEF BufferType, Toks
<1>6. ASSUME e.rc = "ok", d.over = FALSE => e.over = FALSE \/ end >= size
      PROVE  Under(e, n, c)
  <2> HIDE DEF e, len, more, size, remain, n, end
  <2>1. end = len - back + more
    BY <1>4, <1>6
  <2>2. end >= 13 - c
    BY <1>1, <1>2, <2>1
  <2>3. \/ e.over = FALSE /\ end < size /\ remain >= size - end - n - c
        \/ end >= size - c
    BY <1>1, <1>2, <1>5, <1>6, <2>1
  <2> QED
    BY <1>1, <1>4, <1>6, <2>2, <2>3 DEF Under, Fits, Full, end
<1>7. ASSUME e.rc # "ok" PROVE HalfFull(e, old)
  <2> HIDE DEF e, len, more, size, remain, n, end
  <2>1. end = len - back + remain - 1
    BY <1>4, <1>7
  <2>2. size <= 2 * end + n + 2
    BY <1>1, <1>2, <2>1
  <2> QED
    BY <1>4, <2>2 DEF HalfFull, n, end
<1>8. d.over = FALSE => e.over = FALSE \/ end >= size
  BY <1>1, <1>4, <1>5
<1> QED
  BY <1>4, <1>6, <1>7, <1>8 DEF Sound

LEMMA ClosingSound ==
  ASSUME NEW d \in BufferType, NEW old \in Toks, NEW k \in 0 .. 1, Under(d, Len(old), k),
         NEW toks \in Toks
  PROVE  Sound(Step(d, closing(toks)), old, k)
<1> DEFINE left == Left(d.size, d.text)
           e == [d EXCEPT !.remain = left]
<1>1. /\ left \in 0 .. WORD - 1
      /\ left <= 1 => HalfFull(d, old)
      /\ left >= 1 => e \in BufferType /\ Under(e, Len(old), k)
  BY MeasuredSound
<1>2. Step(d, closing(toks)) =
        IF left < 1 THEN Fails(d, "too_small") ELSE Snprintf(d, Len(d.text), left, toks)
  BY DEF Step, closing
<1>3. CASE left < 1
  <2> HIDE DEF left, e
  <2>1. left <= 1
    BY <1>1, <1>3
  <2> QED
    BY <1>1, <1>2, <1>3, <2>1, FailSound
<1>4. CASE ~(left < 1)
  <2>1. left >= 1
    BY <1>1, <1>4
  <2>2. e.text = d.text /\ e.size = d.size /\ e.over = d.over /\ e.remain = left
    BY DEF BufferType
  <2>3. Snprintf(d, Len(d.text), left, toks) = Snprintf(e, Len(e.text), e.remain, toks)
    BY <2>2 DEF Snprintf
  <2>4. Len(toks) \in Nat /\ Len(e.text) \in Nat /\ e.text \in Toks
    BY <2>2 DEF BufferType, Toks
  <2> HIDE DEF left, e
  <2>5. Len(e.text) - 0 = Len(e.text)
    BY <2>4
  <2>6. Sound(Snprintf(e, Len(e.text) - 0, e.remain, toks), old, k)
    BY <1>1, <2>1, <2>4, WriteSound
  <2> QED
    BY <1>2, <1>4, <2>3, <2>5, <2>6
<1> QED
  BY <1>3, <1>4

(* A node measures what is left of what was left.                          *)
LEMMA NodeSound ==
  ASSUME NEW d \in BufferType, NEW old \in Toks, NEW k \in 0 .. 1, Under(d, Len(old), k),
         NEW toks \in Toks
  PROVE  Sound(Node(d, toks), old, k)
<1> DEFINE len == Len(d.text)
           size == d.size
           remain == d.remain
           n == Len(old)
           left == NodeRoom(d)
           f == Snprintf(d, Len(d.text), left, toks)
           e == [f EXCEPT !.remain = d.remain]
           end == Len(f.text)
           more == Len(toks)
<1>1. /\ len \in Nat /\ size \in 1 .. WORD - 1 /\ n \in Nat /\ remain \in 1 .. WORD - 1
      /\ WORD \in Nat /\ more \in Nat /\ toks \in Toks /\ d.text \in Toks
      /\ remain \in 0 .. WORD - 1
  BY WordAssumption DEF BufferType, Toks, Under
<1>2. /\ len >= 13 - k
      /\ \/ d.over = FALSE /\ len < size /\ remain >= size - len - n - k
         \/ len >= size - k
  BY DEF Under, Fits, Full
<1>3. left \in 0 .. WORD - 1 /\ (len <= remain => left = remain - len)
  BY <1>1, LeftSize DEF NodeRoom
<1>4. ASSUME left <= 1 PROVE HalfFull(d, old)
  <2> HIDE DEF len, size, remain, n, left
  <2>1. size <= 2 * len + n + 2
    BY <1>1, <1>2, <1>3, <1>4
  <2> QED
    BY <2>1 DEF HalfFull, len, size, n
<1>5. ASSUME left > 1 PROVE Sound(e, old, k)
  <2>1. left \in 1 .. WORD - 1 /\ len \in 0 .. len
    <3> HIDE DEF left, len
    <3> QED
      BY <1>1, <1>3, <1>5
  <2>2. /\ f \in BufferType /\ f.size = size
        /\ f.rc = "ok" => end = len + more
        /\ f.rc # "ok" => end = len + left - 1
        /\ d.over = FALSE /\ end < size => f.over = FALSE
    <3> HIDE DEF left
    <3>1. Len(d.text) \in 0 .. Len(d.text) /\ left \in 1 .. WORD - 1 /\ toks \in Toks
      BY <1>1, <2>1
    <3>2. Wrote(d, Len(d.text), left, toks)
      BY <3>1, SnprintfLength
    <3> QED
      BY <3>2 DEF Wrote
  <2>3. /\ e \in BufferType /\ e.size = size /\ e.remain = remain /\ e.text = f.text
        /\ e.rc = f.rc /\ e.over = f.over
    <3>1. f \in BufferType /\ f.size = size /\ d.remain \in Nat
      BY <1>1, <2>2
    <3> HIDE DEF f
    <3> QED
      BY <3>1 DEF BufferType
  <2>4. end \in Nat
    BY <2>2 DEF BufferType, Toks
  <2>5. d.over = FALSE => f.over = FALSE \/ end >= size
    BY <1>1, <2>2, <2>4
  <2> HIDE DEF f, e, len, more, size, remain, n, end, left
  <2>6. ASSUME f.rc = "ok" PROVE Under(e, n, k)
    <3>1. end >= 13 - k
      BY <1>1, <1>2, <2>2, <2>6
    <3>2. \/ f.over = FALSE /\ end < size /\ remain >= size - end - n - k
          \/ end >= size - k
      BY <1>1, <1>2, <2>2, <2>4, <2>5, <2>6
    <3> QED
      BY <1>1, <2>3, <2>6, <3>1, <3>2 DEF Under, Fits, Full, end
  <2>7. ASSUME f.rc # "ok" PROVE HalfFull(e, old)
    <3>1. size <= 2 * end + n + 2
      BY <1>1, <1>2, <1>3, <1>5, <2>2, <2>7
    <3> QED
      BY <2>3, <3>1 DEF HalfFull, n, end
  <2> QED
    BY <2>3, <2>6, <2>7 DEF Sound, n
<1>6. Node(d, toks) = IF left <= 1 THEN Fails(d, "too_small") ELSE e
  BY DEF Node
<1>7. left <= 1 \/ left > 1
  BY <1>3
<1> HIDE DEF left, e
<1>8. CASE left <= 1
  BY <1>4, <1>6, <1>8, FailSound
<1>9. CASE left > 1
  <2>1. ~(left <= 1)
    BY <1>3, <1>9
  <2> QED
    BY <1>5, <1>6, <1>9, <2>1
<1> QED
  BY <1>7, <1>8, <1>9

(* The type is put after the first brace, when 13 bytes are left.          *)
LEMMA TypeSound ==
  ASSUME NEW d \in BufferType, NEW old \in Toks, NEW k \in 0 .. 1, Under(d, Len(old), k),
         NEW toks \in Toks, Len(toks) = 13
  PROVE  Sound(SetType(d, toks), old, k)
<1> DEFINE len == Len(d.text)
           size == d.size
           remain == d.remain
           n == Len(old)
           left == Left(d.size, d.text)
           room_ == (left - 1) % WORD
           text == SubSeq(d.text, 1, 1) \o toks \o SubSeq(d.text, 2, Len(d.text))
           e == [d EXCEPT !.text = text]
<1>1. /\ len \in Nat /\ size \in 1 .. WORD - 1 /\ n \in Nat /\ remain \in 1 .. WORD - 1
      /\ WORD \in Nat /\ toks \in Toks /\ d.text \in Toks /\ size \in 0 .. WORD - 1
  BY WordAssumption DEF BufferType, Toks, Under
<1>2. /\ len >= 13 - k
      /\ \/ d.over = FALSE /\ len < size /\ remain >= size - len - n - k
         \/ len >= size - k
  BY DEF Under, Fits, Full
<1>3. left \in 0 .. WORD - 1 /\ (len <= size => left = size - len)
  BY <1>1, LeftSize
<1>4. /\ room_ \in 0 .. WORD - 1
      /\ left >= 1 => room_ = left - 1
  <2>1. left - 1 \in Int
    BY <1>3
  <2>2. /\ room_ \in 0 .. WORD - 1
        /\ left - 1 \in 0 .. WORD - 1 => room_ = left - 1
    BY <2>1, Wrap
  <2> HIDE DEF left, room_
  <2> QED
    BY <1>1, <1>3, <2>2
<1>5. ASSUME 13 >= room_ PROVE HalfFull(d, old)
  <2> HIDE DEF len, size, remain, n, left, room_
  <2>1. size <= 2 * len + n + 2
    BY <1>1, <1>2, <1>3, <1>4, <1>5
  <2> QED
    BY <2>1 DEF HalfFull, len, size, n
<1>6. ASSUME ~(13 >= room_) PROVE Sound(e, old, k)
  <2>1. /\ SubSeq(d.text, 1, 1) \in Seq(Tok) /\ Len(SubSeq(d.text, 1, 1)) = 1
        /\ SubSeq(d.text, 2, Len(d.text)) \in Seq(Tok)
        /\ Len(SubSeq(d.text, 2, Len(d.text))) = Len(d.text) - 1
    <3>1. d.text \in Seq(Tok) /\ Len(d.text) \in Nat /\ Len(d.text) >= 12
      <4>1. d.text \in Seq(Tok)
        BY DEF BufferType, Toks
      <4>2. len >= 12
        <5> HIDE DEF len
        <5> QED
          BY <1>1, <1>2
      <4> QED
        BY <1>1, <4>1, <4>2
    <3>2. \A i \in 1 .. 1 : d.text[i] \in Tok
      BY <3>1
    <3>3. \A i \in 2 .. Len(d.text) : d.text[i] \in Tok
      BY <3>1
    <3> QED
      BY <3>1, <3>2, <3>3, SubSeqProperties
  <2>2. text \in Seq(Tok) /\ Len(text) = 1 + 13 + (Len(d.text) - 1)
    <3> DEFINE a == SubSeq(d.text, 1, 1)
               c == SubSeq(d.text, 2, Len(d.text))
    <3>1. /\ toks \in Seq(Tok) /\ a \in Seq(Tok) /\ c \in Seq(Tok)
          /\ Len(a) = 1 /\ Len(c) = Len(d.text) - 1
      BY <2>1 DEF Toks
    <3>2. text = (a \o toks) \o c
      OBVIOUS
    <3> HIDE DEF a, c, text
    <3>3. a \o toks \in Seq(Tok) /\ Len(a \o toks) = Len(a) + Len(toks)
      BY <3>1, ConcatProperties
    <3>4. /\ (a \o toks) \o c \in Seq(Tok)
          /\ Len((a \o toks) \o c) = Len(a \o toks) + Len(c)
      BY <3>1, <3>3, ConcatProperties
    <3> QED
      BY <3>1, <3>2, <3>3, <3>4
  <2>3. /\ e \in BufferType /\ e.size = size /\ e.remain = remain /\ e.text = text
        /\ e.rc = d.rc /\ e.over = d.over
    <3> HIDE DEF text
    <3> QED
      BY <2>2 DEF BufferType, Toks
  <2> DEFINE end == Len(text)
  <2>4. end = 1 + 13 + (len - 1)
    BY <2>2
  <2> HIDE DEF end, e, len, text, size, remain, n, left, room_
  <2>5. end = len + 13
    BY <1>1, <2>4
  <2>6. end >= 13 - k
    BY <1>1, <1>2, <2>5
  <2>7. \/ d.over = FALSE /\ end < size /\ remain >= size - end - n - k
        \/ end >= size - k
    BY <1>1, <1>2, <1>3, <1>4, <1>6, <2>5
  <2>8. d.rc = "ok"
    BY DEF Under
  <2> QED
    BY <1>1, <2>3, <2>6, <2>7, <2>8 DEF Sound, Under, Fits, Full, end, n
<1>7. SetType(d, toks) = IF 13 >= room_ THEN Fails(d, "invalid") ELSE e
  BY DEF SetType
<1> HIDE DEF room_, e
<1>8. CASE 13 >= room_
  BY <1>5, <1>7, <1>8, FailSound
<1>9. CASE ~(13 >= room_)
  BY <1>6, <1>7, <1>9
<1> QED
  BY <1>8, <1>9

(* A document that is begun replaces the old text.                         *)
LEMMA BeginSound ==
  ASSUME NEW d \in BufferType, NEW old \in Toks, NEW k \in 0 .. 1, Unbegun(d, Len(old)),
         d.remain >= d.size - Len(old),
         NEW toks \in Toks, Len(toks) >= 13
  PROVE  Sound(Step(d, over(toks)), old, k)
<1> DEFINE e == Snprintf(d, 0, d.remain, toks)
           len == Len(d.text)
           more == Len(toks)
           size == d.size
           remain == d.remain
           n == Len(old)
           end == Len(e.text)
<1>1. /\ len = n /\ n < size /\ size \in 1 .. WORD - 1 /\ n \in Nat /\ remain \in 1 .. WORD - 1
      /\ WORD \in Nat /\ more \in Nat /\ more >= 13 /\ d.over = FALSE
      /\ remain >= size - n
  BY WordAssumption DEF BufferType, Toks, Unbegun
<1>2. Wrote(d, 0, d.remain, toks)
  <2>1. 0 \in 0 .. Len(d.text)
    BY DEF BufferType, Toks
  <2> QED
    BY <1>1, <2>1, SnprintfLength
<1>3. /\ e \in BufferType /\ e.size = size /\ e.remain = remain
      /\ e.rc = "ok" => end = 0 + more
      /\ e.rc # "ok" => end = 0 + remain - 1
      /\ end < size => e.over = FALSE
  BY <1>1, <1>2 DEF Wrote
<1>4. end \in Nat
  BY <1>3 DEF BufferType, Toks
<1>5. ASSUME e.rc = "ok", e.over = FALSE \/ end >= size PROVE Under(e, n, k)
  <2> HIDE DEF e, len, more, size, remain, n, end
  <2>1. end >= 13 - k
    BY <1>1, <1>3, <1>5
  <2>2. \/ e.over = FALSE /\ end < size /\ remain >= size - end - n - k
        \/ end >= size - k
    BY <1>1, <1>3, <1>4, <1>5
  <2> QED
    BY <1>1, <1>3, <1>5, <2>1, <2>2 DEF Under, Fits, Full, end
<1>6. ASSUME e.rc # "ok" PROVE HalfFull(e, old)
  <2> HIDE DEF e, len, more, size, remain, n, end
  <2>1. size <= 2 * end + n + 2
    BY <1>1, <1>3, <1>6
  <2> QED
    BY <1>3, <2>1 DEF HalfFull, n, end
<1>7. e.over = FALSE \/ end >= size
  <2> HIDE DEF e, size, end
  <2> QED
    BY <1>1, <1>3, <1>4
<1>8. Step(d, over(toks)) = e
  BY DEF Step, over
<1> HIDE DEF e
<1> QED
  BY <1>3, <1>5, <1>6, <1>7, <1>8 DEF Sound

(* Every statement of a document that is begun, but the one that shrinks   *)
(* it, leaves as much slack as there was.                                  *)
LEMMA WrittenSound ==
  ASSUME NEW d \in BufferType, NEW old \in Toks, NEW k \in 0 .. 1, Under(d, Len(old), k),
         NEW s \in Written
  PROVE  Sound(Step(d, s), old, k)
<1>1. CASE s \in [op : {"room"}]
  <2>1. s = room
    BY <1>1 DEF room
  <2> QED
    BY <2>1, RoomSound
<1>2. CASE s \in [op : {"closing", "node"}, toks : Toks] /\ s.op = "closing"
  <2>1. s = closing(s.toks) /\ s.toks \in Toks
    BY <1>2 DEF closing
  <2>2. Sound(Step(d, closing(s.toks)), old, k)
    BY <2>1, ClosingSound
  <2> QED
    BY <2>1, <2>2
<1>3. CASE s \in [op : {"closing", "node"}, toks : Toks] /\ s.op = "node"
  <2>1. s.toks \in Toks /\ Step(d, s) = Node(d, s.toks)
    BY <1>3 DEF Step
  <2> QED
    BY <2>1, NodeSound
<1>4. CASE s \in {t \in [op : {"put"}, back : 0 .. 3, toks : Toks] : Len(t.toks) >= t.back}
  <2>1. /\ s.toks \in Toks /\ s.back \in 0 .. 3 /\ Len(s.toks) >= s.back
        /\ Step(d, s) = Snprintf(d, Len(d.text) - s.back, d.remain, s.toks)
    BY <1>4 DEF Step
  <2>2. k <= k
    OBVIOUS
  <2> QED
    BY <2>1, <2>2, WriteSound
<1>5. CASE s \in {t \in [op : {"type"}, toks : Toks] : Len(t.toks) = 13}
  <2>1. s.toks \in Toks /\ Len(s.toks) = 13 /\ Step(d, s) = SetType(d, s.toks)
    BY <1>5 DEF Step
  <2> QED
    BY <2>1, TypeSound
<1> QED
  BY <1>1, <1>2, <1>3, <1>4, <1>5 DEF Written

(* ... and that one leaves a byte.                                         *)
LEMMA ShrinkingSound ==
  ASSUME NEW d \in BufferType, NEW old \in Toks, Under(d, Len(old), 0), NEW s \in Shrinking
  PROVE  Sound(Step(d, s), old, 1)
<1>1. /\ s.toks \in Toks /\ s.back \in 0 .. 3 /\ Len(s.toks) = s.back - 1
      /\ Step(d, s) = Snprintf(d, Len(d.text) - s.back, d.remain, s.toks)
  BY DEF Step, Shrinking
<1>2. 0 \in 0 .. 1 /\ 1 \in 0 .. 1 /\ 0 <= 1
  OBVIOUS
<1> QED
  BY <1>1, <1>2, WriteSound

(* Before the document is begun, what is left can only be measured.        *)
LEMMA UnbegunRoom ==
  ASSUME NEW d \in BufferType, NEW old \in Toks, Unbegun(d, Len(old))
  PROVE  LET e == Step(d, room)
         IN  /\ e \in BufferType
             /\ e.rc = "ok" => Unbegun(e, Len(old)) /\ e.remain >= e.size - Len(old)
             /\ e.rc # "ok" => HalfFull(e, old)
<1> DEFINE left == Left(d.size, d.text)
           e == [d EXCEPT !.remain = left]
           n == Len(old)
<1>1. /\ d.text \in Toks /\ d.size \in 0 .. WORD - 1 /\ d.size \in Nat
      /\ n \in Nat /\ Len(d.text) = n /\ n < d.size /\ d.rc = "ok" /\ WORD \in Nat
  BY WordAssumption DEF BufferType, Toks, Unbegun
<1>2. left \in 0 .. WORD - 1 /\ left = d.size - n
  <2>1. Len(d.text) <= d.size
    <3> HIDE DEF n
    <3> QED
      BY <1>1
  <2>2. left \in 0 .. WORD - 1 /\ left = d.size - Len(d.text)
    BY <1>1, <2>1, LeftSize
  <2> QED
    BY <1>1, <2>2
<1>3. /\ e \in BufferType /\ e.remain = left /\ e.text = d.text /\ e.size = d.size
      /\ e.over = d.over /\ e.rc = d.rc
  BY <1>2, WordAssumption DEF BufferType
<1>4. Step(d, room) = IF left <= 1 THEN Fails(d, "too_small") ELSE e
  BY DEF Step, room
<1>5. CASE left <= 1
  <2> DEFINE f == Fails(d, "too_small")
  <2>1. f \in BufferType /\ f.rc = "too_small" /\ f.text = d.text /\ f.size = d.size
    BY DEF Fails, BufferType
  <2> HIDE DEF f, e, left
  <2>2. d.size <= 2 * Len(f.text) + Len(old) + 2
    <3> DEFINE size == d.size
    <3>1. size = left + n /\ size \in Nat
      <4> HIDE DEF n, size
      <4>1. d.size = left + n
        BY <1>1, <1>2
      <4> QED
        BY <1>1, <4>1 DEF size
    <3>2. Len(f.text) = n
      BY <1>1, <2>1
    <3> HIDE DEF size, n
    <3>3. size <= 2 * n + n + 2
      BY <1>1, <1>2, <1>5, <3>1
    <3> QED
      BY <3>2, <3>3 DEF size, n
  <2>3. HalfFull(f, old)
    BY <2>1, <2>2 DEF HalfFull
  <2>4. Step(d, room) = f
    BY <1>4, <1>5 DEF f
  <2> QED
    BY <2>1, <2>3, <2>4
<1>6. CASE ~(left <= 1)
  <2>1. Step(d, room) = e
    BY <1>4, <1>6
  <2> HIDE DEF e, left, n
  <2>2. left \in 1 .. WORD - 1 /\ left >= d.size - n
    BY <1>1, <1>2, <1>6
  <2>3. Unbegun(e, n)
    BY <1>1, <1>3, <2>2 DEF Unbegun
  <2>4. e.remain >= e.size - n
    BY <1>3, <2>2
  <2> QED
    BY <1>1, <1>3, <2>1, <2>3, <2>4 DEF n
<1> QED
  BY <1>5, <1>6

(* A statement is of one kind.                                             *)
LEMMA Kinds ==
  /\ \A s \in Written : ~Shrinks(s) /\ ~Begins(s) /\ ~IsLoop(s)
  /\ \A s \in Looped : ~Shrinks(s) /\ ~Begins(s) /\ IsLoop(s) /\ s.op # "room"
  /\ \A s \in Shrinking : Shrinks(s) /\ ~Begins(s) /\ ~IsLoop(s) /\ s.op # "room"
  /\ \A s \in Beginning : ~Shrinks(s) /\ Begins(s) /\ ~IsLoop(s) /\ s.op # "room"
<1>1. ASSUME NEW s \in Written PROVE ~Shrinks(s) /\ ~Begins(s) /\ ~IsLoop(s)
  <2>1. CASE s \in {t \in [op : {"put"}, back : 0 .. 3, toks : Toks] : Len(t.toks) >= t.back}
    <3>1. /\ s.op = "put" /\ s.toks \in Toks /\ s.back \in 0 .. 3 /\ Len(s.toks) >= s.back
      BY <2>1
    <3>2. Len(s.toks) \in Nat
      BY <3>1 DEF Toks
    <3>3. ~(Len(s.toks) < s.back)
      BY <3>1, <3>2
    <3> QED
      BY <3>1, <3>3 DEF Shrinks, Begins, IsLoop
  <2>2. CASE s.op \in {"room", "closing", "node", "type"}
    BY <2>2 DEF Shrinks, Begins, IsLoop
  <2> QED
    BY <2>1, <2>2 DEF Written
<1>2. ASSUME NEW s \in Looped
      PROVE  ~Shrinks(s) /\ ~Begins(s) /\ IsLoop(s) /\ s.op # "room"
  BY DEF Looped, Shrinks, Begins, IsLoop
<1>3. ASSUME NEW s \in Shrinking
      PROVE  Shrinks(s) /\ ~Begins(s) /\ ~IsLoop(s) /\ s.op # "room"
  <2>1. s.op = "put" /\ s.toks \in Toks /\ s.back \in 0 .. 3 /\ Len(s.toks) = s.back - 1
    BY DEF Shrinking
  <2>2. Len(s.toks) < s.back
    BY <2>1
  <2> QED
    BY <2>1, <2>2 DEF Shrinks, Begins, IsLoop
<1>4. ASSUME NEW s \in Beginning
      PROVE  ~Shrinks(s) /\ Begins(s) /\ ~IsLoop(s) /\ s.op # "room"
  BY DEF Beginning, Shrinks, Begins, IsLoop
<1> QED
  BY <1>1, <1>2, <1>3, <1>4

(* What is left of a list of statements when its head is done: it is begun *)
(* unless the head was the measure before the beginning, and has its slack *)
(* unless the head shrinks the document.                                   *)
LEMMA TailOrdered ==
  ASSUME NEW q, Ordered(q), q # <<>>
  PROVE  /\ Head(q) \in Statement /\ Head(q) = q[1] /\ Ordered(Tail(q))
         /\ Begun(q) => ~Begins(Head(q)) /\ Begun(Tail(q))
         /\ Begins(Head(q)) => Begun(Tail(q))
         /\ ~Begun(q) /\ ~Begins(Head(q)) =>
              /\ Head(q).op = "room" /\ Tail(q) # <<>> /\ Begins(Tail(q)[1])
         /\ ~Shrinks(Head(q)) => Slack(Tail(q)) = Slack(q)
         /\ Shrinks(Head(q)) => Slack(q) = 0 /\ Slack(Tail(q)) = 1
<1> DEFINE r == Tail(q)
<1>1. /\ q \in Seq(Statement) /\ Len(q) \in Nat /\ Len(q) >= 1
  BY DEF Ordered
<1>2. /\ Head(q) \in Statement /\ r \in Seq(Statement) /\ Len(r) = Len(q) - 1
      /\ \A i \in 1 .. Len(r) : r[i] = q[i + 1]
  BY <1>1, HeadTailProperties
<1>3. Head(q) = q[1]
  BY <1>1
<1> HIDE DEF r
<1>4. /\ 1 \in 1 .. Len(q)
      /\ \A i \in 1 .. Len(r) : i + 1 \in 1 .. Len(q) /\ i + 1 # 1
      /\ \A j \in 1 .. Len(q) : j # 1 => j - 1 \in 1 .. Len(r) /\ r[j - 1] = q[j]
  BY <1>1, <1>2
<1>5. \A i, j \in 1 .. Len(r) : Shrinks(r[i]) /\ Shrinks(r[j]) => i = j
  BY <1>2, <1>4 DEF Ordered
<1>6. \A i \in 1 .. Len(r) : Begins(r[i]) => i = 1 /\ q[1].op = "room"
  <2> SUFFICES ASSUME NEW i \in 1 .. Len(r), Begins(r[i]) PROVE i = 1 /\ q[1].op = "room"
    OBVIOUS
  <2>1. i + 1 \in 1 .. Len(q) /\ i + 1 # 1 /\ Begins(q[i + 1])
    BY <1>2, <1>4
  <2>2. i + 1 = 2 /\ q[1].op = "room"
    BY <2>1 DEF Ordered
  <2> QED
    BY <2>2
<1>7. Ordered(r)
  BY <1>2, <1>5, <1>6 DEF Ordered
<1>8. Begun(q) => ~Begins(q[1]) /\ Begun(r)
  <2> SUFFICES ASSUME Begun(q) PROVE ~Begins(q[1]) /\ Begun(r)
    OBVIOUS
  <2> QED
    BY <1>2, <1>4 DEF Begun
<1>9. Begins(q[1]) => Begun(r)
  <2> SUFFICES ASSUME Begins(q[1]), NEW i \in 1 .. Len(r), Begins(r[i]) PROVE FALSE
    BY DEF Begun
  <2>1. q[1].op = "room"
    BY <1>6
  <2> QED
    BY <2>1 DEF Begins
<1>10. ASSUME ~Begun(q), ~Begins(q[1])
       PROVE  q[1].op = "room" /\ r # <<>> /\ Begins(r[1])
  <2>1. PICK j \in 1 .. Len(q) : Begins(q[j])
    BY <1>10 DEF Begun
  <2>2. j # 1
    BY <1>10, <2>1
  <2>3. j - 1 \in 1 .. Len(r) /\ Begins(r[j - 1])
    BY <1>4, <2>1, <2>2
  <2>4. j - 1 = 1 /\ q[1].op = "room"
    BY <1>6, <2>3
  <2>5. 1 \in 1 .. Len(r) /\ Begins(r[1])
    BY <2>3, <2>4
  <2>6. r # <<>>
    BY <1>2, <2>5
  <2> QED
    BY <2>4, <2>5, <2>6
<1>11. ASSUME ~Shrinks(q[1]) PROVE Slack(r) = Slack(q)
  <2>1. (\E i \in 1 .. Len(q) : Shrinks(q[i])) <=> (\E i \in 1 .. Len(r) : Shrinks(r[i]))
    <3>1. ASSUME NEW j \in 1 .. Len(q), Shrinks(q[j]) PROVE \E i \in 1 .. Len(r) : Shrinks(r[i])
      BY <1>4, <1>11, <3>1
    <3>2. ASSUME NEW i \in 1 .. Len(r), Shrinks(r[i]) PROVE \E j \in 1 .. Len(q) : Shrinks(q[j])
      BY <1>2, <1>4, <3>2
    <3> QED
      BY <3>1, <3>2
  <2> QED
    BY <2>1 DEF Slack
<1>12. ASSUME Shrinks(q[1]) PROVE Slack(q) = 0 /\ Slack(r) = 1
  <2>1. Slack(q) = 0
    BY <1>4, <1>12 DEF Slack
  <2>2. ASSUME NEW i \in 1 .. Len(r), Shrinks(r[i]) PROVE FALSE
    <3>1. i + 1 \in 1 .. Len(q) /\ i + 1 # 1 /\ Shrinks(q[i + 1])
      BY <1>2, <1>4, <2>2
    <3> QED
      BY <1>4, <1>12, <3>1 DEF Ordered
  <2>3. Slack(r) = 1
    BY <2>2 DEF Slack
  <2> QED
    BY <2>1, <2>3
<1> QED
  BY <1>2, <1>3, <1>7, <1>8, <1>9, <1>10, <1>11, <1>12 DEF r

(* A list of usual statements before an ordered one that is begun.         *)
LEMMA PrefixOrdered ==
  ASSUME NEW a \in Seq(Usual), NEW q, Ordered(q), Begun(q)
  PROVE  Ordered(a \o q) /\ Begun(a \o q) /\ Slack(a \o q) = Slack(q)
<1> DEFINE r == a \o q
           n == Len(a)
<1>1. /\ a \in Seq(Statement) /\ q \in Seq(Statement) /\ n \in Nat /\ Len(q) \in Nat
  <2>1. Usual \subseteq Statement
    BY DEF Statement
  <2> QED
    BY <2>1, SeqMonotonic DEF Ordered
<1>2. /\ r \in Seq(Statement) /\ Len(r) = n + Len(q)
      /\ \A i \in 1 .. n + Len(q) : r[i] = IF i <= n THEN a[i] ELSE q[i - n]
  BY <1>1, ConcatProperties
<1>3. \A i \in 1 .. n : ~Shrinks(a[i]) /\ ~Begins(a[i])
  <2>1. \A i \in 1 .. n : a[i] \in Usual
    OBVIOUS
  <2> QED
    BY <2>1, Kinds DEF Usual
<1> HIDE DEF r, n
<1>4. \A i \in 1 .. Len(r) : Shrinks(r[i]) \/ Begins(r[i]) =>
         i - n \in 1 .. Len(q) /\ r[i] = q[i - n]
  <2> SUFFICES ASSUME NEW i \in 1 .. Len(r), Shrinks(r[i]) \/ Begins(r[i])
               PROVE  i - n \in 1 .. Len(q) /\ r[i] = q[i - n]
    OBVIOUS
  <2>1. ~(i <= n)
    <3> SUFFICES ASSUME i <= n PROVE FALSE
      OBVIOUS
    <3>1. i \in 1 .. n /\ r[i] = a[i]
      BY <1>1, <1>2
    <3> QED
      BY <1>3, <3>1
  <2> QED
    BY <1>1, <1>2, <2>1
<1>5. \A j \in 1 .. Len(q) : j + n \in 1 .. Len(r) /\ r[j + n] = q[j]
  <2> SUFFICES ASSUME NEW j \in 1 .. Len(q) PROVE j + n \in 1 .. Len(r) /\ r[j + n] = q[j]
    OBVIOUS
  <2>1. j + n \in 1 .. n + Len(q) /\ ~(j + n <= n) /\ (j + n) - n = j
    BY <1>1
  <2> QED
    BY <1>2, <2>1
<1>6. Begun(r)
  <2> SUFFICES ASSUME NEW i \in 1 .. Len(r), Begins(r[i]) PROVE FALSE
    BY DEF Begun
  <2> QED
    BY <1>4 DEF Begun
<1>7. \A i, j \in 1 .. Len(r) : Shrinks(r[i]) /\ Shrinks(r[j]) => i = j
  <2> SUFFICES ASSUME NEW i \in 1 .. Len(r), NEW j \in 1 .. Len(r), Shrinks(r[i]), Shrinks(r[j])
               PROVE  i = j
    OBVIOUS
  <2>1. /\ i - n \in 1 .. Len(q) /\ Shrinks(q[i - n])
        /\ j - n \in 1 .. Len(q) /\ Shrinks(q[j - n])
    BY <1>4
  <2>2. i - n = j - n
    BY <2>1 DEF Ordered
  <2> QED
    BY <1>1, <1>2, <2>2
<1>8. Ordered(r)
  BY <1>2, <1>6, <1>7 DEF Ordered, Begun
<1>9. (\E i \in 1 .. Len(q) : Shrinks(q[i])) <=> (\E i \in 1 .. Len(r) : Shrinks(r[i]))
  <2>1. ASSUME NEW j \in 1 .. Len(q), Shrinks(q[j]) PROVE \E i \in 1 .. Len(r) : Shrinks(r[i])
    BY <1>5, <2>1
  <2>2. ASSUME NEW i \in 1 .. Len(r), Shrinks(r[i]) PROVE \E j \in 1 .. Len(q) : Shrinks(q[j])
    BY <1>4, <2>2
  <2> QED
    BY <2>1, <2>2
<1>10. Slack(r) = Slack(q)
  BY <1>9 DEF Slack
<1> QED
  BY <1>6, <1>8, <1>10 DEF r

(* Tokens put together.                                                    *)
LEMMA Joined ==
  ASSUME NEW a \in Toks, NEW b \in Toks
  PROVE  a \o b \in Toks /\ Len(a \o b) = Len(a) + Len(b) /\ Len(a) \in Nat /\ Len(b) \in Nat
  BY ConcatProperties DEF Toks

(* Texts of one, two and three tokens.                                     *)
LEMMA Words ==
  /\ <<>> \in Toks /\ Len(<<>>) = 0
  /\ \A a \in Tok : <<a>> \in Toks /\ Len(<<a>>) = 1
  /\ \A a, b \in Tok : <<a, b>> \in Toks /\ Len(<<a, b>>) = 2
  /\ \A a, b, c \in Tok : <<a, b, c>> \in Toks /\ Len(<<a, b, c>>) = 3
  BY DEF Toks

LEMMA Commas == Comma \in Toks /\ Len(Comma) = 2
<1>1. "e" \in Tok /\ "," \in Tok
  BY DEF Tok, Literal
<1> QED
  BY <1>1, Words DEF Comma

LEMMA QuotedToks ==
  ASSUME NEW w \in Toks
  PROVE  Quoted(w) \in Toks /\ Len(Quoted(w)) = Len(w) + 4
<1> DEFINE q == <<"e", "q">>
<1>1. "e" \in Tok /\ "q" \in Tok
  BY DEF Tok, Literal
<1>2. q \in Toks /\ Len(q) = 2 /\ Len(w) \in Nat
  BY <1>1, Words DEF Toks
<1>3. Quoted(w) = (q \o w) \o q
  BY DEF Quoted
<1> HIDE DEF q
<1>4. q \o w \in Toks /\ Len(q \o w) = Len(q) + Len(w)
  BY <1>2, Joined
<1>5. (q \o w) \o q \in Toks /\ Len((q \o w) \o q) = Len(q \o w) + Len(q)
  BY <1>2, <1>4, Joined
<1> QED
  BY <1>2, <1>3, <1>4, <1>5

(* A name, and a string of one word.                                       *)
LEMMA NameToks ==
  ASSUME NEW k \in Tok
  PROVE  /\ Name(k) \in Toks /\ Len(Name(k)) = 6
         /\ Quoted(<<k>>) \in Toks /\ Len(Quoted(<<k>>)) = 5
<1> DEFINE w == <<k>>
           colon == <<":">>
<1>1. w \in Toks /\ Len(w) = 1 /\ colon \in Toks /\ Len(colon) = 1
  <2>1. ":" \in Tok
    BY DEF Tok, Literal
  <2> QED
    BY <2>1, Words
<1>2. Name(k) = Quoted(w) \o colon
  BY DEF Name
<1> HIDE DEF w, colon
<1>3. Quoted(w) \in Toks /\ Len(Quoted(w)) = 5
  <2>1. Quoted(w) \in Toks /\ Len(Quoted(w)) = Len(w) + 4
    BY <1>1, QuotedToks
  <2> QED
    BY <1>1, <2>1
<1>4. Quoted(w) \o colon \in Toks /\ Len(Quoted(w) \o colon) = Len(Quoted(w)) + Len(colon)
  BY <1>1, <1>3, Joined
<1> DEFINE t == Quoted(w) \o colon
<1> HIDE DEF t
<1>5. t \in Toks /\ Len(t) = 6
  BY <1>1, <1>3, <1>4 DEF t
<1>6. Name(k) = t
  BY <1>2 DEF t
<1>7. Quoted(<<k>>) \in Toks /\ Len(Quoted(<<k>>)) = 5
  BY <1>3 DEF w
<1> QED
  BY <1>5, <1>6, <1>7

LEMMA ValueToks ==
  ASSUME NEW v \in Val, NEW true \in {"true", "1"}
  PROVE  Value(v, true) \in Toks
<1>1. true \in Tok /\ \A a \in Literal : a \in Tok
  BY DEF Tok, Literal
<1>2. /\ <<"1">> \in Toks /\ <<true>> \in Toks /\ <<"null">> \in Toks /\ <<>> \in Toks
      /\ <<"w">> \in Toks /\ <<"{">> \in Toks /\ <<"1", "}", "}">> \in Toks
  BY <1>1, Words DEF Literal
<1>3. Quoted(<<"w">>) \in Toks /\ Quoted(<<>>) \in Toks
  BY <1>2, QuotedToks
<1>4. Name("c") \in Toks
  BY <1>1, NameToks DEF Literal
<1>5. <<"{">> \o Name("c") \o <<"{">> \o Name("c") \o <<"1", "}", "}">> \in Toks
  BY <1>2, <1>4, Joined, Zenon
<1> QED
  BY <1>2, <1>3, <1>5 DEF Value, Val

(* The head of an event.                                                   *)
LEMMA EventHeadToks ==
  ASSUME NEW event, event.id \in STRING
  PROVE  EventHead(event) \in Toks
<1>1. event.id \in Tok /\ \A a \in Literal : a \in Tok
  BY DEF Tok
<1>2. <<"0">> \in Toks /\ <<"{">> \in Toks /\ Comma \in Toks
  BY <1>1, Words, Commas DEF Literal
<1>3. /\ Name("eventId") \in Toks /\ Name("type") \in Toks /\ Name("timestamp") \in Toks
      /\ Name("params") \in Toks /\ Quoted(<<"info">>) \in Toks
  BY <1>1, NameToks DEF Literal
<1>4. Quoted(<<event.id>>) \in Toks
  BY <1>1, NameToks
<1> QED
  BY <1>2, <1>3, <1>4, Joined, Zenon DEF EventHead

(* The statements the documents are made of.                               *)
LEMMA MadeOf ==
  /\ room \in Usual
  /\ \A t \in Toks : closing(t) \in Usual
  /\ \A b \in 0 .. 3, t \in Toks : Len(t) >= b => put(b, t) \in Usual
  /\ \A b \in 0 .. 3, t \in Toks : Len(t) = b - 1 => put(b, t) \in Shrinking
  /\ \A t \in Toks : Len(t) >= 13 => over(t) \in Beginning
  /\ \A list \in Seq(Pair), true \in {"true", "1"} : for_nodes(list, true) \in Usual
  /\ \A list \in Seq(Row) : for_events(list) \in Usual
<1>1. room \in Usual
  BY DEF room, Usual, Written
<1>2. \A t \in Toks : closing(t) \in Usual
  BY DEF closing, Usual, Written
<1>3. \A b \in 0 .. 3, t \in Toks : Len(t) >= b => put(b, t) \in Usual
  BY DEF put, Usual, Written
<1>4. \A b \in 0 .. 3, t \in Toks : Len(t) = b - 1 => put(b, t) \in Shrinking
  BY DEF put, Shrinking
<1>5. \A t \in Toks : Len(t) >= 13 => over(t) \in Beginning
  BY DEF over, Beginning
<1>6. \A list \in Seq(Pair), true \in {"true", "1"} : for_nodes(list, true) \in Usual
  BY DEF for_nodes, Usual, Looped
<1>7. \A list \in Seq(Row) : for_events(list) \in Usual
  BY DEF for_events, Usual, Looped
<1> QED
  BY <1>1, <1>2, <1>3, <1>4, <1>5, <1>6, <1>7

LEMMA TypeUsual == ASSUME NEW m \in Literal PROVE type(m) \in Usual
<1> DEFINE a == Name("method")
           b == Quoted(<<m>>)
<1>1. m \in Tok /\ "method" \in Tok
  BY DEF Tok, Literal
<1>2. a \in Toks /\ Len(a) = 6 /\ b \in Toks /\ Len(b) = 5 /\ Comma \in Toks /\ Len(Comma) = 2
  <2>1. Name("method") \in Toks /\ Len(Name("method")) = 6
    BY <1>1, NameToks
  <2>2. Quoted(<<m>>) \in Toks /\ Len(Quoted(<<m>>)) = 5
    BY <1>1, NameToks
  <2> QED
    BY <2>1, <2>2, Commas
<1>3. type(m) = [op |-> "type", toks |-> (a \o b) \o Comma]
  BY DEF type
<1> HIDE DEF a, b
<1>4. a \o b \in Toks /\ Len(a \o b) = Len(a) + Len(b)
  BY <1>2, Joined
<1>5. (a \o b) \o Comma \in Toks /\ Len((a \o b) \o Comma) = Len(a \o b) + Len(Comma)
  BY <1>2, <1>4, Joined
<1>6. Len((a \o b) \o Comma) = 13
  BY <1>2, <1>4, <1>5
<1> DEFINE t == (a \o b) \o Comma
<1>7. t \in Toks /\ Len(t) = 13 /\ type(m) = [op |-> "type", toks |-> t]
  BY <1>3, <1>5, <1>6
<1> HIDE DEF t
<1> QED
  BY <1>7 DEF Usual, Written

LEMMA NodeUsual ==
  ASSUME NEW p \in Pair, NEW true \in {"true", "1"}
  PROVE  node(p, true) \in Seq(Usual)
<1> DEFINE a == [op |-> "node", toks |-> Name(p.key)]
           b == [op |-> "node", toks |-> Value(p.val, true) \o Comma]
<1>1. p.key \in Tok /\ p.val \in Val
  BY DEF Pair, Tok
<1>2. Name(p.key) \in Toks /\ Value(p.val, true) \o Comma \in Toks
  BY <1>1, NameToks, ValueToks, Commas, Joined
<1>3. a \in Usual /\ b \in Usual
  BY <1>2 DEF Usual, Written
<1>4. node(p, true) = <<a, b>>
  BY DEF node
<1> HIDE DEF a, b
<1> QED
  BY <1>3, <1>4

(* A list of five, and the texts of an event.                              *)
LEMMA EventUsual ==
  ASSUME NEW event \in Row
  PROVE  OneOfEvents(event) \in Seq(Usual)
<1> DEFINE a == put(0, <<"{">> \o EventHead(event))
           b == for_nodes(event.nodes, "1")
           c == put(pos, <<"}", "}">> \o Comma)
<1>1. event.id \in STRING /\ event.nodes \in Seq(Pair)
  BY DEF Row
<1>2. "{" \in Tok /\ "}" \in Tok
  BY DEF Tok, Literal
<1>3. <<"{">> \in Toks /\ <<"}", "}">> \in Toks /\ Len(<<"}", "}">>) = 2
  BY <1>2, Words
<1>4. a \in Usual
  <2> DEFINE t == <<"{">> \o EventHead(event)
  <2>1. t \in Toks
    BY <1>1, <1>3, EventHeadToks, Joined
  <2> HIDE DEF t
  <2>2. Len(t) \in Nat /\ Len(t) >= 0
    BY <2>1 DEF Toks
  <2>3. put(0, t) \in Usual
    BY <2>1, <2>2, MadeOf
  <2> QED
    BY <2>3 DEF t
<1>5. b \in Usual
  BY <1>1, MadeOf
<1>6. c \in Usual
  <2> DEFINE u == <<"}", "}">>
             t == u \o Comma
  <2>1. u \in Toks /\ Len(u) = 2
    BY <1>3
  <2> HIDE DEF u
  <2>2. t \in Toks /\ Len(t) = Len(u) + Len(Comma)
    BY <2>1, Commas, Joined
  <2> HIDE DEF t
  <2>3. Len(t) >= 2
    BY <2>1, <2>2, Commas
  <2>4. put(pos, t) \in Usual
    BY <2>2, <2>3, MadeOf DEF pos
  <2> QED
    BY <2>4 DEF t, u
<1>7. OneOfEvents(event) = <<a, room, b, room, c>>
  BY DEF OneOfEvents
<1>8. room \in Usual
  BY MadeOf
<1> HIDE DEF a, b, c
<1> QED
  BY <1>4, <1>5, <1>6, <1>7, <1>8

(* A round of a loop is a list of usual statements.                        *)
LEMMA RoundUsual ==
  ASSUME NEW s \in Looped
  PROVE  Round(s) \in Seq(Usual)
<1>1. CASE s.list = <<>>
  BY <1>1 DEF Round
<1>2. CASE s.list # <<>> /\ s \in [op : {"nodes"}, list : Seq(Pair), true : {"true", "1"}]
  <2> DEFINE t == [s EXCEPT !.list = Tail(@)]
             a == node(Head(s.list), s.true)
  <2>1. /\ s.list \in Seq(Pair) /\ Head(s.list) \in Pair /\ Tail(s.list) \in Seq(Pair)
        /\ s.true \in {"true", "1"} /\ s.op = "nodes"
    BY <1>2
  <2>2. t \in [op : {"nodes"}, list : Seq(Pair), true : {"true", "1"}]
    BY <1>2, <2>1
  <2>3. t \in Usual /\ a \in Seq(Usual)
    BY <2>1, <2>2, NodeUsual DEF Usual, Looped
  <2>4. Round(s) = a \o <<t>>
    BY <1>2, <2>1 DEF Round
  <2> HIDE DEF t, a
  <2>5. <<t>> \in Seq(Usual)
    BY <2>3
  <2> QED
    BY <2>3, <2>4, <2>5, ConcatProperties
<1>3. CASE s.list # <<>> /\ s \in [op : {"events"}, list : Seq(Row)]
  <2> DEFINE t == [s EXCEPT !.list = Tail(@)]
             a == OneOfEvents(Head(s.list))
  <2>1. /\ s.list \in Seq(Row) /\ Head(s.list) \in Row /\ Tail(s.list) \in Seq(Row)
        /\ s.op = "events"
    BY <1>3
  <2>2. t \in [op : {"events"}, list : Seq(Row)]
    BY <1>3, <2>1
  <2>3. t \in Usual /\ a \in Seq(Usual)
    BY <2>1, <2>2, EventUsual DEF Usual, Looped
  <2>4. Round(s) = a \o <<t>>
    BY <1>3, <2>1 DEF Round
  <2> HIDE DEF t, a
  <2>5. <<t>> \in Seq(Usual)
    BY <2>3
  <2> QED
    BY <2>3, <2>4, <2>5, ConcatProperties
<1> QED
  BY <1>1, <1>2, <1>3 DEF Looped

(* The orders of the documents: usual statements, of which one may shrink  *)
(* the document, and before them its beginning.                            *)
LEMMA UsualOrdered ==
  ASSUME NEW a \in Seq(Usual)
  PROVE  Ordered(a) /\ Begun(a)
<1>1. Ordered(<<>>) /\ Begun(<<>>)
  BY DEF Ordered, Begun
<1>2. Ordered(a \o <<>>) /\ Begun(a \o <<>>)
  BY <1>1, PrefixOrdered
<1>3. a \o <<>> = a
  BY ConcatEmptySeq
<1> QED
  BY <1>2, <1>3

LEMMA ShrinkingOrdered ==
  ASSUME NEW a \in Seq(Usual), NEW s \in Shrinking, NEW c \in Seq(Usual)
  PROVE  Ordered(a \o (<<s>> \o c)) /\ Begun(a \o (<<s>> \o c))
<1> DEFINE t == <<s>>
           q == t \o c
<1>1. t \in Seq(Statement) /\ Len(t) = 1 /\ t[1] = s
  BY DEF Statement
<1>2. c \in Seq(Statement) /\ Len(c) \in Nat
  <2>1. Usual \subseteq Statement
    BY DEF Statement
  <2> QED
    BY <2>1, SeqMonotonic
<1> HIDE DEF t
<1>3. /\ q \in Seq(Statement) /\ Len(q) = Len(t) + Len(c)
      /\ \A i \in 1 .. Len(t) + Len(c) : q[i] = IF i <= Len(t) THEN t[i] ELSE c[i - Len(t)]
  BY <1>1, <1>2, ConcatProperties
<1> HIDE DEF q
<1>4. \A i \in 1 .. Len(c) : ~Shrinks(c[i]) /\ ~Begins(c[i])
  <2>1. \A i \in 1 .. Len(c) : c[i] \in Usual
    OBVIOUS
  <2> QED
    BY <2>1, Kinds DEF Usual
<1>5. ~Begins(s)
  BY Kinds
<1>6. \A i \in 1 .. Len(q) : (i = 1 /\ q[i] = s) \/ (~Shrinks(q[i]) /\ ~Begins(q[i]))
  <2> SUFFICES ASSUME NEW i \in 1 .. Len(q), i # 1 PROVE ~Shrinks(q[i]) /\ ~Begins(q[i])
    BY <1>1, <1>2, <1>3
  <2>1. i - 1 \in 1 .. Len(c) /\ q[i] = c[i - 1]
    BY <1>1, <1>2, <1>3
  <2> QED
    BY <1>4, <2>1
<1>7. Begun(q)
  BY <1>5, <1>6 DEF Begun
<1>8. \A i, j \in 1 .. Len(q) : Shrinks(q[i]) /\ Shrinks(q[j]) => i = j
  BY <1>6
<1>9. Ordered(q)
  BY <1>3, <1>7, <1>8 DEF Ordered, Begun
<1>10. Ordered(a \o q) /\ Begun(a \o q)
  BY <1>7, <1>9, PrefixOrdered
<1> QED
  BY <1>10 DEF q, t

LEMMA BeginningOrdered ==
  ASSUME NEW o \in Beginning, NEW q, Ordered(q), Begun(q)
  PROVE  /\ Ordered(<<o>> \o q) /\ ~Begun(<<o>> \o q)
         /\ Ordered(<<room>> \o (<<o>> \o q)) /\ ~Begun(<<room>> \o (<<o>> \o q))
<1> DEFINE t == <<o>>
           r == t \o q
           u == <<room>>
           v == u \o r
<1>1. o \in Statement /\ room \in Statement
  BY MadeOf DEF Statement
<1>2. /\ t \in Seq(Statement) /\ Len(t) = 1 /\ t[1] = o
      /\ u \in Seq(Statement) /\ Len(u) = 1 /\ u[1] = room
      /\ q \in Seq(Statement) /\ Len(q) \in Nat
  BY <1>1 DEF Ordered
<1>3. Begins(o) /\ ~Shrinks(o) /\ ~Begins(room) /\ ~Shrinks(room) /\ room.op = "room"
  BY Kinds DEF room, Begins, Shrinks
<1> HIDE DEF t, u
<1>4. /\ r \in Seq(Statement) /\ Len(r) = Len(t) + Len(q)
      /\ \A i \in 1 .. Len(t) + Len(q) : r[i] = IF i <= Len(t) THEN t[i] ELSE q[i - Len(t)]
  BY <1>2, ConcatProperties
<1>5. \A i \in 1 .. Len(r) : (i = 1 /\ r[i] = o) \/ (i - 1 \in 1 .. Len(q) /\ r[i] = q[i - 1])
  <2> HIDE DEF r
  <2> QED
    BY <1>2, <1>4
<1> HIDE DEF r
<1>6. \A i \in 1 .. Len(r) : Begins(r[i]) => i = 1
  BY <1>5 DEF Begun
<1>7. \A i, j \in 1 .. Len(r) : Shrinks(r[i]) /\ Shrinks(r[j]) => i = j
  <2> SUFFICES ASSUME NEW i \in 1 .. Len(r), NEW j \in 1 .. Len(r), Shrinks(r[i]), Shrinks(r[j])
               PROVE  i = j
    OBVIOUS
  <2>1. /\ i - 1 \in 1 .. Len(q) /\ Shrinks(q[i - 1])
        /\ j - 1 \in 1 .. Len(q) /\ Shrinks(q[j - 1])
    BY <1>3, <1>5
  <2>2. i - 1 = j - 1
    BY <2>1 DEF Ordered
  <2>3. i \in Int /\ j \in Int
    BY <1>2, <1>4
  <2> QED
    BY <2>2, <2>3
<1>8. Ordered(r)
  BY <1>4, <1>6, <1>7 DEF Ordered
<1>9. 1 \in 1 .. Len(r) /\ r[1] = o /\ Len(r) \in Nat
  BY <1>2, <1>4
<1>10. ~Begun(r)
  BY <1>3, <1>9 DEF Begun
<1>11. /\ v \in Seq(Statement) /\ Len(v) = Len(u) + Len(r)
       /\ \A i \in 1 .. Len(u) + Len(r) : v[i] = IF i <= Len(u) THEN u[i] ELSE r[i - Len(u)]
  <2>1. u \in Seq(Statement) /\ r \in Seq(Statement)
    BY <1>2, <1>4
  <2> QED
    BY <2>1, ConcatProperties
<1> HIDE DEF v
<1>12. \A i \in 1 .. Len(v) : (i = 1 /\ v[i] = room) \/ (i - 1 \in 1 .. Len(r) /\ v[i] = r[i - 1])
  BY <1>2, <1>9, <1>11
<1>13. 1 \in 1 .. Len(v) /\ 2 \in 1 .. Len(v) /\ v[1] = room /\ v[2] = o
  BY <1>2, <1>9, <1>11
<1>14. \A i \in 1 .. Len(v) : Begins(v[i]) => i = 2 /\ v[1].op = "room"
  <2> SUFFICES ASSUME NEW i \in 1 .. Len(v), Begins(v[i]) PROVE i = 2
    BY <1>3, <1>13
  <2>1. i - 1 \in 1 .. Len(r) /\ Begins(r[i - 1])
    BY <1>3, <1>12
  <2>2. i - 1 = 1 /\ i \in Int
    BY <1>2, <1>6, <1>9, <1>11, <2>1
  <2> QED
    BY <2>2
<1>15. \A i, j \in 1 .. Len(v) : Shrinks(v[i]) /\ Shrinks(v[j]) => i = j
  <2> SUFFICES ASSUME NEW i \in 1 .. Len(v), NEW j \in 1 .. Len(v), Shrinks(v[i]), Shrinks(v[j])
               PROVE  i = j
    OBVIOUS
  <2>1. /\ i - 1 \in 1 .. Len(r) /\ Shrinks(r[i - 1])
        /\ j - 1 \in 1 .. Len(r) /\ Shrinks(r[j - 1])
    BY <1>3, <1>12
  <2>2. i - 1 = j - 1
    BY <1>7, <2>1
  <2>3. i \in Int /\ j \in Int
    BY <1>2, <1>9, <1>11
  <2> QED
    BY <2>2, <2>3
<1>16. Ordered(v)
  BY <1>11, <1>14, <1>15 DEF Ordered
<1>17. ~Begun(v)
  BY <1>3, <1>13 DEF Begun
<1> QED
  BY <1>8, <1>10, <1>16, <1>17 DEF v, u, r, t

(* The texts of the documents, and how long those are that something is    *)
(* written over.                                                           *)
LEMMA Texts ==
  /\ <<"}">> \in Toks /\ Len(<<"}">>) = 1 /\ <<"]">> \in Toks /\ Len(<<"]">>) = 1
  /\ <<"}", "}">> \in Toks /\ Len(<<"}", "}">>) = 2
  /\ <<"]", "}">> \in Toks /\ <<"[">> \in Toks /\ <<"{">> \in Toks /\ Len(<<"{">>) = 1
  /\ <<"0">> \in Toks /\ Len(<<"0">>) = 1 /\ \A status \in Status : status \in Toks
<1>1. \A a \in Literal : a \in Tok
  BY DEF Tok
<1>2. \A status \in Status : status \in Toks
  BY <1>1, Words DEF Status, Literal
<1> QED
  BY <1>1, <1>2, Words DEF Literal

LEMMA Longer ==
  ASSUME NEW a \in Toks, NEW b \in Toks, NEW n \in Nat, Len(a) >= n
  PROVE  a \o b \in Toks /\ Len(a \o b) >= n
  BY Joined

LEMMA OverwritingTexts ==
  /\ \A m \in {"params", "device_label"} :
       Comma \o Name(m) \o <<"{">> \in Toks /\ Len(Comma \o Name(m) \o <<"{">>) >= 3
  /\ <<"}", "}">> \o Comma \in Toks /\ Len(<<"}", "}">> \o Comma) >= 2
  /\ <<"}">> \o Comma \in Toks /\ Len(<<"}">> \o Comma) >= 2
<1>1. ASSUME NEW m \in {"params", "device_label"}
      PROVE  Comma \o Name(m) \o <<"{">> \in Toks /\ Len(Comma \o Name(m) \o <<"{">>) >= 3
  <2>1. m \in Tok
    BY DEF Tok, Literal
  <2>2. Name(m) \in Toks /\ Len(Name(m)) = 6
    BY <2>1, NameToks
  <2>3. Comma \o Name(m) \in Toks /\ Len(Comma \o Name(m)) = Len(Comma) + Len(Name(m))
    BY <2>2, Commas, Joined
  <2>4. Len(Comma \o Name(m)) >= 3
    BY <2>2, <2>3, Commas
  <2> QED
    BY <2>3, <2>4, Texts, Longer
<1>2. <<"}", "}">> \o Comma \in Toks /\ Len(<<"}", "}">> \o Comma) >= 2
  <2> DEFINE w == <<"}", "}">>
  <2>1. w \in Toks /\ Len(w) = 2
    BY Texts
  <2> HIDE DEF w
  <2>2. w \o Comma \in Toks /\ Len(w \o Comma) = Len(w) + Len(Comma)
    BY <2>1, Commas, Joined
  <2>3. Len(w \o Comma) >= 2
    BY <2>1, <2>2, Commas
  <2> QED
    BY <2>2, <2>3 DEF w
<1>3. <<"}">> \o Comma \in Toks /\ Len(<<"}">> \o Comma) >= 2
  <2> DEFINE w == <<"}">>
  <2>1. w \in Toks /\ Len(w) = 1
    BY Texts
  <2> HIDE DEF w
  <2>2. w \o Comma \in Toks /\ Len(w \o Comma) = Len(w) + Len(Comma)
    BY <2>1, Commas, Joined
  <2>3. Len(w \o Comma) >= 2
    BY <2>1, <2>2, Commas
  <2> QED
    BY <2>2, <2>3 DEF w
<1> QED
  BY <1>1, <1>2, <1>3

(* A beginning: 13 bytes and more.                                         *)
LEMMA BeginUsual ==
  ASSUME NEW m \in Literal
  PROVE  \E o \in Beginning : Begin(m) = <<o, room>>
<1> DEFINE w == <<"{">>
           name == Name("method")
           method == Quoted(<<m>>)
           b == w \o name \o method
           a == b \o Comma
           t == a \o Name("clientToken") \o Quoted(<<"t">>) \o Comma
<1>1. \A l \in Literal : l \in Tok
  BY DEF Tok
<1>2. /\ name \in Toks /\ Len(name) = 6
      /\ Name("clientToken") \in Toks /\ Quoted(<<"t">>) \in Toks
  BY <1>1, NameToks DEF Literal
<1>3. method \in Toks /\ Len(method) = 5
  BY <1>1, NameToks
<1>4. a \in Toks /\ Len(a) >= 13
  <2>1. w \in Toks /\ Len(w) = 1
    BY Texts
  <2> HIDE DEF w, name, method
  <2>2. w \o name \in Toks /\ Len(w \o name) = Len(w) + Len(name)
    BY <1>2, <2>1, Joined
  <2>3. b \in Toks /\ Len(b) = Len(w \o name) + Len(method)
    BY <1>3, <2>2, Joined
  <2>4. Len(b) = 12
    <3> HIDE DEF b
    <3> QED
      BY <1>2, <1>3, <2>1, <2>2, <2>3
  <2> HIDE DEF b
  <2>5. a \in Toks /\ Len(a) = Len(b) + Len(Comma)
    BY <2>3, Commas, Joined
  <2> QED
    BY <2>4, <2>5, Commas
<1> HIDE DEF a, b, w, name, method
<1>5. a \o Name("clientToken") \in Toks /\ Len(a \o Name("clientToken")) >= 13
  BY <1>2, <1>4, Longer
<1>6. /\ a \o Name("clientToken") \o Quoted(<<"t">>) \in Toks
      /\ Len(a \o Name("clientToken") \o Quoted(<<"t">>)) >= 13
  BY <1>2, <1>5, Longer
<1>7. t \in Toks /\ Len(t) >= 13
  BY <1>6, Commas, Longer
<1>8. Begin(m) = <<over(t), room>>
  BY DEF Begin, a, b, w, name, method
<1> HIDE DEF t
<1>9. over(t) \in Beginning
  BY <1>7, MadeOf
<1> QED
  BY <1>8, <1>9

LEMMA AcknowledgementUsual ==
  \E o \in Beginning :
    o = over(<<"{">> \o Name("code") \o <<"0">> \o Comma
              \o Name("clientToken") \o Quoted(<<"t">>) \o Comma)
<1> DEFINE w == <<"{">>
           name == Name("code")
           c == w \o name
           b == c \o <<"0">> \o Comma
           label == Name("clientToken")
           a == b \o label
           t == a \o Quoted(<<"t">>) \o Comma
<1>1. \A l \in Literal : l \in Tok
  BY DEF Tok
<1>2. /\ name \in Toks /\ Len(name) = 6
      /\ label \in Toks /\ Len(label) = 6
      /\ Quoted(<<"t">>) \in Toks
  BY <1>1, NameToks DEF Literal
<1>3. w \in Toks /\ Len(w) = 1
  BY Texts
<1> HIDE DEF w, name, label
<1>4. c \in Toks /\ Len(c) >= 7
  <2>1. c \in Toks /\ Len(c) = Len(w) + Len(name)
    BY <1>2, <1>3, Joined
  <2> HIDE DEF c
  <2> QED
    BY <1>2, <1>3, <2>1
<1> HIDE DEF c
<1>5. c \o <<"0">> \in Toks /\ Len(c \o <<"0">>) >= 7
  BY <1>4, Texts, Longer
<1>6. b \in Toks /\ Len(b) >= 7
  BY <1>5, Commas, Longer
<1> HIDE DEF b
<1>7. a \in Toks /\ Len(a) = Len(b) + Len(label)
  BY <1>2, <1>6, Joined
<1>8. a \in Toks /\ Len(a) >= 13
  <2>1. Len(b) \in Nat
    BY <1>6 DEF Toks
  <2> HIDE DEF a
  <2> QED
    BY <1>2, <1>6, <1>7, <2>1
<1> HIDE DEF a
<1>9. a \o Quoted(<<"t">>) \in Toks /\ Len(a \o Quoted(<<"t">>)) >= 13
  BY <1>2, <1>8, Longer
<1>10. t \in Toks /\ Len(t) >= 13
  BY <1>9, Commas, Longer
<1> HIDE DEF t
<1>11. over(t) \in Beginning
  BY <1>10, MadeOf
<1> QED
  BY <1>11 DEF t, a, b, c, w, name, label

(* What the lists of the model's constants hold.                           *)
LEMMA Lists ==
  /\ NodeList \subseteq Seq(Pair) /\ SelfList \subseteq Seq(Pair) /\ <<>> \in Seq(Pair)
  /\ Event \subseteq Row /\ EventList \subseteq Seq(Row)
  /\ RawText \subseteq Toks /\ OldText \subseteq Toks
<1>1. NodeList \subseteq Seq(Pair) /\ SelfList \subseteq Seq(Pair) /\ <<>> \in Seq(Pair)
  <2>1. NodeList \subseteq Seq(Pair) /\ SelfList \subseteq Seq(Pair)
    BY TemplateAssumption, Zenon DEF Pair
  <2>2. <<>> \in Seq(Pair)
    OBVIOUS
  <2> QED
    BY <2>1, <2>2
<1>2. [id : STRING, nodes : NodeList] \subseteq Row
  BY <1>1 DEF Row
<1>3. Event \subseteq Row /\ EventList \subseteq Seq(Row)
  BY <1>2, TemplateAssumption, SeqMonotonic
<1>4. STRING \subseteq Tok
  BY DEF Tok
<1>5. RawText \subseteq Toks /\ OldText \subseteq Toks
  BY <1>4, TemplateAssumption, SeqMonotonic DEF Toks
<1> QED
  BY <1>1, <1>3, <1>5

(* Puts that write at the end, and over it.                                *)
LEMMA Puts ==
  /\ \A t \in Toks : put(0, t) \in Usual
  /\ put(pos, <<"}">>) \in Shrinking /\ put(pos, <<"]">>) \in Shrinking
  /\ put(1, <<"}">>) \in Usual /\ put(pos, <<"}", "}">>) \in Usual
  /\ put(pos, <<"}", "}">> \o Comma) \in Usual /\ put(pos, <<"}">> \o Comma) \in Usual
  /\ put(1, Comma \o Name("params") \o <<"{">>) \in Usual
  /\ put(pos + 1, Comma \o Name("device_label") \o <<"{">>) \in Usual
<1>1. ASSUME NEW t \in Toks PROVE put(0, t) \in Usual
  <2>1. Len(t) >= 0
    BY DEF Toks
  <2> QED
    BY <2>1, MadeOf
<1>2. ASSUME NEW t \in Toks, Len(t) = 1 PROVE put(pos, t) \in Shrinking /\ put(1, t) \in Usual
  <2>1. Len(t) = 2 - 1 /\ Len(t) >= 1 /\ 2 \in 0 .. 3 /\ 1 \in 0 .. 3
    BY <1>2
  <2> QED
    BY <2>1, MadeOf DEF pos
<1>3. ASSUME NEW t \in Toks, Len(t) >= 2 PROVE put(pos, t) \in Usual
  BY <1>3, MadeOf DEF pos
<1>4. ASSUME NEW t \in Toks, Len(t) >= 3
      PROVE  put(1, t) \in Usual /\ put(pos + 1, t) \in Usual
  <2>1. Len(t) >= 1 /\ pos + 1 = 3 /\ 3 \in 0 .. 3 /\ 1 \in 0 .. 3
    BY <1>4 DEF pos, Toks
  <2> QED
    BY <1>4, <2>1, MadeOf
<1>5. /\ put(pos, <<"}">>) \in Shrinking /\ put(pos, <<"]">>) \in Shrinking
      /\ put(1, <<"}">>) \in Usual
  BY <1>2, Texts, Zenon
<1>6. put(pos, <<"}", "}">>) \in Usual
  <2> DEFINE t == <<"}", "}">>
  <2>1. t \in Toks /\ Len(t) = 2
    BY Texts
  <2> HIDE DEF t
  <2>2. Len(t) >= 2
    BY <2>1
  <2>3. put(pos, t) \in Usual
    BY <1>3, <2>1, <2>2
  <2> QED
    BY <2>3 DEF t
<1>7. put(pos, <<"}", "}">> \o Comma) \in Usual /\ put(pos, <<"}">> \o Comma) \in Usual
  BY <1>3, OverwritingTexts, Zenon
<1>8. /\ put(1, Comma \o Name("params") \o <<"{">>) \in Usual
      /\ put(pos + 1, Comma \o Name("device_label") \o <<"{">>) \in Usual
  BY <1>4, OverwritingTexts, Zenon
<1> QED
  BY <1>1, <1>5, <1>6, <1>7, <1>8

LEMMA ReportOrdered ==
  ASSUME NEW list \in Seq(Pair)
  PROVE  Ordered(Report(list)) /\ Begun(Report(list))
<1> DEFINE a == put(1, Comma \o Name("params") \o <<"{">>)
           b == for_nodes(list, "true")
           c == put(pos, <<"}", "}">>)
           t == type("report")
<1>1. a \in Usual /\ c \in Usual /\ room \in Usual
  BY Puts, MadeOf
<1>2. b \in Usual
  BY MadeOf
<1>3. t \in Usual
  BY TypeUsual DEF Literal
<1>4. Report(list) = <<room, a, b, room, c, t>>
  BY DEF Report
<1> HIDE DEF a, b, c, t
<1>5. <<room, a, b, room, c, t>> \in Seq(Usual)
  BY <1>1, <1>2, <1>3
<1> QED
  BY <1>4, <1>5, UsualOrdered

(* Tuples in parts.                                                        *)
InParts(t, q, r) ==
  /\ Len(r) = Len(t) + Len(q)
  /\ \A i \in 1 .. Len(t) : r[i] = t[i]
  /\ \A i \in 1 .. Len(q) : r[i + Len(t)] = q[i]

LEMMA Parts ==
  ASSUME NEW S, NEW t \in Seq(S), NEW q \in Seq(S), NEW r \in Seq(S), InParts(t, q, r)
  PROVE  t \o q = r
<1> DEFINE w == t \o q
<1>1. Len(q) \in Nat /\ Len(t) \in Nat
  OBVIOUS
<1>2. /\ w \in Seq(S) /\ Len(w) = Len(t) + Len(q)
      /\ \A i \in 1 .. Len(t) + Len(q) : w[i] = IF i <= Len(t) THEN t[i] ELSE q[i - Len(t)]
  BY ConcatProperties
<1> HIDE DEF w
<1>3. ASSUME NEW i \in 1 .. Len(w) PROVE w[i] = r[i]
  <2>1. CASE i <= Len(t)
    BY <1>1, <1>2, <2>1 DEF InParts
  <2>2. CASE ~(i <= Len(t))
    <3>1. i - Len(t) \in 1 .. Len(q) /\ w[i] = q[i - Len(t)]
      BY <1>1, <1>2, <2>2
    <3>2. r[(i - Len(t)) + Len(t)] = q[i - Len(t)]
      BY <3>1 DEF InParts
    <3>3. (i - Len(t)) + Len(t) = i
      BY <1>1, <1>2
    <3> QED
      BY <3>1, <3>2, <3>3, Zenon
  <2> QED
    BY <2>1, <2>2
<1>4. Len(w) = Len(r)
  BY <1>1, <1>2 DEF InParts
<1>5. w = r
  BY <1>2, <1>3, <1>4, SeqEqual
<1> QED
  BY <1>5 DEF w

LEMMA Two == ASSUME NEW a, NEW b PROVE <<a>> \o <<b>> = <<a, b>>
<1> DEFINE t == <<a>>
           q == <<b>>
           r == <<a, b>>
<1>1. /\ t \in Seq({a, b}) /\ q \in Seq({a, b}) /\ r \in Seq({a, b})
      /\ Len(t) = 1 /\ Len(q) = 1 /\ Len(r) = 2 /\ t[1] = a /\ q[1] = b /\ r[1] = a /\ r[2] = b
  OBVIOUS
<1> HIDE DEF t, q, r
<1>2. InParts(t, q, r)
  BY <1>1 DEF InParts
<1>3. t \o q = r
  BY <1>1, <1>2, Parts
<1> QED
  BY <1>3 DEF t, q, r

LEMMA Three == ASSUME NEW a, NEW b, NEW c PROVE <<a, b, c>> = <<a>> \o (<<b>> \o <<c>>)
<1> DEFINE t == <<a>>
           q == <<b, c>>
           r == <<a, b, c>>
<1>1. /\ t \in Seq({a, b, c}) /\ q \in Seq({a, b, c}) /\ r \in Seq({a, b, c})
  OBVIOUS
<1>2. InParts(t, q, r)
  BY DEF InParts
<1>3. <<b>> \o <<c>> = q
  BY Two
<1> HIDE DEF t, q, r
<1>4. t \o q = r
  BY <1>1, <1>2, Parts
<1> QED
  BY <1>3, <1>4 DEF t, q, r

EightInParts(o, p, a, b, c, d, s, t) ==
  <<o, p>> \o <<a, b, c, d, s, t>>
    = <<o>> \o (<<p>> \o (<<a, b, c, d>> \o (<<s>> \o <<t>>)))

LEMMA Eight ==
  ASSUME NEW o, NEW p, NEW a, NEW b, NEW c, NEW d, NEW s, NEW t
  PROVE  EightInParts(o, p, a, b, c, d, s, t)
<1> DEFINE S == {o, p, a, b, c, d, s, t}
           r == <<a, b, c, d, s, t>>
           u == <<o>>
           v == <<p>>
           w == <<a, b, c, d>>
           x == <<s, t>>
<1>1. /\ r \in Seq(S) /\ u \in Seq(S) /\ v \in Seq(S) /\ w \in Seq(S) /\ x \in Seq(S)
  OBVIOUS
<1>2. InParts(w, x, r)
  BY DEF InParts
<1>3. u \o v = <<o, p>>
  BY Two
<1>4. <<s>> \o <<t>> = x
  BY Two
<1> HIDE DEF S, r, u, v, w, x
<1>5. w \o x = r
  BY <1>1, <1>2, Parts
<1>6. (u \o v) \o r = u \o (v \o r)
  BY <1>1, ConcatAssociative
<1> QED
  BY <1>3, <1>4, <1>5, <1>6, Zenon DEF EightInParts, u, v, r, w

LEMMA InfoOrdered ==
  ASSUME NEW list \in Seq(Pair), NEW self \in Seq(Pair)
  PROVE  Ordered(SystemInfo(list, self)) /\ Begun(SystemInfo(list, self))
<1> DEFINE a == put(1, Comma \o Name("params") \o <<"{">>)
           b == for_nodes(list, "true")
           c == put(pos, <<"}">> \o Comma)
           e == put(pos + 1, Comma \o Name("device_label") \o <<"{">>)
           f == for_nodes(self, "true")
           g == put(pos, <<"}", "}">> \o Comma)
           s == put(pos, <<"}">>)
           t == type("report_info")
           h == <<room, a, b, room, c, room>>
           l == IF self = <<>> THEN <<>> ELSE Label(self)
           u == <<room>>
           v == <<t>>
<1>1. a \in Usual /\ c \in Usual /\ room \in Usual /\ e \in Usual /\ g \in Usual /\ s \in Shrinking
  BY Puts, MadeOf
<1>2. b \in Usual /\ f \in Usual
  BY MadeOf
<1>3. t \in Usual
  BY TypeUsual DEF Literal
<1>4. SystemInfo(list, self) = h \o l \o <<room, s, t>>
  BY DEF SystemInfo
<1>5. Label(self) = <<e, f, g>>
  BY DEF Label
<1>6. l \in Seq(Usual)
  <2> HIDE DEF a, b, c, e, f, g, s, t
  <2>1. e \in Usual /\ f \in Usual /\ g \in Usual
    BY <1>1, <1>2
  <2>2. Label(self) \in Seq(Usual)
    BY <1>5, <2>1
  <2>3. <<>> \in Seq(Usual)
    OBVIOUS
  <2> QED
    BY <2>2, <2>3, Zenon
<1> HIDE DEF a, b, c, e, f, g, s, t, l
<1>7. /\ h \in Seq(Usual) /\ u \in Seq(Usual) /\ v \in Seq(Usual)
  BY <1>1, <1>2, <1>3
<1>8. <<room, s, t>> = u \o (<<s>> \o v)
  <2> DEFINE ro == room
  <2> HIDE DEF ro
  <2>1. <<ro, s, t>> = <<ro>> \o (<<s>> \o <<t>>)
    BY Three
  <2> QED
    BY <2>1, Zenon DEF ro, u, v
<1> HIDE DEF h, u, v
<1>9. Ordered(u \o (<<s>> \o v)) /\ Begun(u \o (<<s>> \o v))
  BY <1>1, <1>7, ShrinkingOrdered
<1>10. h \o l \in Seq(Usual)
  BY <1>6, <1>7, ConcatProperties
<1>11. Ordered((h \o l) \o <<room, s, t>>) /\ Begun((h \o l) \o <<room, s, t>>)
  BY <1>8, <1>9, <1>10, PrefixOrdered
<1> QED
  BY <1>4, <1>11

LEMMA ReplyOrdered ==
  ASSUME NEW status \in Status
  PROVE  Ordered(ControlReply(status)) /\ ~Begun(ControlReply(status))
<1> DEFINE p == IF status = <<>> THEN put(1, <<"}">>)
                ELSE put(0, Name("status") \o Quoted(status) \o <<"}">>)
           t == type("control_reply")
           q == <<room, p, t>>
<1>1. PICK o \in Beginning : ControlReply(status) = <<room, o, room, p, t>>
  BY AcknowledgementUsual DEF ControlReply
<1>2. t \in Usual
  BY TypeUsual DEF Literal
<1>3. p \in Usual
  <2>1. "status" \in Tok
    BY DEF Tok, Literal
  <2>2. Name("status") \in Toks /\ Quoted(status) \in Toks /\ <<"}">> \in Toks
    BY <2>1, NameToks, QuotedToks, Texts
  <2>3. Name("status") \o Quoted(status) \o <<"}">> \in Toks
    BY <2>2, Joined, Zenon
  <2> QED
    BY <2>3, Puts
<1>4. room \in Usual
  BY MadeOf
<1> HIDE DEF p, t
<1>5. q \in Seq(Usual)
  BY <1>2, <1>3, <1>4
<1>6. ControlReply(status) = <<room>> \o (<<o>> \o q)
  BY <1>1
<1> HIDE DEF q
<1>7. Ordered(q) /\ Begun(q)
  BY <1>5, UsualOrdered
<1> QED
  BY <1>6, <1>7, BeginningOrdered

(* What follows the beginning of an event or of the answer to an action.   *)
LEMMA BodyOrdered ==
  ASSUME NEW m \in Literal, NEW a \in Usual, NEW b \in Usual, NEW s \in Shrinking
  PROVE  LET q == Begin(m) \o <<a, room, b, room, s, closing(<<"}">>)>>
         IN  Ordered(q) /\ ~Begun(q)
<1> DEFINE c == closing(<<"}">>)
           h == <<a, room, b, room>>
           v == <<c>>
           u == <<room>>
           r == h \o (<<s>> \o v)
<1>1. PICK o \in Beginning : Begin(m) = <<o, room>>
  BY BeginUsual
<1>2. c \in Usual /\ room \in Usual
  BY Texts, MadeOf
<1> HIDE DEF c
<1>3. h \in Seq(Usual) /\ v \in Seq(Usual) /\ u \in Seq(Usual)
  BY <1>2
<1>4. Begin(m) \o <<a, room, b, room, s, c>> = <<o>> \o (u \o r)
  <2> DEFINE ro == room
  <2> HIDE DEF ro
  <2>1. EightInParts(o, ro, a, ro, b, ro, s, c)
    BY Eight
  <2> QED
    BY <1>1, <2>1, Zenon DEF EightInParts, ro
<1> HIDE DEF h, v, u
<1>5. Ordered(r) /\ Begun(r)
  BY <1>3, ShrinkingOrdered
<1> HIDE DEF r
<1>6. Ordered(u \o r) /\ Begun(u \o r)
  BY <1>3, <1>5, PrefixOrdered
<1>7. Ordered(<<o>> \o (u \o r)) /\ ~Begun(<<o>> \o (u \o r))
  BY <1>6, BeginningOrdered
<1> QED
  BY <1>4, <1>7 DEF c

LEMMA RawOrdered ==
  ASSUME NEW message \in Toks
  PROVE  Ordered(RawEvent(message)) /\ ~Begun(RawEvent(message))
<1> DEFINE p == put(0, Name("events") \o <<"[">> \o message \o <<"]", "}">>)
           q == <<room, p>>
<1>1. PICK o \in Beginning : Begin("events_post") = <<o, room>>
  BY BeginUsual DEF Literal
<1>2. p \in Usual
  <2>1. "events" \in Tok
    BY DEF Tok, Literal
  <2>2. Name("events") \in Toks /\ <<"[">> \in Toks /\ <<"]", "}">> \in Toks
    BY <2>1, NameToks, Texts
  <2>3. Name("events") \o <<"[">> \o message \o <<"]", "}">> \in Toks
    BY <2>2, Joined, Zenon
  <2> QED
    BY <2>3, Puts
<1>3. room \in Usual
  BY MadeOf
<1>4. RawEvent(message) = <<o>> \o q
  <2>1. RawEvent(message) = <<o, room>> \o <<p>>
    BY <1>1 DEF RawEvent
  <2> HIDE DEF p
  <2> QED
    BY <2>1
<1> HIDE DEF p
<1>5. q \in Seq(Usual)
  BY <1>2, <1>3
<1> HIDE DEF q
<1>6. Ordered(q) /\ Begun(q)
  BY <1>5, UsualOrdered
<1> QED
  BY <1>4, <1>6, BeginningOrdered

(* The statements of every document are in order; those of a report begin  *)
(* with the empty document, which is there already.                        *)
LEMMA EmptyJsonToks == EmptyJson \in Toks /\ Len(EmptyJson) = 13
<1> DEFINE w == <<"{">>
           v == <<"}">>
           name == Name("clientToken")
           token == Quoted(<<"t">>)
<1>1. \A l \in Literal : l \in Tok
  BY DEF Tok
<1>2. name \in Toks /\ Len(name) = 6 /\ token \in Toks /\ Len(token) = 5
  BY <1>1, NameToks DEF Literal
<1>3. w \in Toks /\ Len(w) = 1 /\ v \in Toks /\ Len(v) = 1
  BY Texts
<1>4. EmptyJson = w \o name \o token \o v
  BY DEF EmptyJson
<1> HIDE DEF w, v, name, token
<1>5. w \o name \in Toks /\ Len(w \o name) = Len(w) + Len(name)
  BY <1>2, <1>3, Joined
<1>6. w \o name \o token \in Toks /\ Len(w \o name \o token) = Len(w \o name) + Len(token)
  BY <1>2, <1>5, Joined
<1>7. /\ w \o name \o token \o v \in Toks
      /\ Len(w \o name \o token \o v) = Len(w \o name \o token) + Len(v)
  BY <1>3, <1>6, Joined
<1> QED
  BY <1>2, <1>3, <1>4, <1>5, <1>6, <1>7

LEMMA EventOrdered ==
  ASSUME NEW event \in Row
  PROVE  Ordered(SingleEvent(event)) /\ ~Begun(SingleEvent(event))
<1> DEFINE a == put(0, EventHead(event))
           b == for_nodes(event.nodes, "1")
           s == put(pos, <<"}">>)
<1>1. a \in Usual
  <2>1. EventHead(event) \in Toks
    BY EventHeadToks DEF Row
  <2> QED
    BY <2>1, Puts
<1>2. b \in Usual
  BY MadeOf DEF Row
<1>3. s \in Shrinking
  BY Puts
<1>4. "event_post" \in Literal
  BY DEF Literal
<1>5. SingleEvent(event) = Begin("event_post") \o <<a, room, b, room, s, closing(<<"}">>)>>
  BY DEF SingleEvent
<1> HIDE DEF a, b, s
<1> QED
  BY <1>1, <1>2, <1>3, <1>4, <1>5, BodyOrdered

LEMMA EventsOrdered ==
  ASSUME NEW list \in Seq(Row)
  PROVE  Ordered(SeveralEvents(list)) /\ ~Begun(SeveralEvents(list))
<1> DEFINE a == put(0, Name("events") \o <<"[">>)
           b == for_events(list)
           s == put(pos, <<"]">>)
<1>1. a \in Usual
  <2>1. "events" \in Tok
    BY DEF Tok, Literal
  <2>2. Name("events") \in Toks /\ <<"[">> \in Toks
    BY <2>1, NameToks, Texts
  <2>3. Name("events") \o <<"[">> \in Toks
    BY <2>2, Joined, Zenon
  <2> QED
    BY <2>3, Puts
<1>2. b \in Usual
  BY MadeOf
<1>3. s \in Shrinking
  BY Puts
<1>4. "events_post" \in Literal
  BY DEF Literal
<1>5. SeveralEvents(list) = Begin("events_post") \o <<a, room, b, room, s, closing(<<"}">>)>>
  BY DEF SeveralEvents
<1> HIDE DEF a, b, s
<1> QED
  BY <1>1, <1>2, <1>3, <1>4, <1>5, BodyOrdered

LEMMA ActionOrdered ==
  ASSUME NEW status \in Status, NEW list \in Seq(Pair)
  PROVE  Ordered(ActionReply(status, list)) /\ ~Begun(ActionReply(status, list))
<1> DEFINE a == put(0, Name("code") \o <<"0">> \o Comma \o Name("status") \o Quoted(status)
                         \o Comma \o Name("response") \o <<"{">>)
           b == for_nodes(list, "1")
           s == put(pos, <<"}">>)
<1>1. a \in Usual
  <2>1. "code" \in Tok /\ "status" \in Tok /\ "response" \in Tok
    BY DEF Tok, Literal
  <2>2. /\ Name("code") \in Toks /\ Name("status") \in Toks /\ Name("response") \in Toks
        /\ <<"0">> \in Toks /\ Comma \in Toks /\ <<"{">> \in Toks /\ Quoted(status) \in Toks
    BY <2>1, NameToks, QuotedToks, Texts, Commas
  <2>3. Name("code") \o <<"0">> \o Comma \o Name("status") \o Quoted(status)
          \o Comma \o Name("response") \o <<"{">> \in Toks
    BY <2>2, Joined, Zenon
  <2> QED
    BY <2>3, Puts
<1>2. b \in Usual
  BY MadeOf
<1>3. s \in Shrinking
  BY Puts
<1>4. "action_reply" \in Literal
  BY DEF Literal
<1>5. ActionReply(status, list)
        = Begin("action_reply") \o <<a, room, b, room, s, closing(<<"}">>)>>
  BY DEF ActionReply
<1> HIDE DEF a, b, s
<1> QED
  BY <1>1, <1>2, <1>3, <1>4, <1>5, BodyOrdered

LEMMA StatementsOrdered ==
  ASSUME NEW b \in Document \cup EventDocument
  PROVE  /\ Ordered(Statements(b)) /\ OldTextOf(b) \in Toks
         /\ Begun(Statements(b)) <=> b.kind \in {"report", "info"}
<1>1. <<>> \in Toks
  BY Words
<1>2. CASE b \in [kind : {"report"}, nodes : NodeList]
  <2>1. b.kind = "report" /\ b.nodes \in Seq(Pair)
    BY <1>2, Lists
  <2>2. Statements(b) = Report(b.nodes) /\ OldTextOf(b) = <<>>
    BY <2>1 DEF Statements, OldTextOf
  <2> QED
    BY <1>1, <2>1, <2>2, ReportOrdered
<1>3. CASE b \in [kind : {"info"}, nodes : NodeList, self : {<<>>} \cup SelfList]
  <2>1. b.kind = "info" /\ b.nodes \in Seq(Pair) /\ b.self \in Seq(Pair)
    BY <1>3, Lists
  <2>2. Statements(b) = SystemInfo(b.nodes, b.self) /\ OldTextOf(b) = <<>>
    BY <2>1 DEF Statements, OldTextOf
  <2> QED
    BY <1>1, <2>1, <2>2, InfoOrdered
<1>4. CASE b \in [kind : {"reply"}, status : Status, old : OldText]
  <2>1. b.kind = "reply" /\ b.status \in Status /\ b.old \in Toks
    BY <1>4, Lists
  <2>2. Statements(b) = ControlReply(b.status) /\ OldTextOf(b) = b.old
    BY <2>1 DEF Statements, OldTextOf
  <2> QED
    BY <2>1, <2>2, ReplyOrdered
<1>5. CASE b \in [kind : {"action"}, status : Status, nodes : NodeList]
  <2>1. b.kind = "action" /\ b.status \in Status /\ b.nodes \in Seq(Pair)
    BY <1>5, Lists
  <2>2. Statements(b) = ActionReply(b.status, b.nodes) /\ OldTextOf(b) = <<>>
    BY <2>1 DEF Statements, OldTextOf
  <2> QED
    BY <1>1, <2>1, <2>2, ActionOrdered
<1>6. CASE b \in [kind : {"event"}, event : Event]
  <2>1. b.kind = "event" /\ b.event \in Row
    BY <1>6, Lists
  <2>2. Statements(b) = SingleEvent(b.event) /\ OldTextOf(b) = <<>>
    BY <2>1 DEF Statements, OldTextOf
  <2> QED
    BY <1>1, <2>1, <2>2, EventOrdered
<1>7. CASE b \in [kind : {"events"}, events : EventList]
  <2>1. b.kind = "events" /\ b.events \in Seq(Row)
    BY <1>7, Lists
  <2>2. Statements(b) = SeveralEvents(b.events) /\ OldTextOf(b) = <<>>
    BY <2>1 DEF Statements, OldTextOf
  <2> QED
    BY <1>1, <2>1, <2>2, EventsOrdered
<1>8. CASE b \in [kind : {"raw"}, message : RawText]
  <2>1. b.kind = "raw" /\ b.message \in Toks
    BY <1>8, Lists
  <2>2. Statements(b) = RawEvent(b.message) /\ OldTextOf(b) = <<>>
    BY <2>1 DEF Statements, OldTextOf
  <2> QED
    BY <1>1, <2>1, <2>2, RawOrdered
<1> QED
  BY <1>2, <1>3, <1>4, <1>5, <1>6, <1>7, <1>8 DEF Document, EventDocument

(* A document is begun, one statement is executed, a loop goes round.      *)
LEMMA SoundBuilding ==
  ASSUME NEW e, NEW q, NEW old \in Toks, Ordered(q), Begun(q), Sound(e, old, Slack(q))
  PROVE  Building(e, IF e.rc = "ok" THEN q ELSE <<>>, old)
<1>1. Ordered(<<>>)
  BY DEF Ordered
<1>2. CASE e.rc = "ok"
  BY <1>2 DEF Building, Sound
<1>3. CASE e.rc # "ok"
  BY <1>1, <1>3 DEF Building, Sound
<1> QED
  BY <1>2, <1>3

LEMMA StepBuilding ==
  ASSUME NEW d, NEW q, NEW old, Building(d, q, old), q # <<>>, ~IsLoop(Head(q))
  PROVE  LET e == Step(d, Head(q))
         IN  Building(e, IF e.rc = "ok" THEN Tail(q) ELSE <<>>, old)
<1> DEFINE s == Head(q)
           r == Tail(q)
           e == Step(d, s)
<1>1. d \in BufferType /\ Ordered(q) /\ old \in Toks /\ d.rc = "ok"
  BY DEF Building
<1>2. /\ s \in Statement /\ s = q[1] /\ Ordered(r)
      /\ Begun(q) => ~Begins(s) /\ Begun(r)
      /\ Begins(s) => Begun(r)
      /\ ~Begun(q) /\ ~Begins(s) => s.op = "room" /\ r # <<>> /\ Begins(r[1])
      /\ ~Shrinks(s) => Slack(r) = Slack(q)
      /\ Shrinks(s) => Slack(q) = 0 /\ Slack(r) = 1
  BY <1>1, TailOrdered
<1>3. Slack(q) \in 0 .. 1 /\ Slack(r) \in 0 .. 1
  BY DEF Slack
<1>4. s \in Written \cup Shrinking \cup Beginning
  BY <1>2, Kinds DEF Statement, Usual
<1> HIDE DEF s, r
<1>5. CASE Begun(q)
  <2>1. Under(d, Len(old), Slack(q)) /\ Begun(r) /\ ~Begins(s)
    BY <1>1, <1>2, <1>5 DEF Building
  <2>2. CASE s \in Written
    <3>1. Slack(r) = Slack(q)
      BY <1>2, <2>2, Kinds
    <3>2. Sound(e, old, Slack(r))
      BY <1>1, <1>3, <2>1, <2>2, <3>1, WrittenSound
    <3> QED
      BY <1>1, <1>2, <2>1, <3>2, SoundBuilding DEF s, r
  <2>3. CASE s \in Shrinking
    <3>1. Slack(q) = 0 /\ Slack(r) = 1
      BY <1>2, <2>3, Kinds
    <3>2. Sound(e, old, 1)
      BY <1>1, <2>1, <2>3, <3>1, ShrinkingSound
    <3> QED
      BY <1>1, <1>2, <2>1, <3>1, <3>2, SoundBuilding DEF s, r
  <2> QED
    BY <1>4, <2>1, <2>2, <2>3, Kinds
<1>6. CASE ~Begun(q)
  <2>1. /\ Unbegun(d, Len(old))
        /\ Begins(s) => d.remain >= d.size - Len(old)
    BY <1>1, <1>2, <1>6 DEF Building
  <2>2. CASE Begins(s)
    <3>1. s \in Beginning
      BY <1>4, <2>2, Kinds
    <3>2. s = over(s.toks) /\ s.toks \in Toks /\ Len(s.toks) >= 13
      BY <3>1 DEF Beginning, over
    <3>3. Sound(Step(d, over(s.toks)), old, Slack(r))
      BY <1>1, <1>3, <2>1, <2>2, <3>2, BeginSound
    <3>4. Sound(e, old, Slack(r))
      BY <3>2, <3>3
    <3> QED
      BY <1>1, <1>2, <2>2, <3>4, SoundBuilding DEF s, r
  <2>3. CASE ~Begins(s)
    <3>1. s.op = "room" /\ r # <<>> /\ Begins(r[1])
      BY <1>2, <1>6, <2>3
    <3>2. s = room
      <4>1. s \in Written
        BY <1>4, <3>1, Kinds
      <4> QED
        BY <3>1, <4>1 DEF Written, room
    <3>3. /\ e \in BufferType
          /\ e.rc = "ok" => Unbegun(e, Len(old)) /\ e.remain >= e.size - Len(old)
          /\ e.rc # "ok" => HalfFull(e, old)
      BY <1>1, <2>1, <3>2, UnbegunRoom
    <3>4. ~Begun(r)
      <4>1. r \in Seq(Statement)
        BY <1>2 DEF Ordered
      <4>2. 1 \in 1 .. Len(r)
        BY <3>1, <4>1
      <4> QED
        BY <3>1, <4>2 DEF Begun
    <3>5. Ordered(<<>>)
      BY DEF Ordered
    <3> HIDE DEF e
    <3>6. e.rc = "ok" => Building(e, r, old)
      BY <1>1, <1>2, <3>3, <3>4 DEF Building
    <3>7. e.rc # "ok" => Building(e, <<>>, old)
      BY <1>1, <3>3, <3>5 DEF Building
    <3>8. Building(e, IF e.rc = "ok" THEN r ELSE <<>>, old)
      BY <3>6, <3>7
    <3> QED
      BY <3>8 DEF e, s, r
  <2> QED
    BY <2>2, <2>3
<1> QED
  BY <1>5, <1>6

LEMMA RoundBuilding ==
  ASSUME NEW d, NEW q, NEW old, Building(d, q, old), q # <<>>, IsLoop(Head(q))
  PROVE  Building(d, Round(Head(q)) \o Tail(q), old)
<1> DEFINE s == Head(q)
           r == Tail(q)
           t == Round(s) \o r
<1>1. d \in BufferType /\ Ordered(q) /\ old \in Toks /\ d.rc = "ok"
  BY DEF Building
<1>2. /\ s \in Statement /\ Ordered(r)
      /\ Begun(q) => Begun(r)
      /\ ~Begun(q) /\ ~Begins(s) => s.op = "room"
      /\ ~Shrinks(s) => Slack(r) = Slack(q)
  BY <1>1, TailOrdered
<1>3. s \in Looped
  BY <1>2, Kinds DEF Statement, Usual
<1>4. Begun(q)
  BY <1>2, <1>3, Kinds
<1>5. Under(d, Len(old), Slack(q))
  BY <1>1, <1>4 DEF Building
<1>6. Round(s) \in Seq(Usual)
  BY <1>3, RoundUsual
<1>7. Ordered(t) /\ Begun(t) /\ Slack(t) = Slack(r)
  BY <1>2, <1>4, <1>6, PrefixOrdered
<1>8. Slack(r) = Slack(q)
  BY <1>2, <1>3, Kinds
<1> HIDE DEF t
<1>9. Building(d, t, old)
  BY <1>1, <1>5, <1>7, <1>8 DEF Building
<1> QED
  BY <1>9 DEF t, s, r

LEMMA BuildBuilding ==
  ASSUME NEW b \in Document \cup EventDocument, NEW size \in Sizes, Len(OldTextOf(b)) < size
  PROVE  Building(Buffer(StartText(b), size), Statements(b), OldTextOf(b))
<1> DEFINE old == OldTextOf(b)
           n == Len(old)
           d == Buffer(StartText(b), size)
           q == Statements(b)
<1>1. Ordered(q) /\ old \in Toks /\ (Begun(q) <=> b.kind \in {"report", "info"})
  BY StatementsOrdered
<1>2. size \in 1 .. WORD - 1 /\ WORD \in Nat
  BY TemplateAssumption, WordAssumption
<1>3. ASSUME NEW text \in Toks PROVE Buffer(text, size) \in BufferType
  BY <1>2, <1>3 DEF Buffer, BufferType
<1>4. Slack(q) \in 0 .. 1 /\ n \in Nat /\ n < size
  BY <1>1 DEF Slack, Toks
<1> HIDE DEF q
<1>5. CASE Begun(q)
  <2>1. b.kind \in {"report", "info"} /\ StartText(b) = EmptyJson /\ old = <<>>
    BY <1>1, <1>5 DEF StartText, OldTextOf
  <2>2. n = 0
    BY <2>1
  <2>3. /\ d \in BufferType /\ d.size = size /\ d.remain = size /\ d.rc = "ok"
        /\ d.over = (Len(EmptyJson) >= size) /\ d.text = EmptyJson
    BY <1>3, <2>1, EmptyJsonToks DEF Buffer
  <2> HIDE DEF d, n
  <2>4. CASE 13 < size
    <3> DEFINE longer == Len(EmptyJson) >= size
    <3>1. ~longer
      BY <1>2, <2>4, EmptyJsonToks
    <3> HIDE DEF longer
    <3>2. d.over = FALSE
      <4>1. d.over = longer
        BY <2>3, Zenon DEF longer
      <4>2. d.over \in BOOLEAN
        BY <2>3 DEF BufferType
      <4>3. d.over = TRUE => FALSE
        BY <3>1, <4>1, Zenon
      <4> QED
        BY <4>2, <4>3
    <3>3. Fits(d, n, Slack(q))
      BY <1>2, <1>4, <2>2, <2>3, <2>4, <3>2, EmptyJsonToks DEF Fits
    <3> QED
      BY <1>1, <1>2, <1>4, <1>5, <2>3, <3>3, EmptyJsonToks DEF Building, Under, n, old, d, q
  <2>5. CASE ~(13 < size)
    <3>1. Full(d, Slack(q))
      BY <1>2, <1>4, <2>3, <2>5, EmptyJsonToks DEF Full
    <3> QED
      BY <1>1, <1>2, <1>4, <1>5, <2>3, <3>1, EmptyJsonToks DEF Building, Under, n, old, d, q
  <2> QED
    BY <2>4, <2>5
<1>6. CASE ~Begun(q)
  <2>1. StartText(b) = old
    BY <1>1, <1>6 DEF StartText
  <2>2. /\ d \in BufferType /\ d.size = size /\ d.remain = size /\ d.rc = "ok"
        /\ d.over = (n >= size) /\ d.text = old
    BY <1>1, <1>3, <2>1 DEF Buffer
  <2> HIDE DEF d, n, old
  <2>3. d.over = FALSE
    <3> DEFINE longer == n >= size
    <3>1. ~longer
      BY <1>2, <1>4
    <3>2. d.over = longer
      BY <2>2, Zenon
    <3> HIDE DEF longer
    <3>3. d.over \in BOOLEAN
      BY <2>2 DEF BufferType
    <3>4. d.over = TRUE => FALSE
      BY <3>1, <3>2, Zenon
    <3> QED
      BY <3>3, <3>4
  <2>4. d.remain >= d.size - n
    BY <1>2, <1>4, <2>2
  <2>5. Unbegun(d, n)
    BY <1>2, <1>4, <2>2, <2>3 DEF Unbegun, n
  <2> QED
    BY <1>1, <1>6, <2>2, <2>4, <2>5 DEF Building, d, q, n, old
<1> QED
  BY <1>5, <1>6

(* Whatever is being built, a buffer that fails is full.                   *)
LEMMA BuildingSuffices ==
  ASSUME NEW d, NEW q, NEW old, Building(d, q, old), d.rc # "ok" \/ d.over
  PROVE  HalfFull(d, old)
<1>1. CASE d.rc # "ok"
  BY <1>1 DEF Building
<1>2. CASE d.rc = "ok"
  <2> DEFINE len == Len(d.text)
             size == d.size
             n == Len(old)
  <2>1. d.over # FALSE
    BY <1>2 DEF Building, BufferType
  <2>2. d \in BufferType /\ old \in Toks /\ Slack(q) \in 0 .. 1
    BY DEF Building, Slack
  <2>3. len \in Nat /\ size \in Nat /\ n \in Nat
    BY <2>2, WordAssumption DEF BufferType, Toks
  <2>4. Under(d, Len(old), Slack(q))
    BY <1>2, <2>1 DEF Building, Unbegun
  <2>5. Full(d, Slack(q))
    BY <2>1, <2>4 DEF Under, Fits
  <2>6. len >= size - Slack(q)
    BY <2>5 DEF Full
  <2> HIDE DEF len, size, n
  <2>7. size <= 2 * len + n + 2
    BY <2>2, <2>3, <2>6
  <2> QED
    BY <2>7 DEF HalfFull, len, size, n
<1> QED
  BY <1>1, <1>2

(* A document that is sent is one of the documents.                        *)
LEMMA SomeEventIsEvent == SomeEvent \in EventDocument /\ SomeEvent.kind = "event"
<1>1. PICK e : e \in Event
  BY TemplateAssumption
<1>2. [kind |-> "event", event |-> e] \in EventDocument
  BY <1>1 DEF EventDocument
<1>3. \E b \in EventDocument : b.kind = "event"
  BY <1>2
<1> QED
  BY <1>3 DEF SomeEvent

LEMMA BuildStep ==
  ASSUME NEW b \in Document \cup EventDocument, NEW size \in Sizes, Build(b, size)
  PROVE  BuildInv'
<1>1. Building(Buffer(StartText(b), size), Statements(b), OldTextOf(b))
  BY BuildBuilding DEF Build
<1>2. /\ jsonBuffer' = Buffer(StartText(b), size) /\ todo' = Statements(b)
      /\ built'.doc = b
  BY DEF Build
<1> QED
  BY <1>1, <1>2 DEF BuildInv

LEMMA ReturnedStep == ASSUME Returned PROVE BuildInv'
  BY DEF Returned, BuildInv, NoBuffer

LEMMA SilentStep == ASSUME Silent PROVE BuildInv'
  BY ReturnedStep DEF Silent

LEMMA RoundStep == ASSUME BuildInv, NextRound PROVE BuildInv'
<1>1. Building(jsonBuffer, todo, OldTextOf(built.doc))
  BY DEF BuildInv, NextRound
<1>2. Building(jsonBuffer, Round(Head(todo)) \o Tail(todo), OldTextOf(built.doc))
  BY <1>1, RoundBuilding DEF NextRound
<1>3. /\ todo' = Round(Head(todo)) \o Tail(todo) /\ jsonBuffer' = jsonBuffer
      /\ built' = built
  BY DEF NextRound
<1> QED
  BY <1>2, <1>3 DEF BuildInv

LEMMA WriteStepInv == ASSUME BuildInv, WriteStep PROVE BuildInv'
<1> DEFINE e == Step(jsonBuffer, Head(todo))
<1>1. Building(jsonBuffer, todo, OldTextOf(built.doc))
  BY DEF BuildInv, WriteStep
<1>2. Building(e, IF e.rc = "ok" THEN Tail(todo) ELSE <<>>, OldTextOf(built.doc))
  BY <1>1, StepBuilding DEF WriteStep
<1>3. /\ jsonBuffer' = e /\ built' = built
      /\ todo' = IF e.rc = "ok" THEN Tail(todo) ELSE <<>>
  BY DEF WriteStep
<1> HIDE DEF e
<1> QED
  BY <1>2, <1>3 DEF BuildInv

LEMMA BuildInit == TemplateInit => BuildInv
  BY DEF TemplateInit, BuildInv

LEMMA BuildNext == BuildInv /\ [TemplateNext]_templateVars => BuildInv'
<1> SUFFICES ASSUME BuildInv, [TemplateNext]_templateVars PROVE BuildInv'
  OBVIOUS
<1>1. CASE NextRound
  BY <1>1, RoundStep
<1>2. CASE WriteStep
  BY <1>2, WriteStepInv
<1>3. CASE Send
  <2>1. PICK b \in Document, size \in Sizes : Build(b, size)
    BY <1>3 DEF Send
  <2> QED
    BY <2>1, BuildStep
<1>4. CASE PostEvent
  <2>1. PICK b \in IF Idle THEN EventDocument ELSE {SomeEvent}, size \in Sizes : Build(b, size)
    BY <1>4 DEF PostEvent
  <2>2. b \in EventDocument
    BY SomeEventIsEvent
  <2> QED
    BY <2>1, <2>2, BuildStep
<1>5. CASE PublishEvent
  BY <1>5 DEF PublishEvent, BuildInv
<1>6. CASE CreateFails \/ OnEventReply \/ ExpireEvent \/ DropExpired
  BY <1>6, SilentStep DEF CreateFails, OnEventReply, ExpireEvent, DropExpired
<1>7. CASE RegisterProperty \/ RegisterAction \/ UnRegisterProperty \/ UnRegisterAction
  BY <1>7, SilentStep
     DEF RegisterProperty, RegisterAction, UnRegisterProperty, UnRegisterAction
<1>8. CASE OnControl \/ OnAction \/ OnCutLine \/ OnTopic
  BY <1>8, ReturnedStep DEF OnControl, OnAction, OnCutLine, OnTopic
<1>9. CASE UNCHANGED templateVars
  BY <1>9 DEF templateVars, BuildInv
<1> QED
  BY <1>1, <1>2, <1>3, <1>4, <1>5, <1>6, <1>7, <1>8, <1>9 DEF TemplateNext

LEMMA BuildSuffices == BuildInv => RoomSuffices
<1>1. CASE Building(jsonBuffer, todo, OldTextOf(built.doc))
  BY <1>1, BuildingSuffices DEF RoomSuffices
<1>2. CASE jsonBuffer = NoBuffer
  <2>1. jsonBuffer.rc = "ok" /\ jsonBuffer.over = (Len(<<>>) >= 1)
    BY <1>2 DEF NoBuffer, Buffer
  <2>2. ~(Len(<<>>) >= 1)
    OBVIOUS
  <2> QED
    BY <2>1, <2>2, Zenon DEF RoomSuffices
<1> QED
  BY <1>1, <1>2 DEF BuildInv

(* RoomSuffices, after any call and in the middle of it: whatever the      *)
(* properties, labels, events and raw texts are and however long their     *)
(* lists, whatever a buffer holds and however large it is, a construction  *)
(* that gives up or that writes behind its buffer has filled half of it.   *)
THEOREM RoomIsEnough == TemplateSpec => []RoomSuffices
<1>1. TemplateInit => BuildInv
  BY BuildInit
<1>2. BuildInv /\ [TemplateNext]_templateVars => BuildInv'
  BY BuildNext
<1>3. BuildInv => RoomSuffices
  BY BuildSuffices
<1> QED
  BY <1>1, <1>2, <1>3, PTL DEF TemplateSpec
=============================================================================
