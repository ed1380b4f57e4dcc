------------------------------- MODULE Network -------------------------------
(***************************************************************************)
(* src/module_at/module_api_inf.c as data_template_demo_task uses it: the  *)
(* application task joins the WiFi network and the MQTT server with a row  *)
(* of AT commands, waits for URCs the parser task reports in the word      *)
(* sg_flags, subscribes two topics and then publishes for ever.  Both      *)
(* tasks change sg_flags by load, modify and store, without a lock; the    *)
(* display task reads it to show whether the lamp is connected.            *)
(*                                                                         *)
(* A command is named for its call.  How it gets its answer is the subject *)
(* of AtClient; here an answer is handed over in one step, or times out.   *)
(* The module answers as the instruction set in docs/ says: OK or ERROR    *)
(* first, the outcome of a connection or subscription in a URC later.      *)
(***************************************************************************)
EXTENDS Naturals, Sequences

CONSTANTS MaxWire,   \* lines on their way from the module to the parser
          MaxEvents  \* connections the module loses or regains by itself

ASSUME BoundAssumption == MaxWire \in Nat \ {0} /\ MaxEvents \in Nat

Flag == {"MQTT_CON", "MQTT_SUB", "MQTT_STATE", "WIFI_CON"}
Topic == {"SUB_PROPERTY", "SUB_EVENT"}
Published == {"PUB", "PUBL"}
Call == {"ATE0", "GMR", "DEVINFO", "CWMODE", "CWJAP", "CONN", "QUERY"} \cup Topic
        \cup Published
Answer == {"none", "OK", "ERROR"}
Kind == {"OK", "ERROR", "CONN_OK", "CONN_FAIL", "RECONNECTED", "DISCON", "SUB_OK",
         "SUB_FAIL", "STATE_1", "STATE_0", "WIFI_CONNECTED", "WIFI_DISCONNECT"}
Line == [kind : Kind, of : Call \cup {"none"}]
Link == {"off", "on", "lost"}

VARIABLES
  sg_flags,    \* the flags that are set
  registered,  \* topics in sg_msg_handlers
  (* the application task: the call, its next statement, the value of      *)
  (* sg_flags it loaded, whether the call has failed, the answer it got    *)
  call, pc, loaded, failed, answer,
  (* the parser task: next statement, the line, the value it loaded        *)
  ppc, line, ploaded,
  (* the module: its links, confirmed subscriptions, the command it has    *)
  (* and the one whose outcome is still to come, lines not yet read        *)
  wifi, mqtt, confirmed, inbox, pending, wire,
  events,      \* links lost or regained so far
  (* history: flags reported since they were last cleared; flags a race or *)
  (* a URC taken for another has left wrong; the module has reported that  *)
  (* it is connected                                                       *)
  acked, wrong, reported

app == <<call, pc, loaded, failed, answer>>
parser == <<ppc, line, ploaded>>
module == <<wifi, mqtt, confirmed, inbox, pending, wire>>
history == <<acked, wrong, reported>>
vars == <<sg_flags, registered, app, parser, module, events, history>>

PC == {"enter", "load", "store", "send", "await", "wait", "reload", "restore", "return",
       "stopped"}

(* The module is reset at boot; it may join its last network by itself.    *)
Init == /\ sg_flags = {}
        /\ registered = {}
        /\ call = "ATE0"
        /\ pc = "enter"
        /\ loaded = {}
        /\ failed = FALSE
        /\ answer = "none"
        /\ ppc = "read"
        /\ line = [kind |-> "OK", of |-> "none"]
        /\ ploaded = {}
        /\ wifi \in {"off", "lost"}
        /\ mqtt = "off"
        /\ confirmed = {}
        /\ inbox = "none"
        /\ pending = "none"
        /\ wire = <<>>
        /\ events = 0
        /\ acked = {}
        /\ wrong = {}
        /\ reported = FALSE

Differ(S, T) == (S \ T) \cup (T \ S)
-----------------------------------------------------------------------------
(* What distinguishes the calls: the flag cleared before the command, the  *)
(* flag waited for after it, whether an error of the command counts: that  *)
(* of CWJAP and of a long publication does not.                            *)
Cleared(c) == CASE c \in {"CWMODE", "CWJAP"} -> {"WIFI_CON"}
                [] c = "CONN" -> {"MQTT_CON"}
                [] c \in Topic -> {"MQTT_SUB"}
                [] OTHER -> {}

Awaited(c) == IF c = "CWMODE" THEN {} ELSE Cleared(c)

Fails(c, a) == a # "OK" /\ c \notin {"CWJAP", "PUBL"}

(* register_sub_topic of module_mqtt_sub, which fails without memory; the  *)
(* other calls have no topic.  Faulty variants: the failure is ignored; a  *)
(* publication registers its topic too.                                    *)
EnterRegardless ==
    /\ pc = "enter"
    /\ \/ registered' = registered \cup ({call} \cap Topic)
       \/ call \in Topic /\ UNCHANGED registered
    /\ pc' = IF Cleared(call) = {} THEN "send" ELSE "load"
    /\ UNCHANGED <<sg_flags, call, loaded, failed, answer, parser, module, events, history>>
Enter ==
    /\ pc = "enter"
    /\ \/ /\ registered' = registered \cup ({call} \cap Topic)
          /\ pc' = IF Cleared(call) = {} THEN "send" ELSE "load"
          /\ UNCHANGED failed
       \/ /\ call \in Topic
          /\ failed' = TRUE
          /\ pc' = "return"
          /\ UNCHANGED registered
    /\ UNCHANGED <<sg_flags, call, loaded, answer, parser, module, events, history>>

(* clearFlag: the load, then the store of the modified value.  A           *)
(* subscription clears its flag once more at its end.                      *)
Load == /\ \/ pc = "load" /\ pc' = "store"
           \/ pc = "reload" /\ pc' = "restore"
        /\ loaded' = sg_flags
        /\ UNCHANGED <<sg_flags, registered, call, failed, answer, parser, module, events,
                       history>>

(* Faulty variant: the mask is not complemented.                           *)
StoreMasked == /\ \/ pc = "store" /\ pc' = "send"
                  \/ pc = "restore" /\ pc' = "return"
               /\ sg_flags' = loaded \cap Cleared(call)
               /\ acked' = acked \ Cleared(call)
               /\ wrong' = (wrong \cup Differ(sg_flags, loaded)) \ Cleared(call)
               /\ UNCHANGED <<registered, call, loaded, failed, answer, parser, module, events,
                              reported>>

Store == /\ \/ pc = "store" /\ pc' = "send"
            \/ pc = "restore" /\ pc' = "return"
         /\ sg_flags' = loaded \ Cleared(call)
         /\ acked' = acked \ Cleared(call)
         /\ wrong' = (wrong \cup Differ(sg_flags, loaded)) \ Cleared(call)
         /\ UNCHANGED <<registered, call, loaded, failed, answer, parser, module, events,
                        reported>>

AfterAnswer == IF Awaited(call) # {} THEN "wait" ELSE "return"

(* at_exec_cmd.  A module that still has a command loses this one.         *)
Sent == inbox' = IF inbox = "none" THEN call ELSE inbox

Send == /\ pc = "send"
        /\ Sent
        /\ answer' = "none"
        /\ pc' = "await"
        /\ UNCHANGED <<sg_flags, registered, call, loaded, failed, parser, wifi, mqtt,
                       confirmed, pending, wire, events, history>>

(* at_create_resp finds no memory: the handshake gives up; the other calls *)
(* send the command with a NULL response, so that nobody waits for its     *)
(* answer and it counts as answered.                                       *)
SendNoMemory ==
    /\ pc = "send"
    /\ \/ /\ call = "ATE0"
          /\ failed' = TRUE
          /\ pc' = "stopped"
          /\ UNCHANGED inbox
       \/ /\ call \notin {"ATE0", "GMR"}
          /\ Sent
          /\ pc' = AfterAnswer
          /\ UNCHANGED failed
    /\ UNCHANGED <<sg_flags, registered, call, loaded, answer, parser, wifi, mqtt, confirmed,
                   pending, wire, events, history>>

(* The answer, or none within CMD_TIMEOUT_MS.                              *)
Await == /\ pc = "await"
         /\ failed' = (failed \/ Fails(call, answer))
         /\ pc' = AfterAnswer
         /\ UNCHANGED <<sg_flags, registered, call, loaded, answer, parser, module, events,
                        history>>

AfterWait == IF call \in Topic THEN "reload" ELSE "return"

(* waitFlag sees the flag, or its time is up before it looks again.        *)
WaitSees == /\ pc = "wait"
            /\ Awaited(call) \subseteq sg_flags
            /\ pc' = AfterWait
            /\ UNCHANGED <<sg_flags, registered, call, loaded, failed, answer, parser,
                           module, events, history>>

WaitTimeout == /\ pc = "wait"
               /\ failed' = TRUE
               /\ pc' = AfterWait
               /\ UNCHANGED <<sg_flags, registered, call, loaded, answer, parser, module,
                              events, history>>

(* net_prepare, module_register_network, IOT_MQTT_IsConnected and          *)
(* IOT_Template_Construct: what follows a call.  The version is asked for  *)
(* whatever became of ATE0, the network joined whatever became of CWMODE,  *)
(* and the result of the first subscription is overwritten by the second.  *)
(* Then messages are published, long ones with PUBL.                       *)
Follows(c) == CASE c = "ATE0" -> {"GMR"}
                [] c = "GMR" -> {"DEVINFO"}
                [] c = "DEVINFO" -> {"CWMODE"}
                [] c = "CWMODE" -> {"CWJAP"}
                [] c = "CWJAP" -> {"CONN"}
                [] c = "CONN" -> {"QUERY"}
                [] c = "QUERY" -> {"SUB_PROPERTY"}
                [] c = "SUB_PROPERTY" -> {"SUB_EVENT"}
                [] OTHER -> Published

(* Faulty variant: the success of the query is taken for the connection.   *)
GoesOnUnasked == call \in {"ATE0", "CWMODE", "SUB_PROPERTY", "PUB"} \/ ~failed
GoesOn == \/ call \in {"ATE0", "CWMODE", "SUB_PROPERTY", "PUB"}
          \/ (~failed /\ (call = "QUERY" => "MQTT_STATE" \in sg_flags))

Return ==
    /\ pc = "return"
    /\ GoesOn
    /\ call' \in Follows(call)
    /\ pc' = "enter"
    /\ failed' = (call = "ATE0" /\ failed)
    /\ UNCHANGED <<sg_flags, registered, loaded, answer, parser, module, events, history>>

(* The task breaks out of its loop and deletes itself.  A publication that *)
(* fails ends it or not, depending on what is published.                   *)
Break ==
    /\ pc = "return"
    /\ ~GoesOn \/ (call = "PUB" /\ failed)
    /\ pc' = "stopped"
    /\ UNCHANGED <<sg_flags, registered, call, loaded, failed, answer, parser, module, events,
                   history>>
-----------------------------------------------------------------------------
(* The parser task.  The handlers of urc_table do not look at the outcome  *)
(* of a connection or subscription.  Faulty variant: a reconnection is not *)
(* in the table.                                                           *)
SetsNoReconnect(k) == CASE k \in {"CONN_OK", "CONN_FAIL"} -> {"MQTT_CON"}
                        [] k \in {"SUB_OK", "SUB_FAIL"} -> {"MQTT_SUB"}
                        [] k = "STATE_1" -> {"MQTT_STATE"}
                        [] k = "WIFI_CONNECTED" -> {"WIFI_CON"}
                        [] OTHER -> {}
Sets(k) == IF k = "RECONNECTED" THEN {"MQTT_CON"} ELSE SetsNoReconnect(k)

Clears(k) == CASE k = "DISCON" -> {"MQTT_CON"}
               [] k = "STATE_0" -> {"MQTT_STATE"}
               [] k = "WIFI_DISCONNECT" -> {"WIFI_CON"}
               [] OTHER -> {}

(* OK and ERROR complete the response of the call that waits for one.      *)
ReadAnswer == /\ ppc = "read"
              /\ wire # <<>>
              /\ Head(wire).kind \in {"OK", "ERROR"}
              /\ wire' = Tail(wire)
              /\ answer' = IF pc = "await" THEN Head(wire).kind ELSE answer
              /\ UNCHANGED <<sg_flags, registered, call, pc, loaded, failed, parser, wifi,
                             mqtt, confirmed, inbox, pending, events, history>>

(* A URC: setFlag or clearFlag, the load and the store.                    *)
ReadUrc == /\ ppc = "read"
           /\ wire # <<>>
           /\ Head(wire).kind \notin {"OK", "ERROR"}
           /\ line' = Head(wire)
           /\ wire' = Tail(wire)
           /\ ploaded' = sg_flags
           /\ ppc' = "store"
           /\ UNCHANGED <<sg_flags, registered, app, wifi, mqtt, confirmed, inbox, pending,
                          events, history>>

(* The line does not mean what its handler takes it for.                   *)
Misread == \/ line.kind \in {"CONN_FAIL", "SUB_FAIL"}
           \/ line.kind = "SUB_OK" /\ line.of # call

HandledWith(value) ==
    /\ ppc = "store"
    /\ sg_flags' = value
    /\ ppc' = "read"
    /\ LET own == Sets(line.kind) \cup Clears(line.kind)
       IN wrong' = ((wrong \cup Differ(sg_flags, ploaded)) \ own)
                   \cup (IF Misread THEN own ELSE {})
    /\ acked' = (acked \cup Sets(line.kind)) \ Clears(line.kind)
    /\ reported' = (reported \/ line.kind = "STATE_1")
    /\ UNCHANGED <<registered, app, line, ploaded, module, events>>

(* Faulty variant: setFlag assigns the flag.                               *)
HandleAssigns == HandledWith(IF Sets(line.kind) # {} THEN Sets(line.kind)
                             ELSE ploaded \ Clears(line.kind))
Handle == HandledWith((ploaded \cup Sets(line.kind)) \ Clears(line.kind))
-----------------------------------------------------------------------------
(* The module.                                                             *)

Room(n) == Len(wire) + n <= MaxWire
Says(k, c) == [kind |-> k, of |-> c]

(* Commands that are answered at once, and any command that is refused.    *)
Reply == /\ inbox # "none" /\ pending = "none"
         /\ Room(1)
         /\ \/ /\ inbox \notin {"CWJAP", "CONN", "QUERY"} \cup Topic
               /\ wire' = Append(wire, Says("OK", inbox))
            \/ wire' = Append(wire, Says("ERROR", inbox))
         /\ inbox' = "none"
         /\ UNCHANGED <<sg_flags, registered, app, parser, wifi, mqtt, confirmed, pending,
                        events, history>>

(* A command the module does not understand, or loses, has no answer.      *)
Silent == /\ inbox # "none"
          /\ inbox' = "none"
          /\ UNCHANGED <<sg_flags, registered, app, parser, wifi, mqtt, confirmed, pending,
                         wire, events, history>>

(* CWJAP leaves the present network, joins, and then says OK.              *)
Leave == /\ inbox = "CWJAP" /\ wifi = "on"
         /\ Room(1)
         /\ wifi' = "off"
         /\ wire' = Append(wire, Says("WIFI_DISCONNECT", "CWJAP"))
         /\ UNCHANGED <<sg_flags, registered, app, parser, mqtt, confirmed, inbox, pending,
                        events, history>>

Join == /\ inbox = "CWJAP" /\ wifi # "on"
        /\ Room(2)
        /\ wifi' = "on"
        /\ wire' = wire \o <<Says("WIFI_CONNECTED", "CWJAP"), Says("OK", "CWJAP")>>
        /\ inbox' = "none"
        /\ UNCHANGED <<sg_flags, registered, app, parser, mqtt, confirmed, pending, events,
                       history>>

State == /\ inbox = "QUERY" /\ pending = "none"
         /\ Room(2)
         /\ wire' = wire \o <<Says(IF mqtt = "on" THEN "STATE_1" ELSE "STATE_0", "QUERY"),
                              Says("OK", "QUERY")>>
         /\ inbox' = "none"
         /\ UNCHANGED <<sg_flags, registered, app, parser, wifi, mqtt, confirmed, pending,
                        events, history>>

(* CONN and SUB are accepted with OK; the server's answer comes later.     *)
Accept == /\ pending = "none"
          /\ \/ inbox = "CONN" /\ mqtt # "on"
             \/ inbox \in Topic /\ mqtt = "on"
          /\ Room(1)
          /\ wire' = Append(wire, Says("OK", inbox))
          /\ pending' = inbox
          /\ inbox' = "none"
          /\ UNCHANGED <<sg_flags, registered, app, parser, wifi, mqtt, confirmed, events,
                         history>>

Succeed == /\ pending # "none" /\ wifi = "on"
           /\ Room(1)
           /\ IF pending = "CONN"
              THEN /\ mqtt' = "on"
                   /\ wire' = Append(wire, Says("CONN_OK", "CONN"))
                   /\ UNCHANGED confirmed
              ELSE /\ confirmed' = confirmed \cup {pending}
                   /\ wire' = Append(wire, Says("SUB_OK", pending))
                   /\ UNCHANGED mqtt
           /\ pending' = "none"
           /\ UNCHANGED <<sg_flags, registered, app, parser, wifi, inbox, events, history>>

Fail == /\ pending # "none"
        /\ Room(1)
        /\ wire' = Append(wire, Says(IF pending = "CONN" THEN "CONN_FAIL" ELSE "SUB_FAIL",
                                     pending))
        /\ pending' = "none"
        /\ UNCHANGED <<sg_flags, registered, app, parser, wifi, mqtt, confirmed, inbox,
                       events, history>>

(* A link breaks, or one that was up comes back.                           *)
Flip(link) == IF link = "on" THEN "lost" ELSE "on"

WifiEvent == /\ wifi # "off"
             /\ events < MaxEvents /\ Room(1)
             /\ events' = events + 1
             /\ wifi' = Flip(wifi)
             /\ wire' = Append(wire, Says(IF wifi = "on" THEN "WIFI_DISCONNECT"
                                          ELSE "WIFI_CONNECTED", "none"))
             /\ UNCHANGED <<sg_flags, registered, app, parser, mqtt, confirmed, inbox,
                            pending, history>>

MqttEvent == /\ mqtt # "off"
             /\ events < MaxEvents /\ Room(1)
             /\ events' = events + 1
             /\ mqtt' = Flip(mqtt)
             /\ wire' = Append(wire, Says(IF mqtt = "on" THEN "DISCON" ELSE "RECONNECTED",
                                          "none"))
             /\ UNCHANGED <<sg_flags, registered, app, parser, wifi, confirmed, inbox,
                            pending, history>>
-----------------------------------------------------------------------------
App == \/ Enter \/ Load \/ Store \/ Send \/ SendNoMemory \/ Await \/ WaitSees
       \/ WaitTimeout \/ Return \/ Break
Parser == ReadAnswer \/ ReadUrc \/ Handle
Module == \/ Reply \/ Silent \/ Leave \/ Join \/ State \/ Accept \/ Succeed \/ Fail
          \/ WifiEvent \/ MqttEvent
Next == App \/ Parser \/ Module
Spec == Init /\ [][Next]_vars
-----------------------------------------------------------------------------
TypeOK == /\ sg_flags \subseteq Flag
          /\ registered \subseteq Topic
          /\ call \in Call
          /\ pc \in PC
          /\ loaded \subseteq Flag
          /\ failed \in BOOLEAN
          /\ answer \in Answer
          /\ ppc \in {"read", "store"}
          /\ line \in Line
          /\ ploaded \subseteq Flag
          /\ wifi \in Link
          /\ mqtt \in Link
          /\ confirmed \subseteq Topic
          /\ inbox \in Call \cup {"none"}
          /\ pending \in Topic \cup {"CONN", "none"}
          /\ wire \in Seq(Line) /\ Len(wire) <= MaxWire
          /\ events \in 0 .. MaxEvents
          /\ acked \subseteq Flag
          /\ wrong \subseteq Flag
          /\ reported \in BOOLEAN

(* A report a call waits for is not lost: from the moment it has cleared   *)
(* its flag and sends its command, the flag is set if the URC has been     *)
(* handled, whatever other flags the parser task changes meanwhile         *)
(* (clearFlag before at_exec_cmd, module_api_inf.c:464, 592, 692).         *)
AckIsSeen ==
    pc \in {"send", "await", "wait"} => Awaited(call) \cap acked \subseteq sg_flags

(* What the lamp displays (user_task.c:373) is so: once the parser has     *)
(* read all lines, the connection flags agree with the module's links,     *)
(* unless a race on sg_flags or a failure taken for a success has left the *)
(* flag wrong, and no URC has reported on it since.                        *)
Joining == {"ATE0", "GMR", "DEVINFO", "CWMODE", "CWJAP"}
DisplayIsTrue ==
    wire = <<>> /\ ppc = "read" =>
      /\ "MQTT_CON" \in wrong \/ ("MQTT_CON" \in sg_flags <=> mqtt = "on")
      /\ call \in Joining \/ "WIFI_CON" \in wrong \/ ("WIFI_CON" \in sg_flags <=> wifi = "on")

(* A subscription that succeeds has been confirmed by the server, unless a *)
(* late URC of the subscription before, a refusal, or a race has set the   *)
(* flag (module_mqtt_sub, module_api_inf.c:592-617).                       *)
SuccessIsConfirmed ==
    pc = "reload" /\ ~failed /\ "MQTT_SUB" \notin wrong => call \in confirmed

(* Every topic the server sends messages of has a handler: a topic whose   *)
(* registration fails is not subscribed (module_api_inf.c:584).            *)
SubscribedIsHandled == confirmed \subseteq registered

(* The data template is constructed only after the module has reported     *)
(* that it is connected, however late its answers come                     *)
(* (IOT_MQTT_IsConnected, module_api_inf.c:666).                           *)
ConstructedWhenReported == call \in Topic \cup Published => reported
=============================================================================
