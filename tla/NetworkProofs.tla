---------------------------- MODULE NetworkProofs ----------------------------
(***************************************************************************)
(* Theorems about Network, for every length of the wire and any number of  *)
(* links lost.  Each property has an invariant of its own: where a         *)
(* property speaks of sg_flags, the invariant speaks of the copies the two *)
(* tasks hold between load and store as well.                              *)
(***************************************************************************)
EXTENDS Network, TLAPS

Wanted == Awaited(call) \cap acked

AckInv == pc \in {"send", "await", "wait"} =>
            /\ Wanted \subseteq sg_flags
            /\ ppc = "store" => Wanted \subseteq ploaded

TopicInv == /\ confirmed \subseteq registered
            /\ {inbox, pending} \cap Topic \subseteq registered
            /\ pc \in {"load", "store", "send"} => {call} \cap Topic \subseteq registered

ReportInv == /\ "MQTT_STATE" \in sg_flags \cup loaded \cup ploaded => reported
             /\ call \in Topic \cup Published => reported

(* A line that reports a subscription is true; a set flag that is waited   *)
(* for reports the subscription of this call, unless it is wrong.          *)
TrueLine(l) == l.kind = "SUB_OK" => l.of \in confirmed
Confirmed == "MQTT_SUB" \in wrong \/ call \in confirmed

ConfirmInv ==
  /\ \A i \in DOMAIN wire : TrueLine(wire[i])
  /\ TrueLine(line)
  /\ pc \in {"send", "await", "wait"} /\ call \in Topic /\ "MQTT_SUB" \in sg_flags => Confirmed
  /\ pc = "reload" /\ ~failed => Confirmed

(* The flags, calls and lines the types are made of.                       *)
LEMMA FlagsOfCall == ASSUME NEW c PROVE Cleared(c) \subseteq Flag
  BY DEF Cleared, Flag

LEMMA FlagsOfLine == ASSUME NEW k PROVE Sets(k) \subseteq Flag /\ Clears(k) \subseteq Flag
  BY DEF Sets, SetsNoReconnect, Clears, Flag

LEMMA FollowsIsCall == ASSUME NEW c PROVE Follows(c) \subseteq Call
  BY DEF Follows, Call, Topic, Published

LEMMA SaysIsLine ==
  ASSUME NEW k \in Kind, NEW c \in Call \cup {"none"}
  PROVE  Says(k, c) \in Line
  BY DEF Says, Line

(* What is left of the wire, and what there is room for.                   *)
LEMMA ReadWire ==
  ASSUME TypeOK, wire # <<>>
  PROVE  /\ Head(wire) \in Line
         /\ Tail(wire) \in Seq(Line) /\ Len(Tail(wire)) <= MaxWire
  BY BoundAssumption DEF TypeOK

LEMMA WriteOne ==
  ASSUME TypeOK, Room(1), NEW l \in Line
  PROVE  Append(wire, l) \in Seq(Line) /\ Len(Append(wire, l)) <= MaxWire
  BY DEF TypeOK, Room

LEMMA WriteTwo ==
  ASSUME TypeOK, Room(2), NEW k \in Line, NEW l \in Line
  PROVE  wire \o <<k, l>> \in Seq(Line) /\ Len(wire \o <<k, l>>) <= MaxWire
  BY DEF TypeOK, Room

LEMMA TypeInit == Init => TypeOK
<1> SUFFICES ASSUME Init PROVE TypeOK
  OBVIOUS
<1>1. line \in Line
  BY DEF Init, Line, Kind
<1>2. wire \in Seq(Line) /\ Len(wire) <= MaxWire /\ events \in 0 .. MaxEvents
  BY BoundAssumption DEF Init
<1>3. call \in Call /\ pc \in PC /\ answer \in Answer /\ wifi \in Link /\ mqtt \in Link
  BY DEF Init, Call, PC, Answer, Link
<1>4. failed \in BOOLEAN /\ reported \in BOOLEAN
  BY DEF Init
<1> QED BY <1>1, <1>2, <1>3, <1>4 DEF Init, TypeOK

LEMMA TypeStep == TypeOK /\ [Next]_vars => TypeOK'
<1> SUFFICES ASSUME TypeOK, [Next]_vars PROVE TypeOK'
  OBVIOUS
<1> USE DEF TypeOK
<1>1. CASE Enter
  BY <1>1 DEF Enter, parser, module, history, PC
<1>2. CASE Load
  BY <1>2 DEF Load, parser, module, history, PC
<1>3. CASE Store
  BY <1>3 DEF Store, Differ, parser, module, PC
<1>4. CASE Send \/ SendNoMemory
  BY <1>4 DEF Send, SendNoMemory, Sent, AfterAnswer, parser, history, PC, Answer
<1>5. CASE Await \/ WaitSees \/ WaitTimeout
  BY <1>5 DEF Await, WaitSees, WaitTimeout, AfterAnswer, AfterWait, Fails, parser, module,
              history, PC
<1>6. CASE Return \/ Break
  BY <1>6, FollowsIsCall DEF Return, Break, parser, module, history, PC
<1>7. CASE ReadAnswer
  BY <1>7, ReadWire DEF ReadAnswer, parser, history, Answer
<1>8. CASE ReadUrc
  BY <1>8, ReadWire DEF ReadUrc, app, history
<1>9. CASE Handle
  <2>1. /\ Sets(line.kind) \subseteq Flag /\ Clears(line.kind) \subseteq Flag
        /\ Differ(sg_flags, ploaded) \subseteq Flag
    BY FlagsOfLine DEF Differ
  <2>2. wrong' \subseteq Flag
    BY <1>9, <2>1 DEF Handle, HandledWith
  <2> QED BY <1>9, <2>1, <2>2 DEF Handle, HandledWith, app, module
<1>10. CASE Reply
  <2>1. Says("OK", inbox) \in Line /\ Says("ERROR", inbox) \in Line
    BY SaysIsLine DEF Kind
  <2> QED BY <1>10, <2>1, WriteOne DEF Reply, app, parser, history
<1>11. CASE Silent
  BY <1>11 DEF Silent, app, parser, history
<1>12. CASE Leave
  <2>1. Says("WIFI_DISCONNECT", "CWJAP") \in Line
    BY SaysIsLine DEF Kind, Call
  <2> QED BY <1>12, <2>1, WriteOne DEF Leave, app, parser, history, Link
<1>13. CASE Join
  <2>1. Says("WIFI_CONNECTED", "CWJAP") \in Line /\ Says("OK", "CWJAP") \in Line
    BY SaysIsLine DEF Kind, Call
  <2> QED BY <1>13, <2>1, WriteTwo DEF Join, app, parser, history, Link
<1>14. CASE State
  <2>1. /\ Says(IF mqtt = "on" THEN "STATE_1" ELSE "STATE_0", "QUERY") \in Line
        /\ Says("OK", "QUERY") \in Line
    BY SaysIsLine DEF Kind, Call
  <2> QED BY <1>14, <2>1, WriteTwo DEF State, app, parser, history
<1>15. CASE Accept
  <2>1. Says("OK", inbox) \in Line
    BY SaysIsLine DEF Kind
  <2> QED BY <1>15, <2>1, WriteOne DEF Accept, app, parser, history
<1>16. CASE Succeed
  <2>1. Says("CONN_OK", "CONN") \in Line /\ Says("SUB_OK", pending) \in Line
    BY SaysIsLine DEF Kind, Call
  <2> QED BY <1>16, <2>1, WriteOne DEF Succeed, app, parser, history, Link
<1>17. CASE Fail
  <2>1. Says(IF pending = "CONN" THEN "CONN_FAIL" ELSE "SUB_FAIL", pending) \in Line
    BY SaysIsLine DEF Kind, Call
  <2> QED BY <1>17, <2>1, WriteOne DEF Fail, app, parser, history
<1>18. CASE WifiEvent
  <2>1. Says(IF wifi = "on" THEN "WIFI_DISCONNECT" ELSE "WIFI_CONNECTED", "none") \in Line
    BY SaysIsLine DEF Kind
  <2>2. events' \in 0 .. MaxEvents
    BY <1>18, BoundAssumption DEF WifiEvent
  <2> QED BY <1>18, <2>1, <2>2, WriteOne DEF WifiEvent, Flip, app, parser, history, Link
<1>19. CASE MqttEvent
  <2>1. Says(IF mqtt = "on" THEN "DISCON" ELSE "RECONNECTED", "none") \in Line
    BY SaysIsLine DEF Kind
  <2>2. events' \in 0 .. MaxEvents
    BY <1>19, BoundAssumption DEF MqttEvent
  <2> QED BY <1>19, <2>1, <2>2, WriteOne DEF MqttEvent, Flip, app, parser, history, Link
<1>20. CASE UNCHANGED vars
  BY <1>20 DEF vars, app, parser, module, history
<1> QED BY <1>1, <1>2, <1>3, <1>4, <1>5, <1>6, <1>7, <1>8, <1>9, <1>10, <1>11, <1>12, <1>13,
           <1>14, <1>15, <1>16, <1>17, <1>18, <1>19, <1>20 DEF Next, App, Parser, Module

(* Every variable of Network keeps its type; in particular no line is      *)
(* written to a full wire, and the handlers of module_api_inf.c:69-295     *)
(* touch only the flags they are for.                                      *)
THEOREM TypeCorrect == Spec => []TypeOK
  BY TypeInit, TypeStep, PTL DEF Spec
-----------------------------------------------------------------------------
(* A flag waited for was cleared before.                                   *)
LEMMA AwaitedIsCleared == ASSUME NEW c PROVE Awaited(c) \subseteq Cleared(c)
  BY DEF Awaited

(* The only line that sets the state flag is the report of a connection.   *)
LEMMA StateIsReport == ASSUME NEW k, "MQTT_STATE" \in Sets(k) PROVE k = "STATE_1"
  BY DEF Sets, SetsNoReconnect

LEMMA ConfirmInit == Init => ConfirmInv
  BY DEF Init, ConfirmInv, TrueLine

LEMMA TrueRead ==
  ASSUME TypeOK, \A i \in DOMAIN wire : TrueLine(wire[i]), wire # <<>>
  PROVE  /\ TrueLine(Head(wire))
         /\ \A i \in DOMAIN Tail(wire) : TrueLine(Tail(wire)[i])
<1>1. wire \in Seq(Line)
  BY DEF TypeOK
<1>2. 1 \in DOMAIN wire /\ Head(wire) = wire[1]
  BY <1>1
<1>3. \A i \in DOMAIN Tail(wire) : i + 1 \in DOMAIN wire /\ Tail(wire)[i] = wire[i + 1]
  BY <1>1
<1> QED BY <1>2, <1>3

LEMMA AckInit == Init => AckInv
  BY DEF Init, AckInv

LEMMA TopicInit == Init => TopicInv
  BY DEF Init, TopicInv, Topic

LEMMA ReportInit == Init => ReportInv
  BY DEF Init, ReportInv, Topic, Published
-----------------------------------------------------------------------------
LEMMA AckStep == AckInv /\ [Next]_vars => AckInv'
<1> SUFFICES ASSUME AckInv, [Next]_vars PROVE AckInv'
  OBVIOUS
<1> USE DEF AckInv, Wanted
<1>1. CASE Enter
  <2>1. pc' = "send" => Awaited(call) = {}
    BY <1>1, AwaitedIsCleared DEF Enter
  <2> QED BY <1>1, <2>1 DEF Enter, history
<1>2. CASE Load
  BY <1>2 DEF Load
<1>3. CASE Store
  <2>1. Awaited(call) \cap acked' = {}
    BY <1>3, AwaitedIsCleared DEF Store
  <2> QED BY <1>3, <2>1 DEF Store, parser
<1>4. CASE Send \/ SendNoMemory
  BY <1>4 DEF Send, SendNoMemory, history, parser, AfterAnswer
<1>5. CASE Await \/ WaitSees \/ WaitTimeout
  BY <1>5 DEF Await, WaitSees, WaitTimeout, history, parser, AfterAnswer, AfterWait
<1>6. CASE Return \/ Break
  BY <1>6 DEF Return, Break
<1>7. CASE ReadAnswer
  BY <1>7 DEF ReadAnswer, history, parser
<1>8. CASE ReadUrc
  BY <1>8 DEF ReadUrc, history, app
<1>9. CASE Handle
  <2>1. /\ acked' = (acked \cup Sets(line.kind)) \ Clears(line.kind)
        /\ sg_flags' = (ploaded \cup Sets(line.kind)) \ Clears(line.kind)
        /\ ppc = "store" /\ ppc' = "read"
        /\ call' = call /\ pc' = pc
    BY <1>9 DEF Handle, HandledWith, app
  <2> QED BY <2>1
<1>10. CASE Module
  BY <1>10 DEF Module, Reply, Silent, Leave, Join, State, Accept, Succeed, Fail, WifiEvent,
               MqttEvent, app, parser, history
<1>11. CASE UNCHANGED vars
  BY <1>11 DEF vars, app, parser, history
<1> QED BY <1>1, <1>2, <1>3, <1>4, <1>5, <1>6, <1>7, <1>8, <1>9, <1>10, <1>11
        DEF Next, App, Parser

LEMMA TopicStep == TypeOK /\ TopicInv /\ [Next]_vars => TopicInv'
<1> SUFFICES ASSUME TypeOK, TopicInv, [Next]_vars PROVE TopicInv'
  OBVIOUS
<1> USE DEF TopicInv
<1>1. CASE Enter
  BY <1>1 DEF Enter, module
<1>2. CASE Load \/ Store
  BY <1>2 DEF Load, Store, module
<1>3. CASE Send \/ SendNoMemory
  BY <1>3 DEF Send, SendNoMemory, Sent, AfterAnswer
<1>4. CASE Await \/ WaitSees \/ WaitTimeout \/ Return \/ Break
  BY <1>4 DEF Await, WaitSees, WaitTimeout, Return, Break, AfterAnswer, AfterWait, module
<1>5. CASE Parser
  BY <1>5 DEF Parser, ReadAnswer, ReadUrc, Handle, HandledWith, app, module
<1>6. CASE Accept
  BY <1>6 DEF Accept, app
<1>7. CASE Succeed
  <2>1. pending \notin Topic => pending = "CONN"
    BY <1>7 DEF Succeed, TypeOK
  <2> QED BY <1>7, <2>1 DEF Succeed, app, Topic
<1>8. CASE Reply \/ Silent \/ Leave \/ Join \/ State \/ Fail \/ WifiEvent \/ MqttEvent
  BY <1>8 DEF Reply, Silent, Leave, Join, State, Fail, WifiEvent, MqttEvent, app, Topic
<1>9. CASE UNCHANGED vars
  BY <1>9 DEF vars, app, module
<1> QED BY <1>1, <1>2, <1>3, <1>4, <1>5, <1>6, <1>7, <1>8, <1>9 DEF Next, App, Module

LEMMA ReportStep == TypeOK /\ ReportInv /\ [Next]_vars => ReportInv'
<1> SUFFICES ASSUME TypeOK, ReportInv, [Next]_vars PROVE ReportInv'
  OBVIOUS
<1> USE DEF ReportInv
<1>1. CASE Return
  <2>1. call' \in Topic \cup Published => call = "QUERY" \/ call \in Topic \cup Published
    BY <1>1 DEF Return, Follows, Call, Topic, Published, TypeOK
  <2>2. call = "QUERY" => "MQTT_STATE" \in sg_flags
    BY <1>1 DEF Return, GoesOn
  <2> QED BY <1>1, <2>1, <2>2 DEF Return, parser, history
<1>2. CASE Enter \/ Load \/ Store
  BY <1>2 DEF Enter, Load, Store, parser, history
<1>3. CASE Send \/ SendNoMemory \/ Await \/ WaitSees \/ WaitTimeout \/ Break
  BY <1>3 DEF Send, SendNoMemory, Await, WaitSees, WaitTimeout, Break, parser, history
<1>4. CASE ReadAnswer \/ ReadUrc
  BY <1>4 DEF ReadAnswer, ReadUrc, parser, app, history
<1>5. CASE Handle
  BY <1>5, StateIsReport DEF Handle, HandledWith, app
<1>6. CASE Module
  BY <1>6 DEF Module, Reply, Silent, Leave, Join, State, Accept, Succeed, Fail, WifiEvent,
              MqttEvent, app, parser, history
<1>7. CASE UNCHANGED vars
  BY <1>7 DEF vars, app, parser, history
<1> QED BY <1>1, <1>2, <1>3, <1>4, <1>5, <1>6, <1>7 DEF Next, App, Parser
-----------------------------------------------------------------------------
LEMMA ConfirmApp == TypeOK /\ ConfirmInv /\ App => ConfirmInv'
<1> SUFFICES ASSUME TypeOK, ConfirmInv, App PROVE ConfirmInv'
  OBVIOUS
<1>1. wire' = wire /\ line' = line /\ confirmed' = confirmed
  BY DEF App, Enter, Load, Store, Send, SendNoMemory, Await, WaitSees, WaitTimeout, Return,
         Break, parser, module
<1>2. /\ \A i \in DOMAIN wire' : TrueLine(wire[i])'
      /\ TrueLine(line)'
  BY <1>1 DEF ConfirmInv, TrueLine
<1>3. ASSUME pc' \in {"send", "await", "wait"}, call' \in Topic, "MQTT_SUB" \in sg_flags'
      PROVE  Confirmed'
  <2>1. CASE Store
    BY <1>3, <2>1 DEF Store, Cleared
  <2>2. CASE Enter
    BY <1>3, <2>2 DEF Enter, Cleared, Topic
  <2>3. CASE ~Store /\ ~Enter
    BY <1>1, <1>3, <2>3 DEF App, Load, Send, SendNoMemory, Await, WaitSees, WaitTimeout, Return,
       Break, AfterAnswer, AfterWait, ConfirmInv, Confirmed, history
  <2> QED BY <2>1, <2>2, <2>3
<1>4. ASSUME pc' = "reload", ~failed' PROVE Confirmed'
  <2>1. WaitSees
    BY <1>4 DEF App, Enter, Load, Store, Send, SendNoMemory, Await, WaitTimeout, Return, Break,
       AfterAnswer
  <2>2. call \in Topic /\ "MQTT_SUB" \in Awaited(call)
    BY <1>4, <2>1 DEF WaitSees, AfterWait, Awaited, Cleared, Topic
  <2> QED BY <2>1, <2>2 DEF WaitSees, ConfirmInv, Confirmed, history, module
<1> QED BY <1>2, <1>3, <1>4 DEF ConfirmInv

LEMMA ConfirmHandle == TypeOK /\ ConfirmInv /\ Handle => ConfirmInv'
<1> SUFFICES ASSUME TypeOK, ConfirmInv, Handle PROVE ConfirmInv'
  OBVIOUS
<1>1. /\ sg_flags' = (ploaded \cup Sets(line.kind)) \ Clears(line.kind)
      /\ UNCHANGED <<pc, call, failed, line, wire, confirmed>>
  BY DEF Handle, HandledWith, app, module
<1>2. /\ \A i \in DOMAIN wire' : TrueLine(wire[i])'
      /\ TrueLine(line)'
  BY <1>1 DEF ConfirmInv, TrueLine
<1>3. CASE "MQTT_SUB" \in Sets(line.kind)
  <2>1. line.kind \in {"SUB_OK", "SUB_FAIL"}
    BY <1>3 DEF Sets, SetsNoReconnect
  <2>2. Misread => "MQTT_SUB" \in wrong'
    BY <1>3 DEF Handle, HandledWith
  <2>3. ~Misread => call \in confirmed
    BY <2>1 DEF Misread, ConfirmInv, TrueLine
  <2> QED BY <1>1, <1>2, <2>2, <2>3 DEF ConfirmInv, Confirmed
<1>4. CASE "MQTT_SUB" \notin Sets(line.kind)
  <2>1. "MQTT_SUB" \notin Clears(line.kind)
    BY DEF Clears
  <2>2. "MQTT_SUB" \in wrong \cup Differ(sg_flags, ploaded) => "MQTT_SUB" \in wrong'
    BY <1>4, <2>1 DEF Handle, HandledWith
  <2>3. "MQTT_SUB" \in sg_flags' => "MQTT_SUB" \in sg_flags \cup Differ(sg_flags, ploaded)
    BY <1>1, <1>4 DEF Differ
  <2> QED BY <1>1, <1>2, <2>2, <2>3 DEF ConfirmInv, Confirmed
<1> QED BY <1>3, <1>4

LEMMA ConfirmRead == TypeOK /\ ConfirmInv /\ (ReadAnswer \/ ReadUrc) => ConfirmInv'
<1> SUFFICES ASSUME TypeOK, ConfirmInv, ReadAnswer \/ ReadUrc PROVE ConfirmInv'
  OBVIOUS
<1>1. /\ wire # <<>> /\ wire' = Tail(wire)
      /\ line' \in {line, Head(wire)}
      /\ UNCHANGED <<pc, call, failed, sg_flags, confirmed, wrong>>
  BY DEF ReadAnswer, ReadUrc, app, parser, history
<1>2. TrueLine(Head(wire)) /\ \A i \in DOMAIN Tail(wire) : TrueLine(Tail(wire)[i])
  BY <1>1, TrueRead DEF ConfirmInv
<1>3. \A i \in DOMAIN wire' : TrueLine(wire[i])'
  BY <1>1, <1>2 DEF TrueLine
<1>4. TrueLine(line)'
  BY <1>1, <1>2 DEF ConfirmInv, TrueLine
<1> QED BY <1>1, <1>3, <1>4 DEF ConfirmInv, Confirmed

LEMMA ConfirmModule == TypeOK /\ ConfirmInv /\ Module => ConfirmInv'
<1> SUFFICES ASSUME TypeOK, ConfirmInv, Module PROVE ConfirmInv'
  OBVIOUS
<1>1. /\ UNCHANGED <<pc, call, failed, sg_flags, line, wrong>>
      /\ confirmed \subseteq confirmed'
  BY DEF Module, Reply, Silent, Leave, Join, State, Accept, Succeed, Fail, WifiEvent, MqttEvent,
         app, parser, history
<1>2. ASSUME NEW l, l.kind # "SUB_OK" \/ l.of \in confirmed', wire' = Append(wire, l)
      PROVE  \A i \in DOMAIN wire' : TrueLine(wire[i])'
  <2>1. wire \in Seq(Line)
    BY DEF TypeOK
  <2>2. \A i \in DOMAIN wire' : wire'[i] = l \/ (i \in DOMAIN wire /\ wire'[i] = wire[i])
    BY <1>2, <2>1
  <2> QED BY <1>1, <1>2, <2>2 DEF ConfirmInv, TrueLine
<1>3. ASSUME NEW k \in Line, NEW l \in Line, k.kind # "SUB_OK", l.kind # "SUB_OK",
             wire' = wire \o <<k, l>>
      PROVE  \A i \in DOMAIN wire' : TrueLine(wire[i])'
  <2>1. wire \in Seq(Line) /\ <<k, l>> \in Seq(Line) /\ Len(<<k, l>>) = 2
    BY DEF TypeOK
  <2>2. DOMAIN wire' = 1 .. Len(wire) + 2
    BY <1>3, <2>1
  <2>3. ASSUME NEW i \in 1 .. Len(wire) PROVE i \in DOMAIN wire /\ wire'[i] = wire[i]
    BY <1>3, <2>1
  <2>4. wire'[Len(wire) + 1] = k /\ wire'[Len(wire) + 2] = l
    BY <1>3, <2>1
  <2>5. \A i \in 1 .. Len(wire) + 2 : i \in 1 .. Len(wire) \/ i = Len(wire) + 1 \/ i = Len(wire) + 2
    BY <2>1
  <2> QED BY <1>1, <1>3, <2>2, <2>3, <2>4, <2>5 DEF ConfirmInv, TrueLine
<1>4. CASE Silent
  BY <1>1, <1>4 DEF Silent, ConfirmInv, Confirmed, TrueLine
<1>5. CASE ~Silent
  <2>1. \A i \in DOMAIN wire' : TrueLine(wire[i])'
    <3>1. CASE Reply
      BY <1>2, <3>1 DEF Reply, Says
    <3>2. CASE Leave
      BY <1>2, <3>2 DEF Leave, Says
    <3>3. CASE Join
      <4>1. Says("WIFI_CONNECTED", "CWJAP") \in Line /\ Says("OK", "CWJAP") \in Line
        BY SaysIsLine DEF Kind, Call
      <4> QED BY <1>3, <3>3, <4>1 DEF Join, Says
    <3>4. CASE State
      <4> DEFINE report == IF mqtt = "on" THEN "STATE_1" ELSE "STATE_0"
      <4>1. Says(report, "QUERY") \in Line /\ Says("OK", "QUERY") \in Line
        BY SaysIsLine DEF Kind, Call
      <4>2. Says(report, "QUERY").kind # "SUB_OK" /\ Says("OK", "QUERY").kind # "SUB_OK"
        BY DEF Says
      <4> QED BY <1>3, <3>4, <4>1, <4>2 DEF State
    <3>5. CASE Accept
      BY <1>2, <3>5 DEF Accept, Says
    <3>6. CASE Succeed
      BY <1>2, <3>6 DEF Succeed, Says
    <3>7. CASE Fail
      BY <1>2, <3>7 DEF Fail, Says
    <3>8. CASE WifiEvent
      BY <1>2, <3>8 DEF WifiEvent, Says
    <3>9. CASE MqttEvent
      BY <1>2, <3>9 DEF MqttEvent, Says
    <3> QED BY <1>5, <3>1, <3>2, <3>3, <3>4, <3>5, <3>6, <3>7, <3>8, <3>9 DEF Module
  <2> QED BY <1>1, <2>1 DEF ConfirmInv, Confirmed, TrueLine
<1> QED BY <1>4, <1>5

LEMMA ConfirmStep == TypeOK /\ ConfirmInv /\ [Next]_vars => ConfirmInv'
<1>1. UNCHANGED vars /\ ConfirmInv => ConfirmInv'
  BY DEF vars, app, parser, module, history, ConfirmInv, Confirmed, TrueLine
<1> QED BY <1>1, ConfirmApp, ConfirmHandle, ConfirmRead, ConfirmModule DEF Next, Parser
-----------------------------------------------------------------------------
(* What the lines under way say of a link, where K are the kinds of lines  *)
(* that report it: the last of them is true, or a refusal.                 *)
MqttKinds == {"CONN_OK", "CONN_FAIL", "RECONNECTED", "DISCON"}
WifiKinds == {"WIFI_CONNECTED", "WIFI_DISCONNECT"}

Tells(k, link) == k = "CONN_FAIL" \/ (Sets(k) # {} <=> link = "on")
Quiet(w, K) == \A i \in DOMAIN w : w[i].kind \notin K
LastTrue(w, K, link) ==
  \A i \in DOMAIN w :
    /\ w[i].kind \in K
    /\ \A j \in DOMAIN w : j > i => w[j].kind \notin K
    => Tells(w[i].kind, link)

InHand(K) == ppc = "store" /\ line.kind \in K
LineInv(K, link) ==
  /\ LastTrue(wire, K, link)
  /\ Quiet(wire, K) /\ InHand(K) => Tells(line.kind, link)
AllRead(K) == Quiet(wire, K) /\ ~InHand(K)

MqttShown == "MQTT_CON" \in wrong \/ ("MQTT_CON" \in sg_flags <=> mqtt = "on")

(* While the lamp joins, its flag may be clear though WiFi is connected.   *)
Joined == call \notin Joining \/ (call = "CWJAP" /\ pc = "return" /\ ~failed)
WifiShown == \/ "WIFI_CON" \in wrong
             \/ /\ "WIFI_CON" \in sg_flags => wifi = "on"
                /\ Joined /\ wifi = "on" => "WIFI_CON" \in sg_flags

(* The flag of MQTT is cleared before the first connection.                *)
CallInv ==
  /\ pc \in {"reload", "restore"} => call \in Topic
  /\ call \in Joining \/ (call = "CONN" /\ pc \in {"enter", "load", "store"}) =>
       mqtt = "off" /\ inbox # "CONN" /\ pending # "CONN"

DisplayInv ==
  /\ LineInv(MqttKinds, mqtt) /\ LineInv(WifiKinds, wifi)
  /\ AllRead(MqttKinds) => MqttShown
  /\ AllRead(WifiKinds) => WifiShown

LEMMA AppendLast ==
  ASSUME NEW w \in Seq(Line), NEW l \in Line, NEW K, NEW link, NEW next,
         LastTrue(w, K, link),
         (l.kind \notin K /\ next = link) \/ (l.kind \in K /\ Tells(l.kind, next))
  PROVE  /\ LastTrue(Append(w, l), K, next)
         /\ Quiet(Append(w, l), K) => Quiet(w, K) /\ next = link
<1> DEFINE v == Append(w, l)
<1>1. /\ DOMAIN w = 1 .. Len(w) /\ DOMAIN v = 1 .. Len(w) + 1 /\ Len(w) \in Nat
      /\ v[Len(w) + 1] = l
      /\ \A i \in 1 .. Len(w) : v[i] = w[i]
  OBVIOUS
<1>2. Len(w) + 1 \in DOMAIN v /\ DOMAIN w \subseteq DOMAIN v
  BY <1>1
<1>3. Quiet(v, K) => l.kind \notin K /\ Quiet(w, K)
  BY <1>1, <1>2 DEF Quiet
<1>4. ASSUME NEW i \in DOMAIN v, v[i].kind \in K, \A j \in DOMAIN v : j > i => v[j].kind \notin K
      PROVE  Tells(v[i].kind, next)
  <2>1. CASE i = Len(w) + 1
    BY <1>1, <1>4, <2>1
  <2>2. CASE i \in DOMAIN w
    <3>1. Len(w) + 1 > i
      BY <1>1, <2>2
    <3>2. l.kind \notin K /\ next = link
      BY <1>1, <1>2, <1>4, <3>1
    <3>3. w[i].kind \in K /\ v[i] = w[i]
      BY <1>1, <1>4, <2>2
    <3>4. \A j \in DOMAIN w : j > i => w[j].kind \notin K
      BY <1>1, <1>2, <1>4
    <3> QED BY <2>2, <3>2, <3>3, <3>4 DEF LastTrue
  <2> QED BY <1>1, <2>1, <2>2
<1>5. LastTrue(v, K, next)
  BY <1>4 DEF LastTrue
<1> QED BY <1>3, <1>5

LEMMA TailLast ==
  ASSUME NEW w \in Seq(Line), w # <<>>, NEW K, NEW link, LastTrue(w, K, link)
  PROVE  /\ LastTrue(Tail(w), K, link)
         /\ Quiet(w, K) => Quiet(Tail(w), K)
         /\ Quiet(Tail(w), K) => Quiet(w, K) \/ (Head(w).kind \in K /\ Tells(Head(w).kind, link))
<1> DEFINE v == Tail(w)
<1>1. /\ DOMAIN w = 1 .. Len(w) /\ DOMAIN v = 1 .. Len(w) - 1
      /\ Len(w) \in Nat /\ Len(w) > 0 /\ Head(w) = w[1]
      /\ \A i \in 1 .. Len(w) - 1 : v[i] = w[i + 1]
  OBVIOUS
<1>2. \A i \in DOMAIN v : i + 1 \in DOMAIN w /\ v[i] = w[i + 1]
  BY <1>1
<1>3. \A j \in DOMAIN w : j = 1 \/ (j - 1 \in DOMAIN v /\ v[j - 1] = w[j])
  <2> SUFFICES ASSUME NEW j \in 1 .. Len(w), j # 1
               PROVE  j - 1 \in 1 .. Len(w) - 1 /\ v[j - 1] = w[j]
    BY <1>1
  <2>1. j - 1 \in 1 .. Len(w) - 1 /\ (j - 1) + 1 = j
    BY <1>1
  <2> QED BY <1>1, <2>1
<1>4. ASSUME NEW i \in DOMAIN v, v[i].kind \in K, \A j \in DOMAIN v : j > i => v[j].kind \notin K
      PROVE  Tells(v[i].kind, link)
  <2>1. i \in Nat /\ i + 1 \in DOMAIN w /\ w[i + 1].kind \in K
    BY <1>1, <1>2, <1>4
  <2>2. ASSUME NEW j \in DOMAIN w, j > i + 1 PROVE w[j].kind \notin K
    <3>1. j - 1 > i /\ j # 1
      BY <1>1, <2>1, <2>2
    <3> QED BY <1>3, <1>4, <3>1
  <2>3. Tells(w[i + 1].kind, link)
    BY <2>1, <2>2 DEF LastTrue
  <2> QED BY <1>2, <2>3
<1>5. LastTrue(v, K, link)
  BY <1>4 DEF LastTrue
<1>6. Quiet(w, K) => Quiet(v, K)
  BY <1>2 DEF Quiet
<1>7. ASSUME Quiet(v, K), Head(w).kind \in K PROVE Tells(Head(w).kind, link)
  <2>1. 1 \in DOMAIN w /\ w[1].kind \in K
    BY <1>1, <1>7
  <2>2. ASSUME NEW j \in DOMAIN w, j > 1 PROVE w[j].kind \notin K
    <3>1. j - 1 \in DOMAIN v /\ v[j - 1] = w[j]
      BY <1>3, <2>2
    <3> QED BY <1>7, <3>1 DEF Quiet
  <2> QED BY <1>1, <2>1, <2>2 DEF LastTrue
<1>8. ASSUME Quiet(v, K), Head(w).kind \notin K PROVE Quiet(w, K)
  BY <1>1, <1>3, <1>8 DEF Quiet
<1> QED BY <1>5, <1>6, <1>7, <1>8

(* What the module may do to the lines of a link and the link.             *)
Reported(K, link, next) ==
  /\ LastTrue(wire', K, next)
  /\ Quiet(wire', K) => Quiet(wire, K) /\ next = link

LEMMA OneLine ==
  ASSUME TypeOK, NEW l \in Line, wire' = Append(wire, l), NEW K, NEW link, NEW next,
         LastTrue(wire, K, link),
         (l.kind \notin K /\ next = link) \/ (l.kind \in K /\ Tells(l.kind, next))
  PROVE  Reported(K, link, next)
<1>1. wire \in Seq(Line)
  BY DEF TypeOK
<1> QED BY <1>1, AppendLast DEF Reported

LEMMA LineAndOk ==
  ASSUME TypeOK, NEW l \in Line, NEW k \in Line, wire' = wire \o <<l, k>>,
         NEW K, NEW link, NEW next, LastTrue(wire, K, link), k.kind \notin K,
         (l.kind \notin K /\ next = link) \/ (l.kind \in K /\ Tells(l.kind, next))
  PROVE  Reported(K, link, next)
<1>1. wire \in Seq(Line) /\ Append(wire, l) \in Seq(Line)
  BY DEF TypeOK
<1>2. wire' = Append(Append(wire, l), k)
  BY <1>1
<1>3. /\ LastTrue(Append(wire, l), K, next)
      /\ Quiet(Append(wire, l), K) => Quiet(wire, K) /\ next = link
  BY <1>1, AppendLast
<1> DEFINE v == Append(wire, l)
<1>4. v \in Seq(Line) /\ LastTrue(v, K, next)
  BY <1>1, <1>3
<1> HIDE DEF v
<1>5. /\ LastTrue(Append(v, k), K, next)
      /\ Quiet(Append(v, k), K) => Quiet(v, K)
  BY <1>4, AppendLast
<1> QED BY <1>2, <1>3, <1>5 DEF Reported, v

LEMMA ModuleReports ==
  ASSUME TypeOK, DisplayInv, CallInv, Module
  PROVE  Reported(MqttKinds, mqtt, mqtt') /\ Reported(WifiKinds, wifi, wifi')
<1> USE DEF Says, MqttKinds, WifiKinds
<1>1. LastTrue(wire, MqttKinds, mqtt) /\ LastTrue(wire, WifiKinds, wifi)
  BY DEF DisplayInv, LineInv
<1>2. CASE Reply
  <2>1. PICK a \in {"OK", "ERROR"} : wire' = Append(wire, Says(a, inbox))
    BY <1>2 DEF Reply
  <2>2. Says(a, inbox) \in Line /\ mqtt' = mqtt /\ wifi' = wifi
    BY <1>2, SaysIsLine DEF Reply, Kind, TypeOK
  <2> QED BY <1>1, <2>1, <2>2, OneLine
<1>3. CASE Silent
  BY <1>1, <1>3 DEF Silent, Reported
<1>4. CASE Leave
  <2>1. /\ wire' = Append(wire, Says("WIFI_DISCONNECT", "CWJAP"))
        /\ wifi' = "off" /\ mqtt' = mqtt
    BY <1>4 DEF Leave
  <2>2. Says("WIFI_DISCONNECT", "CWJAP") \in Line /\ Tells("WIFI_DISCONNECT", wifi')
    BY <2>1, SaysIsLine DEF Kind, Call, Tells, Sets, SetsNoReconnect
  <2> QED BY <1>1, <2>1, <2>2, OneLine
<1>5. CASE Join
  <2>1. /\ wire' = wire \o <<Says("WIFI_CONNECTED", "CWJAP"), Says("OK", "CWJAP")>>
        /\ wifi' = "on" /\ mqtt' = mqtt
    BY <1>5 DEF Join
  <2>2. /\ Says("WIFI_CONNECTED", "CWJAP") \in Line /\ Says("OK", "CWJAP") \in Line
        /\ Tells("WIFI_CONNECTED", wifi')
    BY <2>1, SaysIsLine DEF Kind, Call, Tells, Sets, SetsNoReconnect
  <2> QED BY <1>1, <2>1, <2>2, LineAndOk
<1>6. CASE State
  <2>1. PICK r \in {"STATE_1", "STATE_0"} :
          wire' = wire \o <<Says(r, "QUERY"), Says("OK", "QUERY")>>
    BY <1>6 DEF State
  <2>2. /\ Says(r, "QUERY") \in Line /\ Says("OK", "QUERY") \in Line
        /\ mqtt' = mqtt /\ wifi' = wifi
    BY <1>6, SaysIsLine DEF State, Kind, Call
  <2> QED BY <1>1, <2>1, <2>2, LineAndOk
<1>7. CASE Accept
  <2>1. /\ wire' = Append(wire, Says("OK", inbox)) /\ Says("OK", inbox) \in Line
        /\ mqtt' = mqtt /\ wifi' = wifi
    BY <1>7, SaysIsLine DEF Accept, Kind, TypeOK
  <2> QED BY <1>1, <2>1, OneLine
<1>8. CASE Succeed
  <2>1. CASE pending = "CONN"
    <3>1. /\ wire' = Append(wire, Says("CONN_OK", "CONN")) /\ Says("CONN_OK", "CONN") \in Line
          /\ mqtt' = "on" /\ wifi' = wifi /\ Tells("CONN_OK", mqtt')
      BY <1>8, <2>1, SaysIsLine DEF Succeed, Kind, Call, Tells, Sets, SetsNoReconnect
    <3> QED BY <1>1, <3>1, OneLine
  <2>2. CASE pending # "CONN"
    <3>1. /\ wire' = Append(wire, Says("SUB_OK", pending)) /\ Says("SUB_OK", pending) \in Line
          /\ mqtt' = mqtt /\ wifi' = wifi
      BY <1>8, <2>2, SaysIsLine DEF Succeed, Kind, Call, TypeOK
    <3> QED BY <1>1, <3>1, OneLine
  <2> QED BY <2>1, <2>2
<1>9. CASE Fail
  <2>1. PICK r \in {"CONN_FAIL", "SUB_FAIL"} : wire' = Append(wire, Says(r, pending))
    BY <1>9 DEF Fail
  <2>2. /\ Says(r, pending) \in Line /\ mqtt' = mqtt /\ wifi' = wifi
        /\ r = "SUB_FAIL" \/ Tells(r, mqtt')
    BY <1>9, SaysIsLine DEF Fail, Kind, Call, TypeOK, Tells
  <2> QED BY <1>1, <2>1, <2>2, OneLine
<1>10. CASE WifiEvent
  <2> DEFINE r == IF wifi = "on" THEN "WIFI_DISCONNECT" ELSE "WIFI_CONNECTED"
  <2>1. /\ wire' = Append(wire, Says(r, "none")) /\ Says(r, "none") \in Line
        /\ mqtt' = mqtt
    BY <1>10, SaysIsLine DEF WifiEvent, Kind
  <2>2. Tells(r, wifi')
    BY <1>10 DEF WifiEvent, Flip, Tells, Sets, SetsNoReconnect
  <2> QED BY <1>1, <2>1, <2>2, OneLine
<1>11. CASE MqttEvent
  <2> DEFINE r == IF mqtt = "on" THEN "DISCON" ELSE "RECONNECTED"
  <2>1. /\ wire' = Append(wire, Says(r, "none")) /\ Says(r, "none") \in Line
        /\ wifi' = wifi
    BY <1>11, SaysIsLine DEF MqttEvent, Kind
  <2>2. Tells(r, mqtt')
    BY <1>11 DEF MqttEvent, Flip, Tells, Sets, SetsNoReconnect
  <2> QED BY <1>1, <2>1, <2>2, OneLine
<1> QED BY <1>2, <1>3, <1>4, <1>5, <1>6, <1>7, <1>8, <1>9, <1>10, <1>11 DEF Module

LEMMA DisplayModule == TypeOK /\ CallInv /\ DisplayInv /\ Module => DisplayInv'
<1> SUFFICES ASSUME TypeOK, CallInv, DisplayInv, Module PROVE DisplayInv'
  OBVIOUS
<1>1. UNCHANGED <<sg_flags, wrong, ppc, line, call, pc, failed>>
  BY DEF Module, Reply, Silent, Leave, Join, State, Accept, Succeed, Fail, WifiEvent, MqttEvent,
         app, parser, history
<1>2. Reported(MqttKinds, mqtt, mqtt') /\ Reported(WifiKinds, wifi, wifi')
  BY ModuleReports
<1>3. LineInv(MqttKinds, mqtt)' /\ LineInv(WifiKinds, wifi)'
  BY <1>1, <1>2 DEF DisplayInv, LineInv, Reported, InHand
<1>4. (AllRead(MqttKinds) => MqttShown)'
  BY <1>1, <1>2 DEF DisplayInv, Reported, AllRead, InHand, MqttShown
<1>5. (AllRead(WifiKinds) => WifiShown)'
  BY <1>1, <1>2 DEF DisplayInv, Reported, AllRead, InHand, WifiShown, Joined
<1> QED BY <1>3, <1>4, <1>5 DEF DisplayInv

LEMMA DisplayRead == TypeOK /\ DisplayInv /\ (ReadAnswer \/ ReadUrc) => DisplayInv'
<1> SUFFICES ASSUME TypeOK, DisplayInv, ReadAnswer \/ ReadUrc PROVE DisplayInv'
  OBVIOUS
<1>1. /\ wire # <<>> /\ wire' = Tail(wire) /\ ppc = "read"
      /\ UNCHANGED <<sg_flags, wrong, call, pc, failed, wifi, mqtt>>
  BY DEF ReadAnswer, ReadUrc, app, history
<1>2. wire \in Seq(Line)
  BY DEF TypeOK
<1>3. ASSUME NEW K \in {MqttKinds, WifiKinds}
      PROVE  InHand(K)' <=> Head(wire).kind \in K
  BY <1>1, <1>3 DEF ReadAnswer, ReadUrc, InHand, MqttKinds, WifiKinds, parser
<1>4. ASSUME NEW K \in {MqttKinds, WifiKinds}, NEW link, LastTrue(wire, K, link)
      PROVE  /\ LastTrue(wire', K, link)
             /\ Quiet(wire', K) /\ InHand(K)' => Tells(line'.kind, link)
             /\ AllRead(K)' => AllRead(K)
  <2>1. InHand(K)' => line' = Head(wire)
    BY <1>1 DEF InHand, ReadAnswer, ReadUrc, parser
  <2>2. ~InHand(K)
    BY <1>1 DEF InHand
  <2> DEFINE h == Head(wire)
  <2>3. /\ LastTrue(wire', K, link)
        /\ Quiet(wire', K) => Quiet(wire, K) \/ (h.kind \in K /\ Tells(h.kind, link))
    BY <1>1, <1>2, <1>4, TailLast
  <2>4. Quiet(wire, K) => h.kind \notin K
    BY <1>1, <1>2 DEF Quiet
  <2> QED BY <1>3, <2>1, <2>2, <2>3, <2>4 DEF AllRead
<1>5. LineInv(MqttKinds, mqtt)' /\ LineInv(WifiKinds, wifi)'
  BY <1>1, <1>4 DEF DisplayInv, LineInv
<1>6. (AllRead(MqttKinds) => MqttShown)' /\ (AllRead(WifiKinds) => WifiShown)'
  BY <1>1, <1>4 DEF DisplayInv, LineInv, MqttShown, WifiShown, Joined
<1> QED BY <1>5, <1>6 DEF DisplayInv

LEMMA DisplayHandle == TypeOK /\ DisplayInv /\ Handle => DisplayInv'
<1> SUFFICES ASSUME TypeOK, DisplayInv, Handle PROVE DisplayInv'
  OBVIOUS
<1>1. /\ UNCHANGED <<wire, line, call, pc, failed, wifi, mqtt>>
      /\ ppc = "store" /\ ppc' = "read"
      /\ sg_flags' = (ploaded \cup Sets(line.kind)) \ Clears(line.kind)
  BY DEF Handle, HandledWith, app, module
<1> DEFINE own == Sets(line.kind) \cup Clears(line.kind)
<1>2. wrong' = ((wrong \cup Differ(sg_flags, ploaded)) \ own) \cup (IF Misread THEN own ELSE {})
  BY DEF Handle, HandledWith
<1>3. LineInv(MqttKinds, mqtt)' /\ LineInv(WifiKinds, wifi)'
  BY <1>1 DEF DisplayInv, LineInv, InHand
<1>4. ASSUME NEW f, f \notin own, f \notin wrong'
      PROVE  f \notin wrong /\ (f \in sg_flags' <=> f \in sg_flags)
  BY <1>1, <1>2, <1>4 DEF Differ
<1>5. (AllRead(MqttKinds) => MqttShown)'
  <2> SUFFICES ASSUME Quiet(wire, MqttKinds), "MQTT_CON" \notin wrong'
               PROVE  "MQTT_CON" \in sg_flags' <=> mqtt = "on"
    BY <1>1 DEF AllRead, MqttShown
  <2>1. CASE line.kind \in MqttKinds
    <3>1. Tells(line.kind, mqtt)
      BY <1>1, <2>1 DEF DisplayInv, LineInv, InHand
    <3>2. line.kind # "CONN_FAIL"
      <4>1. line.kind = "CONN_FAIL" => Misread /\ "MQTT_CON" \in own
        BY DEF Misread, Sets, SetsNoReconnect
      <4> QED BY <1>2, <4>1
    <3>3. /\ Sets(line.kind) # {} => "MQTT_CON" \in Sets(line.kind) /\ Clears(line.kind) = {}
          /\ Sets(line.kind) = {} => "MQTT_CON" \in Clears(line.kind)
      BY <2>1 DEF MqttKinds, Sets, SetsNoReconnect, Clears
    <3> QED BY <1>1, <3>1, <3>2, <3>3 DEF Tells
  <2>2. CASE line.kind \notin MqttKinds
    <3>1. "MQTT_CON" \notin own
      BY <2>2 DEF MqttKinds, Sets, SetsNoReconnect, Clears
    <3>2. MqttShown
      BY <2>2 DEF DisplayInv, AllRead, InHand
    <3> QED BY <1>4, <3>1, <3>2 DEF MqttShown
  <2> QED BY <2>1, <2>2
<1>6. (AllRead(WifiKinds) => WifiShown)'
  <2> SUFFICES ASSUME Quiet(wire, WifiKinds), "WIFI_CON" \notin wrong'
               PROVE  /\ "WIFI_CON" \in sg_flags' => wifi = "on"
                      /\ Joined /\ wifi = "on" => "WIFI_CON" \in sg_flags'
    BY <1>1 DEF AllRead, WifiShown, Joined
  <2>1. CASE line.kind \in WifiKinds
    <3>1. Tells(line.kind, wifi)
      BY <1>1, <2>1 DEF DisplayInv, LineInv, InHand
    <3>2. /\ line.kind # "CONN_FAIL"
          /\ Sets(line.kind) # {} => "WIFI_CON" \in Sets(line.kind) /\ Clears(line.kind) = {}
          /\ Sets(line.kind) = {} => "WIFI_CON" \in Clears(line.kind)
      BY <2>1 DEF WifiKinds, Sets, SetsNoReconnect, Clears
    <3> QED BY <1>1, <3>1, <3>2 DEF Tells
  <2>2. CASE line.kind \notin WifiKinds
    <3>1. "WIFI_CON" \notin own
      BY <2>2 DEF WifiKinds, Sets, SetsNoReconnect, Clears
    <3>2. WifiShown
      BY <2>2 DEF DisplayInv, AllRead, InHand
    <3> QED BY <1>4, <3>1, <3>2 DEF WifiShown
  <2> QED BY <2>1, <2>2
<1> QED BY <1>3, <1>5, <1>6 DEF DisplayInv

LEMMA DisplayApp == TypeOK /\ CallInv /\ DisplayInv /\ App => DisplayInv'
<1> SUFFICES ASSUME TypeOK, CallInv, DisplayInv, App PROVE DisplayInv'
  OBVIOUS
<1>1. UNCHANGED <<wire, line, ppc, wifi, mqtt>>
  BY DEF App, Enter, Load, Store, Send, SendNoMemory, Await, WaitSees, WaitTimeout, Return,
         Break, parser, module
<1>2. LineInv(MqttKinds, mqtt)' /\ LineInv(WifiKinds, wifi)'
  BY <1>1 DEF DisplayInv, LineInv, InHand
<1>3. /\ AllRead(MqttKinds)' <=> AllRead(MqttKinds)
      /\ AllRead(WifiKinds)' <=> AllRead(WifiKinds)
  BY <1>1 DEF AllRead, InHand
<1>4. CASE Store
  <2>1. /\ sg_flags' = loaded \ Cleared(call)
        /\ wrong' = (wrong \cup Differ(sg_flags, loaded)) \ Cleared(call)
        /\ call' = call /\ failed' = failed
    BY <1>4 DEF Store
  <2>2. ASSUME NEW f, f \notin Cleared(call), f \notin wrong'
        PROVE  f \notin wrong /\ (f \in sg_flags' <=> f \in sg_flags)
    BY <2>1, <2>2 DEF Differ
  <2>3. MqttShown => MqttShown'
    <3>1. CASE "MQTT_CON" \in Cleared(call)
      <4>1. call = "CONN" /\ pc = "store"
        BY <1>4, <3>1 DEF Cleared, CallInv, Store, Topic
      <4>2. mqtt = "off"
        BY <4>1 DEF CallInv
      <4> QED BY <1>1, <2>1, <3>1, <4>2 DEF MqttShown
    <3>2. CASE "MQTT_CON" \notin Cleared(call)
      BY <1>1, <2>2, <3>2 DEF MqttShown
    <3> QED BY <3>1, <3>2
  <2>4. WifiShown => WifiShown'
    <3>1. CASE "WIFI_CON" \in Cleared(call)
      <4>1. call \in {"CWMODE", "CWJAP"}
        BY <3>1 DEF Cleared
      <4>2. pc' = "send"
        BY <1>4, <4>1 DEF Store, CallInv, Topic
      <4> QED BY <2>1, <3>1, <4>1, <4>2 DEF WifiShown, Joined, Joining
    <3>2. CASE "WIFI_CON" \notin Cleared(call)
      <4>1. call # "CWJAP"
        BY <3>2 DEF Cleared, Topic
      <4> QED BY <1>1, <2>1, <2>2, <3>2, <4>1 DEF WifiShown, Joined
    <3> QED BY <3>1, <3>2
  <2> QED BY <1>2, <1>3, <2>3, <2>4 DEF DisplayInv
<1>5. CASE ~Store
  <2>1. UNCHANGED <<sg_flags, wrong>>
    BY <1>5 DEF App, Enter, Load, Send, SendNoMemory, Await, WaitSees, WaitTimeout, Return,
           Break, history
  <2>2. MqttShown => MqttShown'
    BY <1>1, <2>1 DEF MqttShown
  <2>3. Joined' => Joined \/ "WIFI_CON" \in sg_flags
    <3>1. CASE Return
      <4>1. call' \notin Joining => call \notin Joining \/ call = "CWJAP"
        BY <3>1 DEF Return, Follows, Joining
      <4>2. call = "CWJAP" => ~failed
        BY <3>1 DEF Return, GoesOn
      <4> QED BY <3>1, <4>1, <4>2 DEF Return, Joined
    <3>2. CASE WaitSees
      BY <3>2 DEF WaitSees, Joined, Joining, Awaited, Cleared, Topic
    <3>3. CASE Enter
      BY <3>3 DEF Enter, Joined, Cleared, Topic
    <3>4. CASE Load \/ Break
      BY <3>4 DEF Load, Break, Joined
    <3>5. CASE Send \/ SendNoMemory \/ Await \/ WaitTimeout
      BY <3>5 DEF Send, SendNoMemory, Await, WaitTimeout, Joined, AfterAnswer, AfterWait, Awaited,
                  Cleared
    <3> QED BY <1>5, <3>1, <3>2, <3>3, <3>4, <3>5 DEF App
  <2>4. WifiShown => WifiShown'
    BY <1>1, <2>1, <2>3 DEF WifiShown
  <2> QED BY <1>2, <1>3, <2>2, <2>4 DEF DisplayInv
<1> QED BY <1>4, <1>5

LEMMA CallStep == TypeOK /\ CallInv /\ [Next]_vars => CallInv'
<1> SUFFICES ASSUME TypeOK, CallInv, [Next]_vars PROVE CallInv'
  OBVIOUS
<1> USE DEF CallInv
<1>1. CASE Return
  <2>1. /\ call' \in Joining => call \in Joining
        /\ call' = "CONN" => call \in Joining
    BY <1>1 DEF Return, Follows, Joining, Topic, Published
  <2> QED BY <1>1, <2>1 DEF Return, module
<1>2. CASE Enter
  BY <1>2 DEF Enter, module, Joining, Topic
<1>3. CASE Load \/ Store
  BY <1>3 DEF Load, Store, module
<1>4. CASE Send \/ SendNoMemory
  BY <1>4 DEF Send, SendNoMemory, Sent, AfterAnswer, Joining, Topic
<1>5. CASE Await \/ WaitSees \/ WaitTimeout \/ Break
  BY <1>5 DEF Await, WaitSees, WaitTimeout, Break, AfterAnswer, AfterWait, module
<1>6. CASE Parser
  BY <1>6 DEF Parser, ReadAnswer, ReadUrc, Handle, HandledWith, app, module
<1>7. CASE Module
  BY <1>7 DEF Module, Reply, Silent, Leave, Join, State, Accept, Succeed, Fail, WifiEvent,
              MqttEvent, app
<1>8. CASE UNCHANGED vars
  BY <1>8 DEF vars, app, module
<1> QED BY <1>1, <1>2, <1>3, <1>4, <1>5, <1>6, <1>7, <1>8 DEF Next, App

LEMMA DisplayInit == Init => CallInv /\ DisplayInv
<1> SUFFICES ASSUME Init PROVE CallInv /\ DisplayInv
  OBVIOUS
<1>1. CallInv
  BY DEF Init, CallInv
<1>2. DOMAIN wire = {} /\ ppc = "read"
  BY DEF Init
<1>3. LineInv(MqttKinds, mqtt) /\ LineInv(WifiKinds, wifi)
  BY <1>2 DEF LineInv, LastTrue, InHand
<1>4. MqttShown /\ WifiShown
  BY DEF Init, MqttShown, WifiShown
<1> QED BY <1>1, <1>3, <1>4 DEF DisplayInv

LEMMA DisplayStep == TypeOK /\ CallInv /\ DisplayInv /\ [Next]_vars => DisplayInv'
<1>1. UNCHANGED vars /\ DisplayInv => DisplayInv'
  BY DEF vars, app, parser, module, history, DisplayInv, LineInv, LastTrue, Quiet, InHand, AllRead,
         MqttShown, WifiShown, Joined
<1> QED BY <1>1, DisplayModule, DisplayRead, DisplayHandle, DisplayApp DEF Next, Parser
-----------------------------------------------------------------------------
(* No race on sg_flags loses the report a call waits for: it clears its    *)
(* flag before it sends its command (module_api_inf.c:464, 592, 692), and  *)
(* the copy the parser task may hold of sg_flags is no older than that     *)
(* report.                                                                 *)
THEOREM AckNotLost == Spec => []AckIsSeen
<1>1. AckInv => AckIsSeen
  BY DEF AckInv, AckIsSeen, Wanted
<1> QED BY AckInit, AckStep, <1>1, PTL DEF Spec

(* A topic is registered before its subscription is sent, and not sent     *)
(* when that fails (module_api_inf.c:584).                                 *)
THEOREM SubscribedHandled == Spec => []SubscribedIsHandled
<1>1. TopicInv => SubscribedIsHandled
  BY DEF TopicInv, SubscribedIsHandled
<1> QED BY TypeCorrect, TopicInit, TopicStep, <1>1, PTL DEF Spec

(* The data template is constructed only after the module has reported its *)
(* connection, whatever races on sg_flags and however answers are mixed up *)
(* (IOT_MQTT_IsConnected, module_api_inf.c:666).                           *)
THEOREM ConstructedReported == Spec => []ConstructedWhenReported
<1>1. ReportInv => ConstructedWhenReported
  BY DEF ReportInv, ConstructedWhenReported
<1> QED BY TypeCorrect, ReportInit, ReportStep, <1>1, PTL DEF Spec

(* A subscription that succeeds has been confirmed by the server, unless   *)
(* the flag was set by a refusal, a late URC or a race                     *)
(* (module_mqtt_sub, module_api_inf.c:592-617).                            *)
THEOREM SuccessConfirmed == Spec => []SuccessIsConfirmed
<1>1. ConfirmInv => SuccessIsConfirmed
  BY DEF ConfirmInv, Confirmed, SuccessIsConfirmed
<1> QED BY TypeCorrect, ConfirmInit, ConfirmStep, <1>1, PTL DEF Spec

(* What the lamp displays is so (user_task.c:373): once all lines have     *)
(* been handled the connection flags agree with the links, unless a race   *)
(* on sg_flags or a refusal taken for a success (module_api_inf.c:264) has *)
(* left the flag wrong and nothing has been reported since.                *)
THEOREM DisplayTrue == Spec => []DisplayIsTrue
<1>1. DisplayInv => DisplayIsTrue
  <2> SUFFICES ASSUME DisplayInv, wire = <<>>, ppc = "read"
               PROVE  /\ MqttShown
                      /\ call \in Joining \/ "WIFI_CON" \in wrong
                         \/ ("WIFI_CON" \in sg_flags <=> wifi = "on")
    BY DEF DisplayIsTrue, MqttShown
  <2>1. MqttShown /\ WifiShown
    BY DEF DisplayInv, AllRead, Quiet, InHand
  <2> QED BY <2>1 DEF WifiShown, Joined
<1> QED BY TypeCorrect, DisplayInit, CallStep, DisplayStep, <1>1, PTL DEF Spec
=============================================================================
