------------------------------ MODULE Template ------------------------------
(***************************************************************************)
(* What the template client keeps besides the requests of DataTemplate:    *)
(* the events that wait for a reply (data_template_event.c), the actions   *)
(* and the properties that are registered (data_template_aciton.c,         *)
(* data_template_client_common.c), the documents it sends and reads (Json) *)
(* and the way a published message takes to it (Delivery).  One task does  *)
(* all of it, in calls that end before the next one begins; the cloud and  *)
(* the clock act between them.                                             *)
(***************************************************************************)
EXTENDS Json, Delivery

CONSTANTS
  MAX_EVENT_WAIT_REPLY,
  Sizes,       \* sizes of the caller's buffer
  Property,    \* the properties of the product
  IntProperty, \* the ones that are numbers; the others are strings
  data_buff_len, \* of a string
  Action,      \* its actions, each with the input "in"
  MaxToken,    \* bound on the documents with a token
  MaxHandlers, \* bound on the registrations
  NodeList, SelfList, \* lists of properties that are reported, and of labels
  Event, EventList,   \* events, and the rows of them that are sent as one
  RawText,     \* texts of raw events
  OldText      \* what a buffer may still hold

ASSUME TemplateAssumption ==
  /\ MAX_EVENT_WAIT_REPLY \in Nat /\ MaxToken \in 0 .. 4 /\ MaxHandlers \in Nat
  /\ Sizes \subseteq 1 .. WORD - 1
  /\ IntProperty \subseteq Property /\ data_buff_len \in Nat
  /\ NodeList \subseteq Seq([key : STRING, val : Val])
  /\ SelfList \subseteq Seq([key : STRING, val : Val])
  /\ Event \subseteq [id : STRING, nodes : NodeList] /\ Event # {}
  /\ EventList \subseteq Seq([id : STRING, nodes : NodeList])
  /\ \A events \in EventList : Len(events) > 1 \* a single one is sent as such
  /\ RawText \subseteq Seq(STRING) /\ OldText \subseteq Seq(STRING)

VARIABLES
  token_num,
  event_list,            \* sReply records; a traversal treats each by itself
  posted,                \* tokens of the events that reached the cloud
  called,                \* how often the callback ran, by token
  property_handle_list,  \* PropertyHandler records
  action_handle_list,    \* ActionHandler records
  data,                  \* the value of each property
  callbacks,             \* how often a callback ran in the last call
  built,                 \* the document the last call builds, or the message it reads
  jsonBuffer,            \* the buffer it is built in
  todo                   \* the statements of that call that are left

templateVars == <<token_num, event_list, posted, called, property_handle_list,
          action_handle_list, data, callbacks, built, jsonBuffer, todo>>
eventVars == <<event_list, posted, called>>
registry == <<property_handle_list, action_handle_list, data, callbacks>>

TokenName(n) == <<"t0", "t1", "t2", "t3">>[n + 1]
EventToken == {TokenName(n) : n \in 0 .. MaxToken - 1}
Nothing == [doc |-> [kind |-> "none"]]

-----------------------------------------------------------------------------
(***************************************************************************)
(* What each document is meant to say, without the backslashes.            *)
(***************************************************************************)
Plain(s) == SelectSeq(s, LAMBDA t : t # "e")
Field(k, v) == <<"q", k, "q", ":">> \o v
String(w) == <<"q">> \o w \o <<"q">>

Object(fields) ==
  LET join(s, f) == IF s = <<>> THEN f ELSE s \o <<",">> \o f
  IN  <<"{">> \o FoldLeft(join, <<>>, fields) \o <<"}">>

Fields(nodes, true) ==
  [i \in DOMAIN nodes |-> Field(nodes[i].key, Plain(Value(nodes[i].val, true)))]
Token_ == Field("clientToken", String(<<"t">>))

EventText(e) == Object(<<Field("eventId", String(<<e.id>>)), Field("type", String(<<"info">>)),
                         Field("timestamp", <<"0">>),
                         Field("params", Object(Fields(e.nodes, "1")))>>)

Meant(b) ==
  CASE b.kind = "report" ->
         Object(<<Field("method", String(<<"report">>)), Token_,
                  Field("params", Object(Fields(b.nodes, "true")))>>)
    [] b.kind = "info" ->
         Object(<<Field("method", String(<<"report_info">>)), Token_,
                  Field("params", Object(Fields(b.nodes, "true") \o
                    (IF b.self = <<>> THEN <<>>
                     ELSE <<Field("device_label", Object(Fields(b.self, "true")))>>)))>>)
    [] b.kind = "reply" ->
         Object(<<Field("method", String(<<"control_reply">>)), Field("code", <<"0">>), Token_>>
                \o (IF b.status = <<>> THEN <<>> ELSE <<Field("status", String(b.status))>>))
    [] b.kind = "event" ->
         Object(<<Field("method", String(<<"event_post">>)), Token_>>
                \o <<SubSeq(EventText(b.event), 2, Len(EventText(b.event)) - 1)>>)
    [] b.kind = "events" ->
         LET join(s, e) == IF s = <<>> THEN EventText(e) ELSE s \o <<",">> \o EventText(e)
         IN  Object(<<Field("method", String(<<"events_post">>)), Token_,
                      Field("events", <<"[">> \o FoldLeft(join, <<>>, b.events) \o <<"]">>)>>)
    [] b.kind = "raw" ->
         Object(<<Field("method", String(<<"events_post">>)), Token_,
                  Field("events", <<"[">> \o b.message \o <<"]">>)>>)
    [] b.kind = "action" ->
         Object(<<Field("method", String(<<"action_reply">>)), Token_, Field("code", <<"0">>),
                  Field("status", String(b.status)),
                  Field("response", Object(Fields(b.nodes, "1")))>>)

(***************************************************************************)
(* The documents that are built.                                           *)
(***************************************************************************)
Status == {<<>>, <<"w">>}

Document ==
  [kind : {"report"}, nodes : NodeList]
  \cup [kind : {"info"}, nodes : NodeList, self : {<<>>} \cup SelfList]
  \cup [kind : {"reply"}, status : Status, old : OldText]
  \cup [kind : {"action"}, status : Status, nodes : NodeList]
EventDocument ==
  [kind : {"event"}, event : Event] \cup [kind : {"events"}, events : EventList]
  \cup [kind : {"raw"}, message : RawText]
SomeEvent == CHOOSE b \in EventDocument : b.kind = "event"

\* What the buffer holds before the first statement.
OldTextOf(b) == IF b.kind = "reply" THEN b.old ELSE <<>>
StartText(b) == IF b.kind \in {"report", "info"} THEN EmptyJson ELSE OldTextOf(b)

Statements(b) ==
  CASE b.kind = "report" -> Report(b.nodes)
    [] b.kind = "info"   -> SystemInfo(b.nodes, b.self)
    [] b.kind = "reply"  -> ControlReply(b.status)
    [] b.kind = "event"  -> SingleEvent(b.event)
    [] b.kind = "events" -> SeveralEvents(b.events)
    [] b.kind = "raw"    -> RawEvent(b.message)
    [] b.kind = "action" -> ActionReply(b.status, b.nodes)

NoCallback == [p \in Property \cup Action |-> 0]

\* What the calls and messages below begin with: the call before has returned.
NoBuffer == Buffer(<<>>, 1)
Returned == todo = <<>> /\ UNCHANGED todo /\ jsonBuffer' = NoBuffer
Silent == Returned /\ built' = Nothing /\ callbacks' = NoCallback

\* The buffer holds the old text, which is shorter.
Build(b, size) ==
  /\ Len(OldTextOf(b)) < size
  /\ built' = [doc |-> b]
  /\ jsonBuffer' = Buffer(StartText(b), size)
  /\ todo' = Statements(b)

NextRound ==
  /\ todo # <<>> /\ IsLoop(Head(todo))
  /\ todo' = Round(Head(todo)) \o Tail(todo)
  /\ UNCHANGED <<token_num, eventVars, registry, built, jsonBuffer>>

WriteStep ==
  /\ todo # <<>> /\ ~IsLoop(Head(todo))
  /\ jsonBuffer' = Step(jsonBuffer, Head(todo))
  /\ todo' = IF jsonBuffer'.rc = "ok" THEN Tail(todo) ELSE <<>>
  /\ UNCHANGED <<token_num, eventVars, registry, built>>

-----------------------------------------------------------------------------
(***************************************************************************)
(* Documents that wait for nothing here: a report, the system information, *)
(* the acknowledgement of a control message, the answer to an action.  The *)
(* texts do not depend on the lists: they are built while those are empty. *)
(***************************************************************************)
Idle == todo = <<>> /\ event_list = {} /\ posted = {} /\ property_handle_list = <<>>
        /\ action_handle_list = <<>> /\ token_num = 0 /\ built = Nothing

Send ==
  /\ Idle
  /\ \E b \in Document, size \in Sizes :
       /\ Build(b, size)
       /\ token_num' = token_num + (IF b.kind \in {"report", "info"} THEN 1 ELSE 0)
  /\ UNCHANGED <<eventVars, registry>>

-----------------------------------------------------------------------------
(***************************************************************************)
(* IOT_Post_Event.  A record that is on the list stays there whatever      *)
(* fails later.  A publication that is reported to have failed may have    *)
(* reached the cloud all the same.                                         *)
(***************************************************************************)
NewToken == token_num' = token_num + 1

Listed(reply) ==
  /\ Cardinality(event_list) < MAX_EVENT_WAIT_REPLY
  /\ event_list' = event_list \cup {reply}

Create(reply) ==
  /\ token_num < MaxToken
  /\ reply.token = TokenName(token_num)
  /\ NewToken
  /\ Listed(reply)

\* No memory for the node of the record: its number is used up.
CreateFails ==
  /\ token_num < MaxToken /\ Cardinality(event_list) < MAX_EVENT_WAIT_REPLY
  /\ property_handle_list = <<>> /\ action_handle_list = <<>>
  /\ NewToken
  /\ Silent
  /\ UNCHANGED <<eventVars, property_handle_list, action_handle_list, data>>

\* IOT_Post_Event and IOT_Post_Event_Raw.
PostEvent ==
  /\ property_handle_list = <<>> /\ action_handle_list = <<>> \* they are not concerned
  /\ \E reply \in [token : EventToken, callback : BOOLEAN, expired : {FALSE}] : Create(reply)
  /\ todo = <<>>
  /\ \E b \in IF Idle THEN EventDocument ELSE {SomeEvent}, size \in Sizes : Build(b, size)
  /\ callbacks' = NoCallback
  /\ UNCHANGED <<posted, called, property_handle_list, action_handle_list, data>>

\* _publish_event_to_cloud, with what was built for the last record.
PublishEvent ==
  /\ built.doc.kind \in {"event", "events", "raw"}
  /\ todo = <<>> /\ jsonBuffer.rc = "ok"
  /\ posted' = posted \cup {TokenName(token_num - 1)}
  /\ UNCHANGED <<token_num, event_list, called, registry, built, jsonBuffer, todo>>

-----------------------------------------------------------------------------
(***************************************************************************)
(* The three topics IOT_Template_Construct subscribes, and what the        *)
(* handler of a topic is given when the cloud publishes a document there,  *)
(* written with blanks.                                                    *)
(***************************************************************************)
Topic(kind) == <<"$thing", "/", "down", "/", kind, "/", "id", "/", "dev">>

sg_msg_handlers ==
  [i \in 1 .. 3 |-> LET kind == <<"property", "event", "action">>[i]
                    IN  [topicFilter |-> Topic(kind), fp |-> kind]]

Blanks(s) ==
  FlattenSeq([i \in DOMAIN s |-> IF s[i] \in {",", ":"} THEN <<s[i], " ">> ELSE <<s[i]>>])

\* What the handler fp receives of a document; nothing if it is not called.
Received(fp, doc) ==
  LET given(delivered) == IF delivered.fp = fp THEN delivered.msg ELSE <<>>
  IN  given(deliver_message(sg_msg_handlers, Line(Topic(fp), Blanks(doc))))

(***************************************************************************)
(* What data_template_client_json.c reads of a message.                    *)
(***************************************************************************)
Number == {<<"0">>, <<"1">>}

read(field, msg) == LITE_json_value_of(<<field>>, msg)
number(value) == IF value \in Number THEN value ELSE NoValue

parse_template_method_type(msg) == read("method", msg)
parse_client_token(msg) == read("clientToken", msg)
parse_code_return(msg) == number(read("code", msg))
parse_action_id(msg) == read("actionId", msg)
parse_timestamp(msg) == number(read("timestamp", msg))
parse_action_input(msg) == read("params", msg)
parse_template_cmd_control(msg) == read("params", msg)

-----------------------------------------------------------------------------
\* The reply of the cloud; its code may be missing, or not a number.
Reply(t, code, status) ==
  Object(<<Field("method", String(<<"event_reply">>)), Field("clientToken", String(<<t>>))>>
         \o (IF code = <<>> THEN <<>> ELSE <<Field("code", code)>>)
         \o <<Field("status", String(status))>>)

ReplyCode == {<<>>, <<"0">>, String(<<"w">>)}

\* Whatever its code and status are, a reply is read with the token it was
\* sent with: for every token there is, decided by evaluation.
ASSUME ReplyAssumption ==
  \A n \in 0 .. 3, code \in ReplyCode, status \in Status :
    parse_client_token(Received("event", Reply(TokenName(n), code, status))) = <<TokenName(n)>>

Awaiting(t) == {r \in event_list : r.token = t /\ r.callback}

\* Mutant of Answered: the record stays on the list.
AnsweredKept(t) == UNCHANGED event_list

Answered(t) == event_list' = event_list \ Awaiting(t)

(***************************************************************************)
(* _on_event_reply_callback and _traverse_event_list.  The cloud may       *)
(* answer late, or more than once.                                         *)
(***************************************************************************)
OnEventReply ==
  /\ \E t \in posted, code \in ReplyCode, status \in Status :
       \E msg \in {Received("event", Reply(t, code, status))} :
       \E client_token \in {parse_client_token(msg)} :
         IF client_token # NoValue /\ parse_code_return(msg) # NoValue
         THEN /\ called' = [called EXCEPT ![client_token[1]] =
                                        @ + Cardinality(Awaiting(client_token[1]))]
              /\ Answered(client_token[1])
         ELSE UNCHANGED <<called, event_list>>
  /\ Silent
  /\ UNCHANGED <<token_num, posted, property_handle_list, action_handle_list, data>>

\* The time of an event passes ...
ExpireEvent ==
  /\ \E r \in event_list :
       /\ ~r.expired
       /\ event_list' = (event_list \ {r}) \cup {[r EXCEPT !.expired = TRUE]}
  /\ Silent
  /\ UNCHANGED <<token_num, posted, called, property_handle_list, action_handle_list, data>>

\* ... and handle_template_expired_event takes it off the list.
DropExpired ==
  /\ event_list' = {r \in event_list : ~r.expired}
  /\ event_list' # event_list
  /\ Silent
  /\ UNCHANGED <<token_num, posted, called, property_handle_list, action_handle_list, data>>

-----------------------------------------------------------------------------
(***************************************************************************)
(* Properties and actions are registered in the same way.  list_find       *)
(* compares the pointer it is given with those on the list, a property     *)
(* with the handlers: no match function is ever set.                       *)
(***************************************************************************)
Find(list, p) == SelectInSeq(list, LAMBDA h : h = [property |-> p])

Exists(list, p) == Find(list, p) # 0

AddHandle(list, p) == Append(list, [handler_of |-> p])

NewHandler(list, p) == IF Exists(list, p) THEN list ELSE AddHandle(list, p)

WithoutHandle(list, p) == IF Exists(list, p) THEN RemoveAt(list, Find(list, p)) ELSE list

\* The calls below have nothing to do with the events.
Apart == event_list = {} /\ posted = {}
Room == Len(property_handle_list) + Len(action_handle_list) < MaxHandlers

\* All four are refused while IOT_MQTT_IsConnected says no.
RegisterProperty ==
  /\ Apart /\ Room
  /\ \E p \in Property : property_handle_list' = NewHandler(property_handle_list, p)
  /\ Silent
  /\ UNCHANGED <<token_num, eventVars, action_handle_list, data>>

RegisterAction ==
  /\ Apart /\ Room
  /\ \E a \in Action : action_handle_list' = NewHandler(action_handle_list, a)
  /\ Silent
  /\ UNCHANGED <<token_num, eventVars, property_handle_list, data>>

UnRegisterProperty ==
  /\ Apart
  /\ \E p \in Property : property_handle_list' = WithoutHandle(property_handle_list, p)
  /\ Silent
  /\ UNCHANGED <<token_num, eventVars, action_handle_list, data>>

UnRegisterAction ==
  /\ Apart
  /\ \E a \in Action : action_handle_list' = WithoutHandle(action_handle_list, a)
  /\ Silent
  /\ UNCHANGED <<token_num, eventVars, property_handle_list, data>>

(***************************************************************************)
(* _handle_control: every handler whose property the message names with a  *)
(* value gets it (update_value_if_key_match), then its callback runs: also *)
(* when the value could not be read and the property keeps the old one.    *)
(***************************************************************************)
\* Mutant of Given: the null of a message is a value.
GivenNull(value) == IF value = NoValue THEN <<>> ELSE value

Given(value) == IF value \in {NoValue, <<"null">>} THEN <<>> ELSE value

\* _direct_update_value
LITE_get_int32(old, src) == IF src \in Number THEN src ELSE old
LITE_get_string(src, max_len) == SubSeq(src, 1, Min({Len(src), max_len}))

_direct_update_value(p, old, value) ==
  IF p \in IntProperty THEN LITE_get_int32(old, value)
  ELSE LITE_get_string(value, data_buff_len)

Handlers(list, p) == Cardinality({i \in DOMAIN list : list[i] = [handler_of |-> p]})

ControlNodes == {<<[key |-> "a", val |-> v], [key |-> "b", val |-> w]>> :
                    v \in Val, w \in {"null", "str", "obj"}}

ControlMessage(nodes) ==
  Object(<<Field("method", String(<<"control">>)), Token_,
           Field("params", Object(Fields(nodes, "true")))>>)

\* The part of _on_template_downstream_topic_handler for control messages.
OnControl ==
  /\ Returned /\ Apart
  /\ \E nodes \in ControlNodes :
       \E msg \in {Received("property", ControlMessage(nodes))} :
       \E heard \in {/\ parse_template_method_type(msg) = <<"control">>
                     /\ parse_client_token(msg) # NoValue} :
       \E control \in {parse_template_cmd_control(msg)} :
       \E given \in {[p \in Property |-> IF heard THEN Given(read(p, control)) ELSE <<>>]} :
       \E reached \in {{p \in Property :
                          Handlers(property_handle_list, p) > 0 /\ given[p] # <<>>}} :
         /\ data' = [p \in DOMAIN data |->
                       IF p \in reached THEN _direct_update_value(p, data[p], given[p])
                       ELSE data[p]]
         /\ callbacks' = [p \in DOMAIN callbacks |->
                            IF p \in reached THEN Handlers(property_handle_list, p) ELSE 0]
         /\ built' = [doc |-> [kind |-> "control", nodes |-> nodes]]
  /\ UNCHANGED <<token_num, eventVars, property_handle_list, action_handle_list>>

(***************************************************************************)
(* _on_action_handle_callback: a message that lacks a field is dropped;    *)
(* the callback runs even when an input is missing or not a number, with   *)
(* the value it had.                                                       *)
(***************************************************************************)
ActionField(a, input) ==
  [method |-> String(<<"action">>), clientToken |-> String(<<"t">>), actionId |-> String(<<a>>),
   timestamp |-> <<"1">>, params |-> Object(input)]

Call(a, input, missing) ==
  LET order == <<"method", "clientToken", "actionId", "timestamp", "params">>
      names == SelectSeq(order, LAMBDA f : f # missing)
  IN  Object([i \in DOMAIN names |-> Field(names[i], ActionField(a, input)[names[i]])])

OnAction ==
  /\ Returned /\ Apart
  /\ \E a \in Action,
        missing \in {"none", "method", "clientToken", "actionId", "timestamp", "params"},
        input \in {<<>>, <<Field("in", <<"1">>)>>, <<Field("in", String(<<"w">>))>>} :
       \E msg \in {Received("action", Call(a, input, missing))} :
       \E heard \in {/\ parse_template_method_type(msg) = <<"action">>
                     /\ parse_client_token(msg) # NoValue
                     /\ parse_timestamp(msg) # NoValue /\ parse_action_input(msg) # NoValue} :
       \E reached \in {{b \in Action : heard /\ parse_action_id(msg) = <<b>>
                                        /\ Handlers(action_handle_list, b) > 0}} :
         /\ data' = IF reached = {} THEN data
                    ELSE [data EXCEPT !["in"] =
                            LITE_get_int32(@, read("in", parse_action_input(msg)))]
         /\ callbacks' = [p \in DOMAIN callbacks |->
                            IF p \in reached THEN Handlers(action_handle_list, p) ELSE 0]
         /\ built' = [doc |-> [kind |-> "call", action |-> a, missing |-> missing, input |-> input]]
  /\ UNCHANGED <<token_num, eventVars, property_handle_list, action_handle_list>>

(***************************************************************************)
(* A line that lost its end reaches a handler or none; a filter fits a     *)
(* name or not.  Neither depends on the state.                             *)
(***************************************************************************)
OnCutLine ==
  /\ Returned /\ Idle
  /\ \E fp \in {"property", "event", "action"} :
       \E line \in {Line(Topic(fp), <<"{", "}">>)} :
         built' = [doc |-> [kind |-> "line", fp |-> fp],
                   got |-> [lost \in 0 .. Len(line) |->
                              deliver_message(sg_msg_handlers, SubSeq(line, 1, Len(line) - lost))]]
  /\ callbacks' = NoCallback
  /\ UNCHANGED <<token_num, eventVars, property_handle_list, action_handle_list, data>>

Level == {<<>>, <<"a">>, <<"a", "b">>}
TopicName == SeqOf(Level, 3) \ {<<>>, <<<<>>>>}
TopicFilter == {f \in SeqOf({<<>>, <<"a">>, <<"b">>, <<"+">>, <<"#">>}, 3) \ {<<>>} :
                  \A i \in 1 .. Len(f) - 1 : f[i] # <<"#">>}

OnTopic ==
  /\ Returned /\ Idle
  /\ built' = [doc |-> [kind |-> "topic"],
               got |-> [f \in TopicFilter |-> [n \in TopicName |->
                          deliver_message(<<[topicFilter |-> Slashed(f), fp |-> "f"]>>,
                                          Line(Slashed(n), <<"{", "}">>)).fp]]]
  /\ callbacks' = NoCallback
  /\ UNCHANGED <<token_num, eventVars, property_handle_list, action_handle_list, data>>

-----------------------------------------------------------------------------
TemplateInit ==
  /\ token_num = 0 /\ event_list = {} /\ posted = {}
  /\ called = [t \in EventToken |-> 0]
  /\ property_handle_list = <<>> /\ action_handle_list = <<>>
  /\ data = [p \in Property \cup {"in"} |-> <<>>]
  /\ callbacks = [p \in Property \cup Action |-> 0]
  /\ built = Nothing /\ jsonBuffer = NoBuffer /\ todo = <<>>

TemplateNext ==
  \/ NextRound \/ WriteStep \/ Send \/ PostEvent \/ PublishEvent \/ CreateFails
  \/ OnEventReply \/ ExpireEvent \/ DropExpired
  \/ RegisterProperty \/ RegisterAction \/ UnRegisterProperty \/ UnRegisterAction
  \/ OnControl \/ OnAction \/ OnCutLine \/ OnTopic

TemplateSpec == TemplateInit /\ [][TemplateNext]_templateVars

-----------------------------------------------------------------------------
(***************************************************************************)
(* Properties                                                              *)
(***************************************************************************)
Made == /\ built.doc \in Document \cup EventDocument
        /\ todo = <<>> /\ jsonBuffer.rc = "ok"
Text == chr_strip(jsonBuffer.text, "e")

\* A construction that reports success wrote the whole document, with every
\* comma and bracket where it belongs, however the calls truncate.  What the
\* header of IOT_Post_Event says, that the SDK completes the document; but
\* without properties (count or eventDataNum 0, a first key that is NULL) the
\* bracket that is put over the last comma is put over the ":{" before them.
SuccessIsWhole == Made => Plain(jsonBuffer.text) = Meant(built.doc)

\* Every list of properties the document must have has one.
Populated(b) ==
  CASE b.kind \in {"report", "info", "action"} -> b.nodes # <<>>
    [] b.kind = "event"  -> b.event.nodes # <<>>
    [] b.kind = "events" -> \A i \in DOMAIN b.events : b.events[i].nodes # <<>>
    [] OTHER -> TRUE

\* The same of every document that has properties: an empty list is the only
\* way to one that is not whole.
BuiltIsWhole == Made /\ Populated(built.doc) => SuccessIsWhole

\* A construction that fails, or writes behind its buffer, has filled half of
\* it by then (of what the old text leaves of it): a buffer of twice the text
\* and a little more is enough for every document.  (The text's length is not:
\* the nodes subtract the text twice.)
HalfFull(d, old) == d.size <= 2 * Len(d.text) + Len(old) + 2

RoomSuffices ==
  jsonBuffer.rc # "ok" \/ jsonBuffer.over => HalfFull(jsonBuffer, OldTextOf(built.doc))

\* What was built says, when it is read with the parser, what it was built of;
\* the labels only behind properties that are.
NodesSay(path, nodes, true) ==
  {<<path \o <<nodes[i].key>>,
     CASE nodes[i].val = "empty" -> NoValue
       [] nodes[i].val = "str" -> <<"w">>
       [] OTHER -> Plain(Value(nodes[i].val, true))>> : i \in DOMAIN nodes}
StatusSays(status) == {<<<<"status">>, IF status = <<>> THEN NoValue ELSE status>>}

Says(b) ==
  CASE b.kind = "report" -> NodesSay(<<"params">>, b.nodes, "true")
    [] b.kind = "info" /\ Populated(b) ->
         NodesSay(<<"params">>, b.nodes, "true")
           \cup NodesSay(<<"params", "device_label">>, b.self, "true")
    [] b.kind = "event" -> NodesSay(<<"params">>, b.event.nodes, "1")
    [] b.kind = "action" -> NodesSay(<<"response">>, b.nodes, "1") \cup StatusSays(b.status)
    [] b.kind = "reply" -> StatusSays(b.status)
    [] OTHER -> {}

BuiltIsRead ==
  Made =>
    \A says \in Says(built.doc) \cup {<<<<"clientToken">>, <<"t">>>>} :
      LITE_json_value_of(says[1], Text) = says[2]

\* The callback of an event runs at most once, whatever the cloud repeats, and
\* only for an event that reached it; the records that wait are the events of
\* different tokens, and no more than the list has room for.
EventAnsweredOnce ==
  /\ \A t \in EventToken : called[t] <= 1
  /\ \A t \in EventToken : called[t] = 1 => t \in posted /\ Awaiting(t) = {}
  /\ Cardinality(event_list) <= MAX_EVENT_WAIT_REPLY
  /\ \A r, q \in event_list : r.token = q.token => r = q

\* A control message reaches every handler of what it names, as often as that
\* was registered, and a string then has the value of this message, as far as
\* there is room: a null is none, and a number keeps its value when the one of
\* the message cannot be read.
ControlIsRead ==
  built.doc.kind = "control" =>
    \A i \in DOMAIN built.doc.nodes :
      LET p == built.doc.nodes[i].key
          v == built.doc.nodes[i].val
          text == IF v = "str" THEN <<"w">> ELSE Plain(Value(v, "true"))
      IN  /\ callbacks[p] = IF v \in {"null", "empty"} THEN 0
                            ELSE Handlers(property_handle_list, p)
          /\ callbacks[p] > 0 =>
               data[p] \in CASE p \notin IntProperty ->
                                    {SubSeq(text, 1, Min({Len(text), data_buff_len}))}
                             [] v = "num"            -> {text}
                             [] OTHER                -> Number \cup {<<>>}

\* A call of an action reaches its handlers when it is complete but for the
\* input; they may then see the input of an earlier call.
CallIsRead ==
  built.doc.kind = "call" =>
    LET a == built.doc.action
    IN  /\ callbacks[a] = IF built.doc.missing = "none" THEN Handlers(action_handle_list, a) ELSE 0
        /\ callbacks[a] > 0 /\ built.doc.input = <<Field("in", <<"1">>)>> => data["in"] = <<"1">>

\* A line that lost its end reaches no handler but that of its topic, and only
\* when the topic is whole; what the handler is given is the beginning of what
\* was sent.
LineIsDelivered ==
  built.doc.kind = "line" =>
    \A lost \in DOMAIN built.got :
      /\ built.got[lost].fp = IF lost <= 9 THEN built.doc.fp ELSE NoHandler
      /\ IsPrefix(built.got[lost].msg, <<"{", "}">>)

\* A filter fits every name that MQTT says it covers, and without a wildcard
\* no other.  ("a/#" also fits "ab", and "a/+/" fits "a/".)
TopicIsMatched ==
  built.doc.kind = "topic" =>
    \A f \in TopicFilter, n \in TopicName :
      LET fits == built.got[f][n] # NoHandler
          plain == \A i \in DOMAIN f : f[i] \notin {<<"+">>, <<"#">>}
      IN  (Covers(f, n) => fits) /\ (plain /\ fits => Covers(f, n))

\* What the cloud publishes reaches the handlers it is meant for, and they read
\* in it what it says.
MessageIsRead == ControlIsRead /\ CallIsRead /\ LineIsDelivered /\ TopicIsMatched
=============================================================================
