-------------------------------- MODULE Json --------------------------------
(***************************************************************************)
(* The documents the device sends, as data_template_client.c,              *)
(* data_template_client_manager.c, data_template_event.c and               *)
(* data_template_aciton.c write them with the helpers of                   *)
(* data_template_client_json.c, and how json_parser.c and json_token.c     *)
(* read a document.                                                        *)
(*                                                                         *)
(* A text is a sequence of tokens: a bracket, a quote "q", a colon, a      *)
(* comma, the backslash "e" that quotes and commas are sent with, a word,  *)
(* a number or a literal.  A token counts as one byte; blanks are left     *)
(* out.  The code builds with QUOTES_TRANSFER_NEED and                     *)
(* COMMA_TRANSFER_NEED.                                                    *)
(***************************************************************************)
EXTENDS Integers, Sequences, SequencesExt, FiniteSetsExt

CONSTANT WORD    \* 2^32: size_t wraps around there

ASSUME WordAssumption == WORD \in Nat \ {0}

(***************************************************************************)
(* A document under construction: what jsonBuffer holds, its size, the     *)
(* last remain_size, the return code, and whether anything was written     *)
(* behind the buffer.                                                      *)
(***************************************************************************)
Buffer(text, size) ==
  [text |-> text, size |-> size, remain |-> size, rc |-> "ok",
   over |-> Len(text) >= size]

pos == 2    \* the length of the comma that is written over

Comma == <<"e", ",">>
Quoted(w) == <<"e", "q">> \o w \o <<"e", "q">>
Name(k) == Quoted(<<k>>) \o <<":">>

(***************************************************************************)
(* A construction is a sequence of statements; it ends at the first that   *)
(* fails.                                                                  *)
(*   room          if ((remain_size = sizeOfBuffer - strlen(jsonBuffer))   *)
(*                 <= 1) return QCLOUD_ERR_JSON_BUFFER_TOO_SMALL, in size_t *)
(*   closing(toks) the same with < 1, and the last text of an event        *)
(*   put(b, toks)  HAL_Snprintf b bytes before the end, with the           *)
(*                 remain_size last measured, and check_snprintf_return    *)
(*   over(toks)    the same from the beginning of the buffer               *)
(*   node(n, true) put_json_node and template_put_json_node, which differ  *)
(*                 in how they write a Boolean                             *)
(*   type(method)  _set_template_json_type, after the first brace          *)
(*   for_nodes(list, true), for_events(list)  the loops over properties    *)
(*                 and events                                             *)
(***************************************************************************)
room == [op |-> "room"]
closing(toks) == [op |-> "closing", toks |-> toks]
put(back, toks) == [op |-> "put", back |-> back, toks |-> toks]
over(toks) == [op |-> "over", toks |-> toks]
for_nodes(list, true) == [op |-> "nodes", list |-> list, true |-> true]
for_events(list) == [op |-> "events", list |-> list]

Val == {"num", "bool", "null", "str", "empty", "obj"}
Value(v, true) ==
  CASE v = "num"   -> <<"1">>
    [] v = "bool"  -> <<true>>
    [] v = "null"  -> <<"null">>
    [] v = "str"   -> Quoted(<<"w">>)
    [] v = "empty" -> Quoted(<<>>)
    [] v = "obj"   -> <<"{">> \o Name("c") \o <<"{">> \o Name("c") \o <<"1", "}", "}">>

node(n, true) ==
  <<[op |-> "node", toks |-> Name(n.key)],
    [op |-> "node", toks |-> Value(n.val, true) \o Comma]>>

type(method) == [op |-> "type", toks |-> Name("method") \o Quoted(<<method>>) \o Comma]

Left(size, text) == (size - Len(text)) % WORD

Snprintf(d, at, remain, toks) ==
  LET n == Min({Len(toks), remain - 1})
  IN  [text |-> SubSeq(d.text, 1, at) \o SubSeq(toks, 1, n), size |-> d.size,
       remain |-> remain, rc |-> IF Len(toks) >= remain THEN "truncated" ELSE "ok",
       over |-> d.over \/ at + n >= d.size]

Fails(d, rc) == [d EXCEPT !.rc = rc]

\* Mutant of NodeRoom: the text is subtracted a third time.
NodeRoomTight(d) == (Left(d.remain, d.text) - Len(d.text)) % WORD

\* A node gets the caller's remain_size for the size of the buffer, and
\* subtracts the text from it a second time.
NodeRoom(d) == Left(d.remain, d.text)

Node(d, toks) ==
  IF NodeRoom(d) <= 1 THEN Fails(d, "too_small")
  ELSE [Snprintf(d, Len(d.text), NodeRoom(d), toks) EXCEPT !.remain = d.remain]

SetType(d, toks) ==
  IF Len(toks) >= (Left(d.size, d.text) - 1) % WORD THEN Fails(d, "invalid")
  ELSE [d EXCEPT !.text = SubSeq(@, 1, 1) \o toks \o SubSeq(@, 2, Len(@))]

Step(d, step) ==
  CASE step.op = "room" -> IF Left(d.size, d.text) <= 1 THEN Fails(d, "too_small")
                           ELSE [d EXCEPT !.remain = Left(d.size, d.text)]
    [] step.op = "closing" -> IF Left(d.size, d.text) < 1 THEN Fails(d, "too_small")
                           ELSE Snprintf(d, Len(d.text), Left(d.size, d.text), step.toks)
    [] step.op = "put"  -> Snprintf(d, Len(d.text) - step.back, d.remain, step.toks)
    [] step.op = "over" -> Snprintf(d, 0, d.remain, step.toks)
    [] step.op = "node" -> Node(d, step.toks)
    [] step.op = "type" -> SetType(d, step.toks)

-----------------------------------------------------------------------------
(***************************************************************************)
(* The documents.                                                          *)
(***************************************************************************)
\* build_empty_json, whatever the size of the buffer.
EmptyJson == <<"{">> \o Name("clientToken") \o Quoted(<<"t">>) \o <<"}">>

\* IOT_Template_JSON_ConstructReportArray
Report(list) ==
  <<room, put(1, Comma \o Name("params") \o <<"{">>), for_nodes(list, "true"),
    room, put(pos, <<"}", "}">>), type("report")>>

\* Mutant of Label: the brace of the properties stays before the label.
LabelAfterBrace(self) ==
  <<put(pos, Comma \o Name("device_label") \o <<"{">>), for_nodes(self, "true"),
    put(pos, <<"}", "}">> \o Comma)>>

\* The remain_size is the one of the text without the label.
Label(self) ==
  <<put(pos + 1, Comma \o Name("device_label") \o <<"{">>), for_nodes(self, "true"),
    put(pos, <<"}", "}">> \o Comma)>>

\* IOT_Template_JSON_ConstructSysInfo
SystemInfo(plat, self) ==
  <<room, put(1, Comma \o Name("params") \o <<"{">>), for_nodes(plat, "true"),
    room, put(pos, <<"}">> \o Comma), room>>
    \o (IF self = <<>> THEN <<>> ELSE Label(self))
    \o <<room, put(pos, <<"}">>), type("report_info")>>

\* _template_ConstructControlReply, in a buffer that still holds old text;
\* a status that is empty leaves the backslash of the comma.
ControlReply(status) ==
  <<room, over(<<"{">> \o Name("code") \o <<"0">> \o Comma
                \o Name("clientToken") \o Quoted(<<"t">>) \o Comma), room,
    IF status = <<>> THEN put(1, <<"}">>)
    ELSE put(0, Name("status") \o Quoted(status) \o <<"}">>),
    type("control_reply")>>

\* _IOT_Event_JSON_Init and _iot_action_json_init: the buffer is cleared.
Begin(method) ==
  <<over(<<"{">> \o Name("method") \o Quoted(<<method>>) \o Comma
           \o Name("clientToken") \o Quoted(<<"t">>) \o Comma), room>>

EventHead(event) ==
  Name("eventId") \o Quoted(<<event.id>>) \o Comma
    \o Name("type") \o Quoted(<<"info">>) \o Comma
    \o Name("timestamp") \o <<"0">> \o Comma \o Name("params") \o <<"{">>

\* _IOT_Construct_Event_JSON for one event ...
SingleEvent(event) ==
  Begin("event_post")
    \o <<put(0, EventHead(event)), room, for_nodes(event.nodes, "1"),
         room, put(pos, <<"}">>), closing(<<"}">>)>>

\* ... and for several: every event ends with a comma, the last one with "]".
\* The next head has the remain_size of the text before the last comma.
OneOfEvents(event) ==
  <<put(0, <<"{">> \o EventHead(event)), room, for_nodes(event.nodes, "1"),
    room, put(pos, <<"}", "}">> \o Comma)>>

SeveralEvents(list) ==
  Begin("events_post")
    \o <<put(0, Name("events") \o <<"[">>), room, for_events(list),
         room, put(pos, <<"]">>), closing(<<"}">>)>>

\* IOT_Post_Event_Raw
RawEvent(message) ==
  Begin("events_post") \o <<put(0, Name("events") \o <<"[">> \o message \o <<"]", "}">>)>>

\* _iot_action_json_init and _iot_construct_action_json
ActionReply(status, list) ==
  Begin("action_reply")
    \o <<put(0, Name("code") \o <<"0">> \o Comma \o Name("status") \o Quoted(status)
                  \o Comma \o Name("response") \o <<"{">>), room, for_nodes(list, "1"),
         room, put(pos, <<"}">>), closing(<<"}">>)>>

(***************************************************************************)
(* One round of a loop: what it does for the head of the list, and the     *)
(* loop with the rest of it.                                               *)
(***************************************************************************)
IsLoop(step) == step.op \in {"nodes", "events"}

Round(step) ==
  IF step.list = <<>> THEN <<>>
  ELSE (IF step.op = "nodes" THEN node(Head(step.list), step.true)
        ELSE OneOfEvents(Head(step.list)))
       \o <<[step EXCEPT !.list = Tail(@)]>>

-----------------------------------------------------------------------------
\* chr_strip: the token after one that was taken out is not looked at.
chr_strip(s, c) ==
  LET strip[i \in 1 .. Len(s) + 2] ==
        IF i > Len(s) THEN <<>>
        ELSE IF s[i] = c THEN SubSeq(s, i + 1, i + 1) \o strip[i + 2]
        ELSE <<s[i]>> \o strip[i + 1]
  IN  strip[1]

strchr(s, i, c) ==
  LET found == {j \in i .. Len(s) : s[j] = c}
  IN  IF i = 0 \/ found = {} THEN 0 ELSE Min(found)

Count(s, i, j, c) == Len(SelectSeq(SubSeq(s, i, j), LAMBDA t : t = c))

\* Mutant of Closing: brackets inside are not counted.
ClosingFirst(s, i, open, close) == strchr(s, i, close)

\* The bracket that closes the one at i.
Closing(s, i, open, close) ==
  Min({j \in i .. Len(s) : /\ s[j] = close
                           /\ Count(s, i, j, open) = Count(s, i, j, close)})

(***************************************************************************)
(* json_get_next_object: the next name from i on and its value, without    *)
(* the quotes of a string.  It does not look for the end of the object.    *)
(***************************************************************************)
\* 0 if there is no colon, or no value after it.
ValueAt(s, colon) ==
  LET found == {j \in colon .. Len(s) : s[j] \in {"q", "{", "[", "0", "1", "true", "null"}}
  IN  IF colon = 0 \/ found = {} THEN 0 ELSE Min(found)

\* First and last token of the value at v, and what comes after it; without a
\* value the loop over the pairs ends.
Extent(s, v) ==
  LET until(j, n) == <<v + n, j - n, j + 1>>
  IN  IF v = 0 THEN <<1, 0, Len(s) + 1>>
      ELSE CASE s[v] = "q" -> until(strchr(s, v + 1, "q"), 1)
             [] s[v] = "{" -> until(Closing(s, v, "{", "}"), 0)
             [] s[v] = "[" -> until(Closing(s, v, "[", "]"), 0)
             [] OTHER      -> until(v, 0)

NextObject(s, i) ==
  LET pair(name, quote, x) == [key |-> SubSeq(s, name + 1, quote - 1),
                               at |-> x[1], last |-> x[2], next |-> x[3]]
      valued(name, quote) == pair(name, quote, Extent(s, ValueAt(s, strchr(s, quote, ":"))))
      named(name) == valued(name, strchr(s, name + 1, "q"))
  IN  named(strchr(s, i, "q"))

\* json_parse_name_value: names with a value; json_object_for_each_kv.
Pairs(s) ==
  LET then(from, o) == <<o>> \o from[o.next]
      from[i \in 1 .. Len(s) + 1] ==
        IF strchr(s, i, "q") = 0 THEN <<>> ELSE then(from, NextObject(s, i))
  IN  IF s = <<>> \/ s[1] # "{" THEN <<>>
      ELSE SelectSeq(from[1], LAMBDA o : o.key # <<>> /\ o.last >= o.at)

NoValue == <<"NULL">>

\* json_get_value_by_name
Named(s, name) == SelectSeq(Pairs(s), LAMBDA o : o.key = <<name>>)

\* LITE_json_value_of: the names of the path are looked for one in the value
\* of the other, and what follows that value.
LITE_json_value_of(path, s) ==
  LET found(src, values) ==
        IF values = <<>> THEN [src |-> <<>>, value |-> NoValue]
        ELSE [src |-> SubSeq(src, values[1].at, Len(src)),
              value |-> SubSeq(src, values[1].at, values[1].last)]
      enter(v, name) == found(v.src, Named(v.src, name))
  IN  FoldLeft(enter, [src |-> s, value |-> NoValue], path).value
=============================================================================
