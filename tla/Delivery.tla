------------------------------ MODULE Delivery ------------------------------
(***************************************************************************)
(* How a published message reaches its handler: the line the module sends, *)
(* +TCMQTTRCVPUB:"<topic>",<length>,"<payload>", is taken apart by         *)
(* at_req_parse_args (at_utils.c), and deliver_message (mqtt.c) calls the  *)
(* first handler whose topic filter fits.                                  *)
(*                                                                         *)
(* A text is a sequence of characters: "q" is the quote, " " any blank.    *)
(* The beginning of the line, a word of a topic and the tokens of Json     *)
(* count as one character.                                                 *)
(***************************************************************************)
EXTENDS Naturals, Sequences, SequencesExt

Line(topic, payload) ==
  <<"+TCMQTTRCVPUB:", "q">> \o topic \o <<"q", ",", "3", "9", ",", "q">> \o payload \o <<"q">>

(***************************************************************************)
(* at_sscanf for the three conversions deliver_message uses: %s reads up   *)
(* to a comma, %S to the end, and both leave out every blank on the way.   *)
(* It stops where the text ends or differs from the format.                *)
(***************************************************************************)
req_expr == <<"+TCMQTTRCVPUB:", "%s", ",", "%u", ",", "%S">>
Digit == {"0", "3", "9"}

Spaceless(s) == SelectSeq(s, LAMBDA c : c # " ")

\* How much of s comes before its stop-th character; all of it if there is none (0).
Span(s, stop) == IF stop = 0 THEN Len(s) ELSE stop - 1

Take(st, n) ==
  [st EXCEPT !.str = SubSeq(@, n + 1, Len(@)), !.argv = Append(@, Spaceless(SubSeq(st.str, 1, n)))]
Stop(st) == [st EXCEPT !.stopped = TRUE]

Convert(st, f) ==
  CASE st.stopped \/ st.str = <<>> -> Stop(st)
    [] f = "%s" -> Take(st, Span(st.str, SelectInSeq(st.str, LAMBDA c : c = ",")))
    [] f = "%S" -> Take(st, Len(st.str))
    [] f = "%u" -> LET n == Span(st.str, SelectInSeq(st.str, LAMBDA c : c \notin Digit))
                   IN  IF n = 0 THEN Stop(st) ELSE Take(st, n)
    [] OTHER    -> IF st.str[1] = f THEN [st EXCEPT !.str = Tail(@)] ELSE Stop(st)

at_sscanf(buf, fmt) ==
  FoldLeft(Convert, [str |-> buf, argv |-> <<>>, stopped |-> FALSE], fmt).argv

\* The buffers of what was not read are still empty.
at_req_parse_args(data) ==
  LET args(argv) == [topic_name |-> IF Len(argv) >= 1 THEN argv[1] ELSE <<>>,
                     topic_payload |-> IF Len(argv) = 3 THEN argv[3] ELSE <<>>]
  IN  args(at_sscanf(data, req_expr))

\* at_strip: one mark is taken off each end.
at_strip(s, mark) ==
  IF s = <<>> THEN s
  ELSE SubSeq(s, IF s[1] = mark THEN 2 ELSE 1, IF s[Len(s)] = mark THEN Len(s) - 1 ELSE Len(s))

-----------------------------------------------------------------------------
_is_topic_equals(filter, name) == filter = name

(***************************************************************************)
(* The loop of _is_topic_matched from curf, curn on: where it stops.       *)
(***************************************************************************)
Walk(filter, name) ==
  LET level(n) == CHOOSE end \in n .. Len(name) + 1 :  \* the next separator, or the end
                    /\ end > Len(name) \/ name[end] = "/"
                    /\ \A i \in n .. end - 1 : name[i] # "/"
      walk[f \in 1 .. Len(filter) + 1, n \in 1 .. Len(name) + 1] ==
        CASE f > Len(filter) \/ n > Len(name)            -> <<f, n>>
          [] filter[f] = "+" /\ name[n] = "/"            -> walk[f + 1, n]
          [] filter[f] # "/" /\ name[n] = "/"            -> <<f, n>>
          [] filter[f] = "+"                             -> walk[f + 1, level(n)]
          [] filter[f] = "#"                             -> walk[f + 1, Len(name) + 1]
          [] filter[f] = name[n]                         -> walk[f + 1, n + 1]
          [] OTHER                                       -> <<f, n>>
  IN  walk[1, 1]

\* Mutant of Rest: a filter that goes on fits only if it goes on with "#".
RestWithoutPlus(filter, name, f, n) == filter[f] = "#"

\* What is left of a filter may stand for nothing.
Rest(filter, name, f, n) ==
  \/ filter[f] = "#"
  \/ f < Len(filter) /\ filter[f + 1] = "#"
  \/ filter[f] = "+" /\ n > 1 /\ name[n - 1] = "/"

_is_topic_matched(filter, name) ==
  LET fits(stop) == IF stop[1] > Len(filter) THEN stop[2] > Len(name)
                    ELSE Rest(filter, name, stop[1], stop[2])
  IN  fits(Walk(filter, name))

(***************************************************************************)
(* deliver_message: the handler of the first entry of sg_msg_handlers that *)
(* fits, and the payload it is given.  A line that cannot be taken apart   *)
(* is delivered as well, with what could be read of it.                    *)
(***************************************************************************)
NoHandler == "none"

deliver_message(sg_msg_handlers, data) ==
  LET fits(entry, topic_name) == \/ _is_topic_equals(topic_name, entry.topicFilter)
                                 \/ _is_topic_matched(entry.topicFilter, topic_name)
      first(topic_name) == SelectInSeq(sg_msg_handlers, LAMBDA entry : fits(entry, topic_name))
      fp(i) == IF i = 0 THEN NoHandler ELSE sg_msg_handlers[i].fp
      deliver(args) == [fp |-> fp(first(at_strip(args.topic_name, "q"))),
                        msg |-> at_strip(args.topic_payload, "q")]
  IN  deliver(at_req_parse_args(data))

-----------------------------------------------------------------------------
(***************************************************************************)
(* What MQTT says of a filter and a name, given as sequences of levels.    *)
(***************************************************************************)
Slashed(levels) ==
  IF levels = <<>> THEN <<>>
  ELSE FoldLeft(LAMBDA s, l : s \o <<"/">> \o l, Head(levels), Tail(levels))

Covers(filter, name) ==
  LET many == filter[Len(filter)] = <<"#">>
      fixed == IF many THEN Len(filter) - 1 ELSE Len(filter)
  IN  /\ IF many THEN Len(name) >= fixed ELSE Len(name) = fixed
      /\ \A i \in 1 .. fixed : filter[i] \in {<<"+">>, name[i]}
=============================================================================
