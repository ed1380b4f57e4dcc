----------------------------- MODULE LineReader -----------------------------
(***************************************************************************)
(* How lines are made of the bytes of the module: at_client_getchar,       *)
(* get_urc_obj and at_recv_readline (at_client.c), called by the parser    *)
(* task in an endless loop, and the end sign that module_mqtt_publ         *)
(* (module_api_inf.c) sets and clears in the application task.             *)
(*                                                                         *)
(* The ring buffer is a queue here (RingBuff shows that it is one), a byte *)
(* the pair of the number of its line and its place in it.  A line is read *)
(* until CR LF; a prompt is a '>' without an end of line.                  *)
(***************************************************************************)
EXTENDS Integers, Sequences

CONSTANTS
  recv_bufsz,  \* the length of the receive buffer
  MaxLines     \* bound on what the module sends

ASSUME ReaderAssumption == recv_bufsz \in Nat \ {0} /\ MaxLines \in Nat

(***************************************************************************)
(* What the module sends: an answer, a URC, a URC with '>' in its payload, *)
(* a line longer than the others, and the prompt.                          *)
(***************************************************************************)
Text == [answer |-> <<"o", "CR", "LF">>,
         urc |-> <<"+", "o", "CR", "LF">>,
         urcsign |-> <<"+", ">", "CR", "LF">>,
         long |-> <<"o", "o", "o", "o", "CR", "LF">>,
         prompt |-> <<">">>]
Kind == DOMAIN Text

VARIABLES
  sent,      \* the kinds of what the module has sent or is sending
  at,        \* bytes of the last of them that are on their way or read
  ring,      \* the bytes received
  buf,       \* recv_buffer up to cur_recv_len
  last_ch, is_full,
  end_sign,  \* TRUE iff client->end_sign is '>'
  prompting, \* TRUE iff a prompt is due: the command of a publication went out
  line,      \* the line last given to the parser
  lines,     \* how many were
  since,     \* lines given since bytes were lost or joined (2: or never)
  calm       \* TRUE iff none ever were

vars == <<sent, at, ring, buf, last_ch, is_full, end_sign, prompting, line,
          lines, since, calm>>
module == <<sent, at>>
reader == <<buf, last_ch, is_full, line, lines, since, calm>>

Byte == (1..MaxLines) \X (1..6)
Ch(b) == Text[sent[b[1]]][b[2]]

TypeOK ==
  /\ sent \in Seq(Kind) /\ Len(sent) <= MaxLines
  /\ at \in 0..6
  /\ ring \in Seq(Byte) /\ buf \in Seq(Byte) /\ line \in Seq(Byte)
  /\ Len(buf) <= recv_bufsz
  /\ last_ch \in {"none", "+", "o", ">", "CR", "LF"}
  /\ is_full \in BOOLEAN /\ end_sign \in BOOLEAN /\ prompting \in BOOLEAN
  /\ lines \in Nat /\ since \in 0..2 /\ calm \in BOOLEAN

-----------------------------------------------------------------------------
(***************************************************************************)
(* The module sends line by line and byte by byte, a prompt only when a    *)
(* publication has asked for it.                                           *)
(***************************************************************************)
Sent == sent # <<>> => at = Len(Text[sent[Len(sent)]])

SendLine ==
  /\ Sent /\ Len(sent) < MaxLines
  /\ \E k \in Kind :
       /\ k = "prompt" => prompting
       /\ sent' = Append(sent, k)
       /\ prompting' = (prompting /\ k # "prompt")
  /\ at' = 0
  /\ UNCHANGED <<ring, end_sign, reader>>

SendByte ==
  /\ ~Sent
  /\ at' = at + 1
  /\ ring' = Append(ring, <<Len(sent), at + 1>>)
  /\ UNCHANGED <<sent, end_sign, prompting, reader>>

-----------------------------------------------------------------------------
(***************************************************************************)
(* module_mqtt_publ: the end sign is set before the command is sent, and   *)
(* cleared when the payload has been sent or the command has failed.       *)
(* Whether the prompt has been read by then is not asked.                  *)
(***************************************************************************)
SetEndSign ==
  /\ ~end_sign
  /\ end_sign' = TRUE
  /\ UNCHANGED <<module, ring, reader, prompting>>

SendCommand ==
  /\ end_sign /\ ~prompting
  /\ prompting' = TRUE
  /\ UNCHANGED <<module, ring, end_sign, reader>>

ClearEndSign ==
  /\ end_sign
  /\ end_sign' = FALSE
  /\ UNCHANGED <<module, ring, prompting, reader>>

-----------------------------------------------------------------------------
\* get_urc_obj: the prefix and the suffix of a URC.
Urc(s) ==
  /\ Len(s) >= 3
  /\ Ch(s[1]) = "+"
  /\ Ch(s[Len(s) - 1]) = "CR" /\ Ch(s[Len(s)]) = "LF"

\* Mutant of Ends: the CR alone ends a line.
EndsAtCR(ch, stored) ==
  \/ ch = "CR"
  \/ end_sign /\ ch = ">"
  \/ Urc(stored)

\* Newline, end sign or URC.
Ends(ch, stored) ==
  \/ ch = "LF" /\ last_ch = "CR"
  \/ end_sign /\ ch = ">"
  \/ Urc(stored)

\* Mutant of Restart: the buffer is not emptied.
RestartUncleared == UNCHANGED buf /\ last_ch' = "none" /\ is_full' = FALSE

\* at_recv_readline is called anew.
Restart == buf' = <<>> /\ last_ch' = "none" /\ is_full' = FALSE

\* Bytes are lost here, or joined to what does not belong to them.
Disturbed == since' = 0 /\ calm' = FALSE

\* A '>' that the end sign cuts out of a line, or a prompt that it does not.
Confused(b) == Ch(b) = ">" /\ (end_sign # (sent[b[1]] = "prompt"))

\* Mutant of Stored: one byte too many.
StoredBeyond(b) == IF Len(buf) <= recv_bufsz THEN Append(buf, b) ELSE buf

Stored(b) == IF Len(buf) < recv_bufsz THEN Append(buf, b) ELSE buf

\* getchar pops a byte and the timer has not expired.
ReadByte ==
  /\ ring # <<>>
  /\ LET b == Head(ring)
     IN  /\ ring' = Tail(ring)
         /\ ~Ends(Ch(b), Stored(b))
         /\ buf' = Stored(b)
         /\ is_full' = (is_full \/ Len(buf) >= recv_bufsz)
         /\ last_ch' = Ch(b)
         /\ IF Confused(b) THEN Disturbed ELSE UNCHANGED <<since, calm>>
  /\ UNCHANGED <<module, end_sign, prompting, line, lines>>

ReadLine ==
  /\ ring # <<>>
  /\ LET b == Head(ring)
     IN  /\ Ends(Ch(b), Stored(b))
         /\ ~is_full /\ Len(buf) < recv_bufsz
         /\ ring' = Tail(ring)
         /\ line' = Stored(b)
         /\ lines' = lines + 1
         /\ IF Confused(b) THEN Disturbed
            ELSE /\ since' = IF since = 0 THEN 1 ELSE 2
                 /\ UNCHANGED calm
  /\ Restart
  /\ UNCHANGED <<module, end_sign, prompting>>

\* The line did not fit: it is thrown away, and everything received with it.
Overflow ==
  /\ ring # <<>>
  /\ LET b == Head(ring) IN Ends(Ch(b), Stored(b))
  /\ is_full \/ Len(buf) >= recv_bufsz
  /\ ring' = <<>>
  /\ Restart
  /\ Disturbed
  /\ UNCHANGED <<module, end_sign, prompting, line, lines>>

\* getchar finds nothing in time: the line begun is given up.
Timeout ==
  /\ ring = <<>>
  /\ Restart
  /\ buf # <<>>
  /\ Disturbed
  /\ UNCHANGED <<module, ring, end_sign, prompting, line, lines>>

\* getchar asks for the timer again after it popped a byte: the byte is lost.
LateByte ==
  /\ ring # <<>>
  /\ ring' = Tail(ring)
  /\ Restart
  /\ Disturbed
  /\ UNCHANGED <<module, end_sign, prompting, line, lines>>

-----------------------------------------------------------------------------
Init ==
  /\ sent = <<>> /\ at = 0 /\ ring = <<>>
  /\ buf = <<>> /\ last_ch = "none" /\ is_full = FALSE
  /\ end_sign = FALSE /\ prompting = FALSE
  /\ line = <<>> /\ lines = 0 /\ since = 2 /\ calm = TRUE

Next ==
  \/ SendLine \/ SendByte
  \/ SetEndSign \/ SendCommand \/ ClearEndSign
  \/ ReadByte \/ ReadLine \/ Overflow \/ Timeout \/ LateByte

Spec == Init /\ [][Next]_vars

-----------------------------------------------------------------------------
(***************************************************************************)
(* Properties                                                              *)
(***************************************************************************)
\* s is all of what the module sent as its i-th line.
Whole(s, i) == s = [j \in 1..Len(Text[sent[i]]) |-> <<i, j>>]

\* While no byte was lost by a timer, an overflow or an end sign at the wrong
\* time, the parser gets every line as it was sent, in order, none left out.
CalmLinesAreSent == calm /\ lines > 0 => Whole(line, lines)

\* After bytes were lost the reader finds the beginning of a line again: at
\* most one line is spoilt, whatever was lost, were it the LF after a CR.
DamageIsLocal == since = 2 /\ lines > 0 => Whole(line, line[1][1])
=============================================================================
