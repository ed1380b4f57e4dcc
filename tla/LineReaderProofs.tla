-------------------------- MODULE LineReaderProofs --------------------------
(***************************************************************************)
(* What the parser is given, for every length of the receive buffer and    *)
(* any number of lines.  The bytes the module sends are a stream; the ring *)
(* is always a piece of it, since bytes are lost at its front only, and    *)
(* the receive buffer is the beginning of a line as long as nothing was    *)
(* lost since the last one.                                                *)
(***************************************************************************)
EXTENDS LineReader, TLAPS

Char == {"+", "o", ">", "CR", "LF"}
Size(s, i) == Len(Text[s[i]])

\* b is a byte of a line of s.
Sendable(s, b) == b[1] \in 1..Len(s) /\ b[2] \in 1..Size(s, b[1])

\* The byte after b in the stream.
After(s, b) == IF b[2] = Size(s, b[1]) THEN <<b[1] + 1, 1>> ELSE <<b[1], b[2] + 1>>

\* The next byte to be sent, and the next to be read.
Coming == IF Sent THEN <<Len(sent) + 1, 1>> ELSE <<Len(sent), at + 1>>
First == IF ring = <<>> THEN Coming ELSE ring[1]

StreamInv ==
  /\ sent # <<>> => at <= Size(sent, Len(sent))
  /\ sent = <<>> => ring = <<>>
  /\ \A k \in 1..Len(ring) : Sendable(sent, ring[k])
  /\ \A k \in 1..(Len(ring) - 1) : ring[k + 1] = After(sent, ring[k])
  /\ ring # <<>> => Coming = After(sent, ring[Len(ring)])

\* The buffer holds the beginning of the line whose next byte is read next.
Aligned ==
  /\ buf = [j \in 1..Len(buf) |-> <<First[1], j>>]
  /\ First[2] = Len(buf) + 1
  /\ buf # <<>> => First[1] \in 1..Len(sent) /\ last_ch = Text[sent[First[1]]][Len(buf)]

BufInv ==
  /\ since >= 1 /\ ~is_full => Aligned
  /\ calm => since = 2
  /\ calm /\ ~is_full => First[1] = lines + 1

LineInv ==
  /\ since = 2 /\ lines > 0 =>
       \E i \in 1..Len(sent) : Whole(line, i) /\ (calm => i = lines)

IInv == TypeOK /\ StreamInv /\ BufInv /\ LineInv

-----------------------------------------------------------------------------
(***************************************************************************)
(* The texts: an end of line is at the end only, and every line but the    *)
(* prompt has one.                                                         *)
(***************************************************************************)
LEMMA Texts ==
  ASSUME NEW k \in Kind
  PROVE  /\ Len(Text[k]) \in 1..6
         /\ \A j \in 1..Len(Text[k]) :
              /\ Text[k][j] \in Char
              /\ Text[k][j] = "LF" => j = Len(Text[k])
         /\ k = "prompt" => Len(Text[k]) = 1 /\ Text[k][1] = ">"
         /\ k # "prompt" => /\ Len(Text[k]) >= 3
                            /\ Text[k][Len(Text[k])] = "LF"
                            /\ Text[k][Len(Text[k]) - 1] = "CR"
<1>1. k \in {"answer", "urc", "urcsign", "long", "prompt"}
  BY DEF Kind, Text
<1>2. /\ Text["answer"] = <<"o", "CR", "LF">>
      /\ Text["urc"] = <<"+", "o", "CR", "LF">>
      /\ Text["urcsign"] = <<"+", ">", "CR", "LF">>
      /\ Text["long"] = <<"o", "o", "o", "o", "CR", "LF">>
      /\ Text["prompt"] = <<">">>
  BY DEF Text
<1>3. CASE k = "answer"
  <2>1. Len(Text[k]) = 3 /\ Text[k][1] = "o" /\ Text[k][2] = "CR" /\ Text[k][3] = "LF"
    BY <1>2, <1>3
  <2>2. \A j \in 1..3 : j = 1 \/ j = 2 \/ j = 3
    OBVIOUS
  <2> QED BY <1>3, <2>1, <2>2 DEF Char
<1>4. CASE k = "urc"
  <2>1. /\ Len(Text[k]) = 4
        /\ Text[k][1] = "+" /\ Text[k][2] = "o" /\ Text[k][3] = "CR" /\ Text[k][4] = "LF"
    BY <1>2, <1>4
  <2>2. \A j \in 1..4 : j = 1 \/ j = 2 \/ j = 3 \/ j = 4
    OBVIOUS
  <2> QED BY <1>4, <2>1, <2>2 DEF Char
<1>5. CASE k = "urcsign"
  <2>1. /\ Len(Text[k]) = 4
        /\ Text[k][1] = "+" /\ Text[k][2] = ">" /\ Text[k][3] = "CR" /\ Text[k][4] = "LF"
    BY <1>2, <1>5
  <2>2. \A j \in 1..4 : j = 1 \/ j = 2 \/ j = 3 \/ j = 4
    OBVIOUS
  <2> QED BY <1>5, <2>1, <2>2 DEF Char
<1>6. CASE k = "long"
  <2>1. /\ Len(Text[k]) = 6
        /\ Text[k][1] = "o" /\ Text[k][2] = "o" /\ Text[k][3] = "o" /\ Text[k][4] = "o"
        /\ Text[k][5] = "CR" /\ Text[k][6] = "LF"
    BY <1>2, <1>6
  <2>2. \A j \in 1..6 : j = 1 \/ j = 2 \/ j = 3 \/ j = 4 \/ j = 5 \/ j = 6
    OBVIOUS
  <2> QED BY <1>6, <2>1, <2>2 DEF Char
<1>7. CASE k = "prompt"
  <2>1. Len(Text[k]) = 1 /\ Text[k][1] = ">"
    BY <1>2, <1>7
  <2>2. \A j \in 1..1 : j = 1
    OBVIOUS
  <2> QED BY <1>7, <2>1, <2>2 DEF Char
<1> QED BY <1>1, <1>3, <1>4, <1>5, <1>6, <1>7

LEMMA Sizes ==
  ASSUME TypeOK, NEW i \in 1..Len(sent)
  PROVE  sent[i] \in Kind /\ Size(sent, i) \in 1..6
<1>1. sent[i] \in Kind
  BY DEF TypeOK
<1> QED BY <1>1, Texts DEF Size

LEMMA SendableByte ==
  ASSUME TypeOK, NEW b, Sendable(sent, b), b = <<b[1], b[2]>>
  PROVE  b \in Byte /\ Ch(b) \in Char
<1>1. b[1] \in 1..MaxLines
  BY ReaderAssumption DEF Sendable, TypeOK
<1>2. sent[b[1]] \in Kind /\ b[2] \in 1..6
  BY Sizes DEF Sendable
<1>3. Ch(b) \in Char
  BY <1>2, Texts DEF Sendable, Size, Ch
<1> QED BY <1>1, <1>2, <1>3 DEF Byte

(***************************************************************************)
(* What happens to the stream.                                             *)
(***************************************************************************)
LEMMA RingTyped ==
  ASSUME TypeOK
  PROVE  /\ ring \in Seq(Byte) /\ Len(ring) \in Nat /\ DOMAIN ring = 1..Len(ring)
         /\ \A k \in 1..Len(ring) : ring[k] = <<ring[k][1], ring[k][2]>>
<1>1. ring \in Seq(Byte)
  BY DEF TypeOK
<1>2. \A k \in 1..Len(ring) : ring[k] \in Byte
  BY <1>1
<1>3. \A b \in Byte : b = <<b[1], b[2]>>
  BY DEF Byte
<1> QED BY <1>1, <1>2, <1>3

LEMMA Popped ==
  ASSUME TypeOK, StreamInv, ring # <<>>, ring' = Tail(ring), UNCHANGED module
  PROVE  /\ StreamInv'
         /\ First' = After(sent, First) /\ First = Head(ring)
         /\ Sendable(sent, First) /\ First = <<First[1], First[2]>>
         /\ ring' \in Seq(Byte)
<1>1. /\ Head(ring) = ring[1] /\ Len(ring) >= 1 /\ Len(ring) \in Nat
      /\ ring' \in Seq(Byte) /\ Len(ring') = Len(ring) - 1
      /\ \A k \in 1..(Len(ring) - 1) : ring'[k] = ring[k + 1]
  BY RingTyped
<1>2. UNCHANGED <<sent, at>>
  BY DEF module
<1>3. Coming' = Coming
  BY <1>2 DEF Coming, Sent
<1>4. First = ring[1] /\ Sendable(sent, ring[1]) /\ First = <<First[1], First[2]>>
  BY <1>1, RingTyped DEF First, StreamInv
<1>5. First' = After(sent, First)
  <2>1. CASE Len(ring) = 1
    <3>1. ring' = <<>>
      BY <1>1, <2>1
    <3>2. Coming = After(sent, ring[1])
      BY <2>1 DEF StreamInv
    <3> QED BY <1>3, <1>4, <3>1, <3>2 DEF First
  <2>2. CASE Len(ring) # 1
    <3>1. 1 \in 1..(Len(ring) - 1)
      BY <1>1, <2>2
    <3>2. ring'[1] = ring[1 + 1]
      BY <1>1, <3>1
    <3>3. ring' # <<>>
      <4>1. Len(ring') # 0
        BY <1>1, <2>2
      <4> QED BY <4>1
    <3>4. ring[1 + 1] = After(sent, ring[1])
      BY <3>1 DEF StreamInv
    <3> QED BY <1>4, <3>2, <3>3, <3>4 DEF First
  <2> QED BY <2>1, <2>2
<1>6. StreamInv'
  <2>1. \A k \in 1..Len(ring') : Sendable(sent, ring'[k])
    BY <1>1 DEF StreamInv
  <2>2. \A k \in 1..(Len(ring') - 1) : ring'[k + 1] = After(sent, ring'[k])
    BY <1>1 DEF StreamInv
  <2>3. ring' # <<>> => Coming = After(sent, ring'[Len(ring')])
    <3> SUFFICES ASSUME ring' # <<>> PROVE Coming = After(sent, ring'[Len(ring')])
      OBVIOUS
    <3>1. Len(ring) - 1 \in 1..(Len(ring) - 1)
      BY <1>1
    <3> QED BY <1>1, <3>1 DEF StreamInv
  <2>4. sent = <<>> => ring' = <<>>
    BY DEF StreamInv
  <2> QED BY <1>2, <1>3, <2>1, <2>2, <2>3, <2>4 DEF StreamInv
<1> QED BY <1>1, <1>4, <1>5, <1>6

LEMMA LineSent ==
  ASSUME TypeOK, StreamInv, SendLine
  PROVE  /\ StreamInv' /\ First' = First
         /\ \A i \in 1..Len(sent) : i \in 1..Len(sent') /\ sent'[i] = sent[i]
<1>1. PICK k \in Kind : sent' = Append(sent, k)
  BY DEF SendLine
<1>2. /\ sent \in Seq(Kind) /\ Len(sent) \in Nat /\ Len(sent') = Len(sent) + 1
      /\ sent' # <<>> /\ sent'[Len(sent) + 1] = k
      /\ \A i \in 1..Len(sent) : i \in 1..Len(sent') /\ sent'[i] = sent[i]
  BY <1>1 DEF TypeOK
<1>3. at' = 0 /\ ring' = ring /\ Sent
  BY DEF SendLine
<1>4. Size(sent', Len(sent')) = Len(Text[k]) /\ Len(Text[k]) \in 1..6
  BY <1>2, Texts DEF Size
<1>5. Coming' = Coming
  <2>1. ~Sent'
    BY <1>2, <1>3, <1>4 DEF Sent
  <2> QED BY <1>2, <1>3, <2>1 DEF Coming
<1>6. \A b : Sendable(sent, b) => Sendable(sent', b) /\ After(sent', b) = After(sent, b)
  BY <1>2 DEF Sendable, After, Size
<1>7. First' = First
  BY <1>3, <1>5 DEF First
<1>8. StreamInv'
  <2>1. sent' # <<>> => at' <= Size(sent', Len(sent'))
    BY <1>3, <1>4
  <2>2. \A j \in 1..Len(ring') : Sendable(sent', ring'[j])
    BY <1>3, <1>6 DEF StreamInv
  <2>3. \A j \in 1..(Len(ring') - 1) : ring'[j + 1] = After(sent', ring'[j])
    <3>1. Len(ring) \in Nat
      BY RingTyped
    <3>2. \A j \in 1..(Len(ring) - 1) :
            Sendable(sent, ring[j]) /\ ring[j + 1] = After(sent, ring[j])
      BY <3>1 DEF StreamInv
    <3> QED BY <1>3, <1>6, <3>2
  <2>4. ring' # <<>> => Coming' = After(sent', ring'[Len(ring')])
    <3> SUFFICES ASSUME ring # <<>> PROVE Coming = After(sent', ring[Len(ring)])
      BY <1>3, <1>5
    <3>1. Len(ring) \in 1..Len(ring)
      BY RingTyped
    <3> QED BY <1>6, <3>1 DEF StreamInv
  <2> QED BY <1>2, <2>1, <2>2, <2>3, <2>4 DEF StreamInv
<1> QED BY <1>2, <1>7, <1>8

LEMMA ByteSent ==
  ASSUME TypeOK, StreamInv, SendByte
  PROVE  StreamInv' /\ First' = First /\ ring' \in Seq(Byte) /\ at' \in 0..6
<1>1. /\ sent # <<>> /\ at # Size(sent, Len(sent)) /\ sent' = sent /\ at' = at + 1
      /\ ring' = Append(ring, <<Len(sent), at + 1>>)
  BY DEF SendByte, Sent, Size
<1>2. Len(sent) \in 1..Len(sent) /\ Size(sent, Len(sent)) \in 1..6
  <2>1. Len(sent) \in 1..Len(sent)
    BY <1>1 DEF TypeOK
  <2> QED BY <2>1, Sizes
<1>3. at \in 0..6 /\ at + 1 \in 1..Size(sent, Len(sent))
  BY <1>1, <1>2 DEF TypeOK, StreamInv
<1> DEFINE c == <<Len(sent), at + 1>>
<1>4. Coming = c /\ Sendable(sent, c) /\ c[1] = Len(sent) /\ c[2] = at + 1
  BY <1>1, <1>2, <1>3 DEF Coming, Sendable, SendByte
<1>5. c \in Byte
  BY <1>4, SendableByte
<1>6. Coming' = After(sent, c)
  BY <1>1, <1>2, <1>3, <1>4 DEF Coming, Sent, After, Size
<1> HIDE DEF c
<1>7. /\ Len(ring) \in Nat /\ ring' \in Seq(Byte) /\ ring' # <<>> /\ Len(ring') = Len(ring) + 1
      /\ ring'[Len(ring) + 1] = c
      /\ \A k \in 1..Len(ring) : ring'[k] = ring[k]
  BY <1>1, <1>5, RingTyped DEF c
<1>8. First' = First
  <2>1. CASE ring = <<>>
    <3>1. Len(ring) = 0
      BY <2>1
    <3> QED BY <1>4, <1>7, <2>1, <3>1 DEF First
  <2>2. CASE ring # <<>>
    <3>1. 1 \in 1..Len(ring)
      BY <2>2, RingTyped
    <3> QED BY <1>7, <2>2, <3>1 DEF First
  <2> QED BY <2>1, <2>2
<1>9. StreamInv'
  <2>1. \A k \in 1..Len(ring') : Sendable(sent, ring'[k])
    <3> SUFFICES ASSUME NEW k \in 1..Len(ring') PROVE Sendable(sent, ring'[k])
      OBVIOUS
    <3>1. k \in 1..Len(ring) \/ k = Len(ring) + 1
      BY <1>7
    <3> QED BY <1>4, <1>7, <3>1 DEF StreamInv
  <2>2. \A k \in 1..(Len(ring') - 1) : ring'[k + 1] = After(sent, ring'[k])
    <3> SUFFICES ASSUME NEW k \in 1..Len(ring) PROVE ring'[k + 1] = After(sent, ring'[k])
      BY <1>7
    <3>1. CASE k = Len(ring)
      <4>1. ring # <<>>
        BY <1>7
      <4> QED BY <1>4, <1>7, <3>1, <4>1 DEF StreamInv
    <3>2. CASE k # Len(ring)
      <4>1. k \in 1..(Len(ring) - 1) /\ k + 1 \in 1..Len(ring)
        BY <1>7, <3>2
      <4> QED BY <1>7, <4>1 DEF StreamInv
    <3> QED BY <3>1, <3>2
  <2>3. at' <= Size(sent, Len(sent))
    BY <1>1, <1>2, <1>3
  <2> QED BY <1>1, <1>6, <1>7, <2>1, <2>2, <2>3 DEF StreamInv
<1>10. at' \in 0..6
  BY <1>1, <1>2, <1>3
<1> QED BY <1>7, <1>8, <1>9, <1>10

-----------------------------------------------------------------------------
(***************************************************************************)
(* What the reader makes of the next byte.  A byte that ends a line and    *)
(* does not meet the end sign at the wrong time is the last of its line,   *)
(* and conversely, when the buffer holds the line so far.                  *)
(***************************************************************************)
LEMMA EndIsLast ==
  ASSUME TypeOK, NEW b, Sendable(sent, b), NEW s \in Seq(Byte), Ends(Ch(b), Append(s, b)),
         b \in Byte, ~Confused(b)
  PROVE  b[2] = Size(sent, b[1])
<1> DEFINE k == sent[b[1]]
<1>1. k \in Kind /\ b[2] \in 1..Len(Text[k]) /\ Size(sent, b[1]) = Len(Text[k])
  BY Sizes DEF Sendable, Size
<1>2. Ch(b) = Text[k][b[2]]
  BY DEF Ch
<1>3. CASE Ch(b) = "LF"
  <2>1. \A j \in 1..Len(Text[k]) : Text[k][j] = "LF" => j = Len(Text[k])
    BY <1>1, Texts
  <2> QED BY <1>1, <1>2, <1>3, <2>1
<1>4. CASE end_sign /\ Ch(b) = ">"
  <2>1. k = "prompt"
    BY <1>4 DEF Confused
  <2> QED BY <1>1, <2>1, Texts
<1>5. CASE Urc(Append(s, b))
  <2>1. Append(s, b)[Len(Append(s, b))] = b
    OBVIOUS
  <2>2. Ch(b) = "LF"
    BY <1>5, <2>1 DEF Urc
  <2> QED BY <1>3, <2>2
<1> QED BY <1>3, <1>4, <1>5 DEF Ends

LEMMA LastIsEnd ==
  ASSUME TypeOK, StreamInv, Aligned, ring # <<>>, First[2] = Size(sent, First[1]),
         ~Confused(First), NEW s
  PROVE  Ends(Ch(First), s)
<1> DEFINE b == First
           k == sent[b[1]]
<1>1. Sendable(sent, b)
  <2>1. 1 \in 1..Len(ring)
    BY RingTyped
  <2> QED BY <2>1 DEF StreamInv, First
<1>2. k \in Kind /\ Size(sent, b[1]) = Len(Text[k]) /\ Ch(b) = Text[k][Len(Text[k])]
  BY <1>1, Sizes DEF Sendable, Size, Ch
<1>3. CASE k = "prompt"
  <2>1. Ch(b) = ">"
    BY <1>2, <1>3, Texts
  <2> QED BY <1>3, <2>1 DEF Confused, Ends
<1>4. CASE k # "prompt"
  <2>1. /\ Ch(b) = "LF" /\ Len(Text[k]) >= 3 /\ Len(Text[k]) \in 1..6
        /\ Text[k][Len(Text[k]) - 1] = "CR"
    BY <1>2, <1>4, Texts
  <2>2. Len(buf) = Len(Text[k]) - 1 /\ buf # <<>>
    <3>1. Len(buf) + 1 = Len(Text[k]) /\ Len(buf) \in Nat
      BY <1>2 DEF Aligned, TypeOK
    <3> QED BY <2>1, <3>1
  <2>3. last_ch = "CR"
    BY <2>1, <2>2 DEF Aligned
  <2> QED BY <2>1, <2>3 DEF Ends
<1> QED BY <1>3, <1>4

\* The buffer with the next byte of its line.
LEMMA Prefix ==
  ASSUME NEW i, NEW n \in Nat, NEW s, s = [j \in 1..n |-> <<i, j>>], NEW b, b = <<i, n + 1>>
  PROVE  /\ Len(s) = n
         /\ Append(s, b) = [j \in 1..(n + 1) |-> <<i, j>>]
         /\ Len(Append(s, b)) = n + 1
<1>1. s \in Seq({i} \X (1..n)) /\ Len(s) = n
  OBVIOUS
<1>2. /\ Append(s, b) \in Seq({i} \X (1..n) \cup {b}) /\ Len(Append(s, b)) = n + 1
      /\ \A j \in 1..n : Append(s, b)[j] = <<i, j>>
      /\ Append(s, b)[n + 1] = b
  BY <1>1
<1>3. DOMAIN Append(s, b) = 1..(n + 1)
  BY <1>2
<1>4. \A j \in 1..(n + 1) : Append(s, b)[j] = <<i, j>>
  BY <1>2
<1>5. Append(s, b) = [j \in DOMAIN Append(s, b) |-> Append(s, b)[j]]
  BY <1>2
<1> QED BY <1>1, <1>2, <1>3, <1>4, <1>5

(***************************************************************************)
(* Types and the initial state.                                            *)
(***************************************************************************)
LEMMA InitIInv == Init => IInv
<1> SUFFICES ASSUME Init PROVE IInv
  OBVIOUS
<1>1. TypeOK
  <2>1. sent \in Seq(Kind) /\ Len(sent) <= MaxLines
    BY ReaderAssumption DEF Init
  <2>2. ring \in Seq(Byte) /\ buf \in Seq(Byte) /\ line \in Seq(Byte) /\ Len(buf) <= recv_bufsz
    BY ReaderAssumption DEF Init
  <2>3. is_full \in BOOLEAN /\ end_sign \in BOOLEAN /\ prompting \in BOOLEAN /\ calm \in BOOLEAN
    BY Zenon DEF Init
  <2> QED BY <2>1, <2>2, <2>3 DEF Init, TypeOK
<1>2. StreamInv
  BY DEF Init, StreamInv
<1>3. First = <<1, 1>>
  BY DEF Init, First, Coming, Sent
<1>4. buf = [j \in 1..Len(buf) |-> <<First[1], j>>]
  BY DEF Init
<1>5. BufInv
  BY <1>3, <1>4 DEF Init, BufInv, Aligned
<1>6. LineInv
  BY DEF Init, LineInv
<1> QED BY <1>1, <1>2, <1>5, <1>6 DEF IInv

LEMMA ModuleStep == IInv /\ (SendLine \/ SendByte) => IInv'
<1> SUFFICES ASSUME IInv, SendLine \/ SendByte PROVE IInv'
  OBVIOUS
<1> USE DEF IInv
<1>1. UNCHANGED reader /\ UNCHANGED end_sign
  BY DEF SendLine, SendByte
<1>2. /\ StreamInv' /\ First' = First
      /\ \A i \in 1..Len(sent) : i \in 1..Len(sent') /\ sent'[i] = sent[i]
  <2>1. CASE SendLine
    BY <2>1, LineSent
  <2>2. CASE SendByte
    BY <2>2, ByteSent DEF SendByte
  <2> QED BY <2>1, <2>2
<1>3. TypeOK'
  <2>1. CASE SendLine
    <3>1. sent' \in Seq(Kind) /\ Len(sent') <= MaxLines
      BY <2>1, ReaderAssumption DEF SendLine, TypeOK
    <3>2. prompting' \in BOOLEAN
      BY <2>1 DEF SendLine
    <3> QED BY <1>1, <2>1, <3>1, <3>2 DEF SendLine, TypeOK, reader
  <2>2. CASE SendByte
    <3>1. ring' \in Seq(Byte) /\ at' \in 0..6
      BY <2>2, ByteSent
    <3> QED BY <1>1, <2>2, <3>1 DEF SendByte, TypeOK, reader
  <2> QED BY <2>1, <2>2
<1>4. Aligned => Aligned'
  <2> SUFFICES ASSUME Aligned PROVE Aligned'
    OBVIOUS
  <2>1. buf' = buf /\ last_ch' = last_ch
    BY <1>1 DEF reader
  <2>2. ASSUME buf # <<>>
        PROVE  First[1] \in 1..Len(sent') /\ last_ch = Text[sent'[First[1]]][Len(buf)]
    BY <1>2, <2>2 DEF Aligned
  <2> QED BY <1>2, <2>1, <2>2 DEF Aligned
<1>5. BufInv'
  BY <1>1, <1>2, <1>4 DEF BufInv, reader
<1>6. LineInv'
  BY <1>1, <1>2 DEF LineInv, Whole, reader
<1> QED BY <1>2, <1>3, <1>5, <1>6

LEMMA EndSignStep ==
  IInv /\ (SetEndSign \/ SendCommand \/ ClearEndSign \/ UNCHANGED vars) => IInv'
<1> SUFFICES ASSUME IInv, SetEndSign \/ SendCommand \/ ClearEndSign \/ UNCHANGED vars PROVE IInv'
  OBVIOUS
<1>1. UNCHANGED <<sent, at, ring, buf, last_ch, is_full, line, lines, since, calm>>
  BY DEF SetEndSign, SendCommand, ClearEndSign, vars, module, reader
<1>2. end_sign' \in BOOLEAN /\ prompting' \in BOOLEAN
  BY DEF SetEndSign, SendCommand, ClearEndSign, vars, IInv, TypeOK
<1>3. TypeOK'
  BY <1>1, <1>2 DEF IInv, TypeOK
<1>4. First' = First /\ Coming' = Coming
  BY <1>1 DEF First, Coming, Sent
<1>5. StreamInv'
  BY <1>1, <1>4 DEF IInv, StreamInv
<1>6. BufInv' /\ LineInv'
  BY <1>1, <1>4 DEF IInv, BufInv, Aligned, LineInv, Whole
<1> QED BY <1>3, <1>5, <1>6 DEF IInv

(***************************************************************************)
(* The steps of the reader.                                                *)
(***************************************************************************)
LEMMA ByteRead == IInv /\ ReadByte => IInv'
<1> SUFFICES ASSUME IInv, ReadByte PROVE IInv'
  OBVIOUS
<1> USE DEF IInv
<1> DEFINE b == Head(ring)
<1>1. /\ ring # <<>> /\ ring' = Tail(ring)
      /\ ~Ends(Ch(b), Stored(b))
      /\ buf' = Stored(b) /\ last_ch' = Ch(b)
      /\ is_full' = (is_full \/ Len(buf) >= recv_bufsz)
      /\ IF Confused(b) THEN since' = 0 /\ calm' = FALSE ELSE UNCHANGED <<since, calm>>
      /\ UNCHANGED <<module, sent, at, end_sign, prompting, line, lines>>
  BY DEF ReadByte, Disturbed, module
<1>2. /\ StreamInv' /\ First' = After(sent, First) /\ First = b
      /\ Sendable(sent, First) /\ First = <<First[1], First[2]>> /\ ring' \in Seq(Byte)
  BY <1>1, Popped
<1>3. b \in Byte /\ Ch(b) \in Char
  BY <1>2, SendableByte
<1> HIDE DEF b
<1>4. Len(buf) \in Nat /\ recv_bufsz \in Nat /\ buf \in Seq(Byte)
  BY ReaderAssumption DEF TypeOK
<1>5. TypeOK'
  <2>1. buf' \in Seq(Byte) /\ Len(buf') <= recv_bufsz
    <3>1. CASE Len(buf) < recv_bufsz
      BY <1>1, <1>3, <1>4, <3>1 DEF Stored
    <3>2. CASE ~(Len(buf) < recv_bufsz)
      BY <1>1, <3>2 DEF Stored, TypeOK
    <3> QED BY <3>1, <3>2
  <2>2. is_full' \in BOOLEAN /\ calm' \in BOOLEAN
    BY <1>1, Zenon DEF TypeOK
  <2>3. since' \in 0..2
    <3>1. since' = 0 \/ since' = since
      BY <1>1, Zenon
    <3> QED BY <3>1 DEF TypeOK
  <2> QED BY <1>1, <1>2, <1>3, <2>1, <2>2, <2>3 DEF TypeOK, Char
<1>6. ASSUME since' >= 1, ~is_full'
      PROVE  /\ since >= 1 /\ ~is_full /\ ~Confused(b)
             /\ Aligned' /\ First'[1] = First[1]
  <2>1. since >= 1 /\ ~is_full /\ ~Confused(b) /\ Len(buf) < recv_bufsz
    <3>1. ~is_full /\ ~(Len(buf) >= recv_bufsz)
      BY <1>1, <1>6, Zenon
    <3>2. CASE Confused(b)
      <4>1. since' = 0
        BY <1>1, <3>2, Zenon
      <4> QED BY <1>6, <4>1
    <3>3. CASE ~Confused(b)
      <4>1. since' = since
        BY <1>1, <3>3, Zenon
      <4> QED BY <1>4, <1>6, <3>1, <3>3, <4>1
    <3> QED BY <3>2, <3>3
  <2>2. Aligned
    BY <2>1 DEF BufInv
  <2>3. First[2] # Size(sent, First[1])
    BY <1>1, <1>2, <2>1, <2>2, LastIsEnd
  <2>4. First' = <<First[1], First[2] + 1>>
    BY <1>2, <2>3 DEF After
  <2>5. buf' = Append(buf, b) /\ b = <<First[1], Len(buf) + 1>>
    BY <1>1, <1>2, <2>1, <2>2 DEF Stored, Aligned
  <2>6. buf = [j \in 1..Len(buf) |-> <<First[1], j>>]
    BY <2>2 DEF Aligned
  <2>7. /\ buf' = [j \in 1..(Len(buf) + 1) |-> <<First[1], j>>]
        /\ Len(buf') = Len(buf) + 1
    BY <1>4, <2>5, <2>6, Prefix
  <2>8. First[2] = Len(buf) + 1
    BY <2>2 DEF Aligned
  <2>9. /\ First[1] \in 1..Len(sent)
        /\ last_ch' = Text[sent[First[1]]][Len(buf) + 1]
    BY <1>1, <1>2, <2>8 DEF Sendable, Ch
  <2>10. First'[1] = First[1] /\ First'[2] = Len(buf') + 1
    BY <2>4, <2>7, <2>8
  <2>11. Aligned'
    BY <1>1, <2>7, <2>9, <2>10 DEF Aligned
  <2> QED BY <2>1, <2>10, <2>11
<1>7. calm' => calm /\ since' = since
  BY <1>1
<1>8. BufInv'
  <2>1. ASSUME calm', ~is_full' PROVE First'[1] = lines' + 1
    <3>1. calm /\ since' = 2
      BY <1>7, <2>1 DEF BufInv
    <3> QED BY <1>1, <1>6, <2>1, <3>1 DEF BufInv
  <2>2. calm' => since' = 2
    BY <1>7 DEF BufInv
  <2> QED BY <1>6, <2>1, <2>2 DEF BufInv
<1>9. LineInv'
  <2>1. since' = 2 => since = 2
    BY <1>1
  <2> QED BY <1>1, <1>7, <2>1 DEF LineInv, Whole
<1> QED BY <1>2, <1>5, <1>8, <1>9

LEMMA LineRead == IInv /\ ReadLine => IInv'
<1> SUFFICES ASSUME IInv, ReadLine PROVE IInv'
  OBVIOUS
<1> USE DEF IInv
<1> DEFINE b == Head(ring)
<1>1. /\ ring # <<>> /\ ring' = Tail(ring)
      /\ Ends(Ch(b), Stored(b)) /\ Stored(b) = Append(buf, b)
      /\ ~is_full /\ line' = Append(buf, b) /\ lines' = lines + 1
      /\ buf' = <<>> /\ last_ch' = "none" /\ is_full' = FALSE
      /\ IF Confused(b) THEN since' = 0 /\ calm' = FALSE
         ELSE since' = (IF since = 0 THEN 1 ELSE 2) /\ calm' = calm
      /\ UNCHANGED <<module, sent, at, end_sign, prompting>>
  BY DEF ReadLine, Restart, Disturbed, module, Stored
<1>2. /\ StreamInv' /\ First' = After(sent, First) /\ First = b
      /\ Sendable(sent, First) /\ First = <<First[1], First[2]>> /\ ring' \in Seq(Byte)
  BY <1>1, Popped
<1>3. b \in Byte
  BY <1>2, SendableByte
<1> HIDE DEF b
<1>4. Len(buf) \in Nat /\ buf \in Seq(Byte) /\ lines \in Nat
  BY DEF TypeOK
<1>5. TypeOK'
  <2>1. line' \in Seq(Byte) /\ lines' \in Nat
    BY <1>1, <1>3, <1>4
  <2>2. buf' \in Seq(Byte) /\ Len(buf') <= recv_bufsz
    BY <1>1, ReaderAssumption
  <2>3. since' \in 0..2
    <3>1. since' \in {0, 1, 2}
      BY <1>1
    <3> QED BY <3>1
  <2>4. calm' \in BOOLEAN /\ is_full' \in BOOLEAN
    BY <1>1, Zenon DEF TypeOK
  <2> QED BY <1>1, <1>2, <2>1, <2>2, <2>3, <2>4 DEF TypeOK
<1>6. ASSUME ~Confused(b)
      PROVE  First[2] = Size(sent, First[1]) /\ First' = <<First[1] + 1, 1>>
  <2>1. b[2] = Size(sent, b[1])
    BY <1>1, <1>2, <1>3, <1>4, <1>6, EndIsLast
  <2> QED BY <1>2, <2>1 DEF After
<1>7. ASSUME since' >= 1 PROVE Aligned'
  <2>1. First' = <<First[1] + 1, 1>>
    BY <1>1, <1>6, <1>7
  <2>2. Len(buf') = 0 /\ buf' = [j \in 1..Len(buf') |-> <<First'[1], j>>]
    BY <1>1
  <2> QED BY <1>1, <2>1, <2>2 DEF Aligned
<1>8. ASSUME since' = 2
      PROVE  /\ First[1] \in 1..Len(sent')
             /\ line' = [j \in 1..Size(sent', First[1]) |-> <<First[1], j>>]
  <2>1. ~Confused(b) /\ since >= 1
    BY <1>1, <1>8 DEF TypeOK
  <2>2. Aligned
    BY <1>1, <2>1 DEF BufInv
  <2>3. /\ buf = [j \in 1..Len(buf) |-> <<First[1], j>>]
        /\ b = <<First[1], Len(buf) + 1>>
        /\ Len(buf) + 1 = Size(sent, First[1])
    BY <1>2, <1>6, <2>1, <2>2 DEF Aligned
  <2>4. line' = [j \in 1..Size(sent, First[1]) |-> <<First[1], j>>]
    BY <1>1, <1>4, <2>3, Prefix
  <2> QED BY <1>1, <1>2, <2>4 DEF Sendable
<1>9. ASSUME calm' PROVE since' = 2 /\ First[1] = lines' /\ First'[1] = lines' + 1
  <2>1. ~Confused(b) /\ calm
    BY <1>1, <1>9
  <2>2. since = 2 /\ First[1] = lines + 1
    BY <1>1, <2>1 DEF BufInv
  <2> QED BY <1>1, <1>6, <2>1, <2>2
<1>10. BufInv'
  BY <1>7, <1>9 DEF BufInv
<1>11. LineInv'
  <2>1. PICK i : i = First[1]
    OBVIOUS
  <2>2. since' = 2 => i \in 1..Len(sent') /\ Whole(line, i)'
    BY <1>8, <2>1 DEF Whole, Size
  <2>3. calm' => i = lines'
    BY <1>9, <2>1
  <2> QED BY <2>2, <2>3 DEF LineInv
<1> QED BY <1>2, <1>5, <1>10, <1>11

\* Whatever is lost is lost at the front of the stream.
LEMMA LossStep == IInv /\ (Overflow \/ Timeout \/ LateByte) => IInv'
<1> SUFFICES ASSUME IInv, Overflow \/ Timeout \/ LateByte PROVE IInv'
  OBVIOUS
<1> USE DEF IInv
<1>1. /\ buf' = <<>> /\ last_ch' = "none" /\ is_full' = FALSE /\ since' = 0 /\ calm' = FALSE
      /\ UNCHANGED <<module, sent, at, end_sign, prompting, line, lines>>
  BY DEF Overflow, Timeout, LateByte, Restart, Disturbed, module
<1>2. StreamInv' /\ ring' \in Seq(Byte)
  <2>1. CASE Overflow
    BY <1>1, <2>1 DEF Overflow, StreamInv
  <2>2. CASE Timeout
    BY <1>1, <2>2 DEF Timeout, StreamInv, Coming, Sent, TypeOK
  <2>3. CASE LateByte
    BY <1>1, <2>3, Popped DEF LateByte
  <2> QED BY <2>1, <2>2, <2>3
<1>3. TypeOK'
  <2>1. buf' \in Seq(Byte) /\ Len(buf') <= recv_bufsz
    BY <1>1, ReaderAssumption
  <2>2. is_full' \in BOOLEAN /\ calm' \in BOOLEAN
    BY <1>1, Zenon
  <2>3. since' \in 0..2
    BY <1>1
  <2> QED BY <1>1, <1>2, <2>1, <2>2, <2>3 DEF TypeOK
<1>4. BufInv' /\ LineInv'
  BY <1>1 DEF BufInv, LineInv
<1> QED BY <1>2, <1>3, <1>4

LEMMA IInvStep == IInv /\ [Next]_vars => IInv'
  BY ModuleStep, EndSignStep, ByteRead, LineRead, LossStep DEF Next

LEMMA IInvAlways == Spec => []IInv
  BY InitIInv, IInvStep, PTL DEF Spec

-----------------------------------------------------------------------------
(* The types, for every buffer and any number of lines: in particular the  *)
(* receive buffer is never written beyond its end (at_recv_readline,       *)
(* at_client.c:669).                                                       *)
THEOREM TypeCorrect == Spec => []TypeOK
<1>1. IInv => TypeOK
  BY DEF IInv
<1> QED BY <1>1, IInvAlways, PTL

(* While nothing was lost or joined, the parser is given every line as the *)
(* module sent it, in order and none left out (at_recv_readline).          *)
THEOREM LinesAreSent == Spec => []CalmLinesAreSent
<1>1. IInv => CalmLinesAreSent
  <2> SUFFICES ASSUME IInv, calm, lines > 0 PROVE Whole(line, lines)
    BY DEF CalmLinesAreSent
  <2>1. since = 2
    BY DEF IInv, BufInv
  <2> QED BY <2>1 DEF IInv, LineInv
<1> QED BY <1>1, IInvAlways, PTL

(* However bytes are lost - a timer, a byte popped too late, a line longer *)
(* than the buffer with the whole ring behind it (at_client.c:688), an end *)
(* sign at the wrong time - the second line after that is whole again.     *)
THEOREM DamageLocal == Spec => []DamageIsLocal
<1>1. IInv => DamageIsLocal
  <2> SUFFICES ASSUME IInv, since = 2, lines > 0 PROVE Whole(line, line[1][1])
    BY DEF DamageIsLocal
  <2>1. PICK i \in 1..Len(sent) : Whole(line, i)
    BY DEF IInv, LineInv
  <2>2. 1 \in 1..Len(Text[sent[i]])
    BY Sizes DEF IInv, Size
  <2>3. line[1][1] = i
    BY <2>1, <2>2 DEF Whole
  <2> QED BY <2>1, <2>3
<1> QED BY <1>1, IInvAlways, PTL
=============================================================================
