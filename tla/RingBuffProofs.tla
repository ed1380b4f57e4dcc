---------------------------- MODULE RingBuffProofs ----------------------------
(***************************************************************************)
(* For every size of the ring and every set of bytes: the ring is well     *)
(* typed, is never used without its array, never loses the slot a pop is   *)
(* about to copy, and implements the bounded queue of ByteQueue.           *)
(***************************************************************************)
EXTENDS RingBuff, SequenceTheorems, TLAPS

(* What boot keeps true: ring_buff_init sets the array, then the size.     *)
BootInv == /\ SizeImpliesArray
           /\ pc = "init_size" => attached
IInv == TypeOK /\ BootInv

(* The wrap-around of the code is the % of its full test.                  *)
LEMMA WrapIsMod ==
  ASSUME NEW i \in Slot
  PROVE  /\ (i + 1) % Size \in Slot
         /\ (i + 1) % Size = IF i < Size - 1 THEN i + 1 ELSE 0
         /\ (i + 1) % Size = Next1(i)
<1>1. CASE i < Size - 1
  <2>1. i + 1 \in 0 .. Size - 1
    BY <1>1, SizeAssumption DEF Slot
  <2>2. (i + 1) % Size = i + 1
    BY <2>1, SizeAssumption
  <2> QED BY <1>1, <2>1, <2>2, SizeAssumption DEF Slot, Next1
<1>2. CASE i = Size - 1
  <2>1. (i + 1) % Size = 0
    BY <1>2, SizeAssumption
  <2> QED BY <1>2, <2>1, SizeAssumption DEF Slot, Next1
<1> QED BY <1>1, <1>2, SizeAssumption DEF Slot

LEMMA InitIInv == Init => IInv
<1> SUFFICES ASSUME Init PROVE IInv
  OBVIOUS
<1>1. 0 \in Slot /\ 0 \in 0 .. Size
  BY SizeAssumption DEF Slot
<1>2. buffer \in [Slot -> Byte \cup {NUL}]
  BY DEF Init
<1>3. TypeOK
  BY <1>1, <1>2 DEF Init, TypeOK, PC
<1> QED BY <1>3 DEF Init, IInv, BootInv, SizeImpliesArray

(* The interrupt only moves writepoint and fills a slot of the array.      *)
LEMMA PushIInv == IInv /\ Push => IInv'
<1> SUFFICES ASSUME IInv, Push PROVE IInv'
  OBVIOUS
<1> USE DEF IInv, TypeOK, BootInv, SizeImpliesArray, Received
<1>1. CASE PushTooShort
  BY <1>1 DEF PushTooShort
<1>2. CASE PushFull
  BY <1>2 DEF PushFull
<1>3. ASSUME NEW b \in Byte, PushStore(b) PROVE IInv'
  <2>1. size = Size /\ writepoint \in Slot
    BY <1>3, SizeAssumption DEF PushStore
  <2>2. writepoint' \in Slot
    BY <1>3, <2>1, SizeAssumption DEF PushStore, Slot
  <2>3. buffer' \in [Slot -> Byte \cup {NUL}]
    BY <1>3, <2>2 DEF PushStore
  <2> QED BY <1>3, <2>2, <2>3 DEF PushStore
<1> QED BY <1>1, <1>2, <1>3 DEF Push

LEMMA TaskIInv == IInv /\ (Task \/ FlushCall) => IInv'
<1> SUFFICES ASSUME IInv, Task \/ FlushCall PROVE IInv'
  OBVIOUS
<1> USE SizeAssumption DEF IInv, TypeOK, BootInv, SizeImpliesArray, ring, Slot, PC
<1>1. CASE PowerOn
  BY <1>1 DEF PowerOn
<1>2. CASE PopEmpty
  BY <1>2 DEF PopEmpty
<1>3. CASE PopCheck
  BY <1>3 DEF PopCheck
<1>4. CASE PopAdvance
  BY <1>4 DEF PopAdvance, Next1
<1>5. CASE PopRead
  BY <1>5 DEF PopRead
<1>6. CASE ClearReadpoint
  BY <1>6 DEF ClearReadpoint
<1>7. CASE ClearWritepoint
  BY <1>7 DEF ClearWritepoint
<1>8. CASE Memset
  <2>1. CASE zero < size
    BY <1>8, <2>1 DEF Memset
  <2>2. CASE ~(zero < size)
    BY <1>8, <2>2 DEF Memset
  <2> QED BY <2>1, <2>2
<1>9. CASE ClearFull
  <2>1. booted' \in BOOLEAN
    BY <1>9, Zenon DEF ClearFull
  <2>2. CASE size = 0
    BY <1>9, <2>1, <2>2 DEF ClearFull
  <2>3. CASE size # 0
    BY <1>9, <2>1, <2>3 DEF ClearFull
  <2> QED BY <2>2, <2>3
<1>10. CASE InitBuffer
  BY <1>10 DEF InitBuffer
<1>11. CASE InitSize
  BY <1>11 DEF InitSize
<1>12. CASE FlushCall
  BY <1>12 DEF FlushCall
<1> QED BY <1>1, <1>2, <1>3, <1>4, <1>5, <1>6, <1>7, <1>8, <1>9, <1>10, <1>11, <1>12
        DEF Task

LEMMA StepIInv == IInv /\ [Next]_vars => IInv'
<1>1. IInv /\ UNCHANGED vars => IInv'
  BY DEF IInv, TypeOK, BootInv, SizeImpliesArray, vars, ring
<1> QED BY <1>1, PushIInv, TaskIInv DEF Next

(* The inductive invariant holds in every reachable state.                 *)
THEOREM Invariance == Spec => []IInv
BY InitIInv, StepIInv, PTL DEF Spec

(* Type correctness of ringbuff.c's structure and of its callers.          *)
THEOREM TypeCorrect == Spec => []TypeOK
<1>1. IInv => TypeOK
  BY DEF IInv
<1> QED BY <1>1, Invariance, PTL

(* No interrupt, however early, stores through a ring without an array.    *)
THEOREM RingHasArray == Spec => []SizeImpliesArray
<1>1. IInv => SizeImpliesArray
  BY DEF IInv, BootInv
<1> QED BY <1>1, Invariance, PTL

(* Whatever arrives between the advance of readpoint and the copy, the     *)
(* popped slot keeps its byte.                                             *)
THEOREM PoppedSlotStable == Spec => PoppedSlotIsStable
<1> DEFINE Stable == pc = "read" => buffer'[readpoint] = buffer[readpoint]
<1>1. IInv /\ [Next]_vars => Stable
  <2> SUFFICES ASSUME IInv, [Next]_vars, pc = "read"
               PROVE  buffer'[readpoint] = buffer[readpoint]
    OBVIOUS
  <2>1. CASE UNCHANGED vars
    BY <2>1 DEF vars, ring
  <2>2. CASE PushTooShort \/ PushFull
    BY <2>2 DEF PushTooShort, PushFull
  <2>3. ASSUME NEW b \in Byte, PushStore(b)
        PROVE  buffer'[readpoint] = buffer[readpoint]
    <3>1. size = Size /\ writepoint \in Slot /\ readpoint \in Slot
      BY <2>3, SizeAssumption DEF IInv, TypeOK, PushStore
    <3>2. writepoint' = (writepoint + 1) % Size
      BY <2>3, <3>1, WrapIsMod DEF PushStore
    <3>3. writepoint' # readpoint
      BY <2>3, <3>1, <3>2 DEF PushStore
    <3> QED BY <2>3, <3>3 DEF PushStore, IInv, TypeOK
  <2>4. CASE Task \/ FlushCall
    BY <2>4 DEF Task, FlushCall, PowerOn, PopEmpty, PopCheck, PopAdvance, PopRead, ClearReadpoint,
                ClearWritepoint, Memset, ClearFull, InitBuffer, InitSize, ring
  <2> QED BY <2>1, <2>2, <2>3, <2>4 DEF Next, Push
<1> QED BY <1>1, Invariance, PTL DEF Spec, PoppedSlotIsStable
-----------------------------------------------------------------------------
(* The refinement: the ring implements the bounded queue of ByteQueue.     *)

(* Where the boot and the resets of the ring have left its pointers.       *)
PointerInv ==
  /\ size = 0 => readpoint = 0 /\ writepoint = 0 /\ ~booted
  /\ pc \in {"idle", "advance", "read"} => booted
  /\ pc \in {"power_on", "init_buffer", "init_size"} => size = 0
  /\ pc = "flush_rp" => booted \/ size = 0
  /\ pc \in {"flush_wp", "init_wp", "memset", "full"} => readpoint = 0
  /\ pc = "advance" => readpoint # writepoint
RInv == IInv /\ PointerInv

(* The k-th byte of the ring is k slots after readpoint.                   *)
At(r, k) == IF r + k < Size THEN r + k ELSE r + k - Size

(* The refinement mapping of RingBuff!Queue.                               *)
QueueOf == IF Resetting THEN <<>> ELSE Contents
SettlingOf == pc \notin {"idle", "advance", "read"} /\ ~(booted /\ pc = "flush_rp")
OutOf == IF pc = "read" THEN buffer[readpoint] ELSE pData

Count(r, w) == IF w >= r THEN w - r ELSE w + Size - r
ContentsOf(r, w, b) == [k \in 1 .. Count(r, w) |-> b[At(r, k)]]
Bytes == Byte \cup {NUL}
-----------------------------------------------------------------------------
(* The index of a slot wraps at most once.                                 *)
LEMMA ModOnce ==
  ASSUME NEW r \in 0 .. Size - 1, NEW k \in 0 .. Size - 1
  PROVE  (r + k) % Size = At(r, k) /\ At(r, k) \in Slot
<1>1. CASE r + k < Size
  <2>1. r + k \in 0 .. Size - 1
    BY <1>1, SizeAssumption
  <2>2. (r + k) % Size = r + k
    BY <2>1, SizeAssumption
  <2> QED BY <1>1, <2>1, <2>2 DEF At, Slot
<1>2. CASE r + k >= Size
  <2>1. PICK m \in 0 .. Size - 1 : r + k = Size + m
    <3>1. r + k - Size \in 0 .. Size - 1 /\ r + k = Size + (r + k - Size)
      BY <1>2, SizeAssumption
    <3> QED BY <3>1
  <2>2. (Size + m) % Size = m
    BY SizeAssumption
  <2>3. At(r, k) = m
    BY <1>2, <2>1, SizeAssumption DEF At
  <2> QED BY <2>1, <2>2, <2>3 DEF Slot
<1> QED BY <1>1, <1>2, SizeAssumption

LEMMA CountFacts ==
  ASSUME NEW r \in Slot, NEW w \in Slot
  PROVE  /\ Count(r, w) \in 0 .. Size - 1
         /\ Count(r, w) = IF w >= r THEN w - r ELSE w + Size - r
         /\ \A k \in 1 .. Count(r, w) : At(r, k) \in Slot /\ (r + k) % Size = At(r, k)
<1>1. r \in 0 .. Size - 1 /\ w \in 0 .. Size - 1
  BY DEF Slot
<1>2. Count(r, w) \in 0 .. Size - 1
  BY <1>1, SizeAssumption DEF Count
<1>3. \A k \in 1 .. Count(r, w) : k \in 0 .. Size - 1
  BY <1>2, SizeAssumption
<1> QED BY <1>1, <1>2, <1>3, ModOnce DEF Count

(* Contents is a sequence of bytes; this is all that is used about it.     *)
LEMMA ContentsFacts ==
  ASSUME NEW r \in Slot, NEW w \in Slot, NEW b \in [Slot -> Bytes]
  PROVE  /\ ContentsOf(r, w, b) \in Seq(Bytes)
         /\ Len(ContentsOf(r, w, b)) = Count(r, w)
         /\ \A k \in 1 .. Count(r, w) : ContentsOf(r, w, b)[k] = b[At(r, k)]
<1> DEFINE n == Count(r, w)
<1>1. n \in Nat /\ \A k \in 1 .. n : b[At(r, k)] \in Bytes
  BY CountFacts, SizeAssumption
<1> HIDE DEF n
<1>2. [k \in 1 .. n |-> b[At(r, k)]] \in Seq(Bytes)
  BY <1>1
<1>3. Len([k \in 1 .. n |-> b[At(r, k)]]) = n
  BY <1>1
<1> QED BY <1>2, <1>3 DEF ContentsOf, n

LEMMA ContentsIs ==
  ASSUME NEW r \in Slot, NEW w \in Slot, NEW b
  PROVE  ContentsOf(r, w, b) =
           [k \in 1 .. (IF w >= r THEN w - r ELSE w + Size - r) |-> b[(r + k) % Size]]
<1>1. \A k \in 1 .. Count(r, w) : (r + k) % Size = At(r, k)
  BY CountFacts
<1> QED BY <1>1 DEF ContentsOf, Count

LEMMA EmptyContents ==
  ASSUME NEW r \in Slot, NEW b \in [Slot -> Bytes]
  PROVE  ContentsOf(r, r, b) = <<>>
<1>1. Count(r, r) = 0
  BY CountFacts, SizeAssumption DEF Slot
<1> QED BY <1>1, ContentsFacts, EmptySeq

(* A byte stored one slot on is the last of the queue.                     *)
LEMMA PushContents ==
  ASSUME NEW r \in Slot, NEW w \in Slot, NEW b \in [Slot -> Bytes], NEW c \in Bytes,
         Next1(w) # r, NEW d \in [Slot -> Bytes], d[Next1(w)] = c,
         \A i \in Slot : i # Next1(w) => d[i] = b[i]
  PROVE  /\ Len(ContentsOf(r, w, b)) < Size - 1
         /\ ContentsOf(r, Next1(w), d) = Append(ContentsOf(r, w, b), c)
<1> DEFINE x == Next1(w)
           s == ContentsOf(r, w, b)
           t == ContentsOf(r, x, d)
<1>1. x \in Slot /\ x = (IF w = Size - 1 THEN 0 ELSE w + 1)
  BY SizeAssumption DEF Next1, Slot
<1>2. d \in [Slot -> Bytes]
  OBVIOUS
<1>3. Count(r, w) < Size - 1 /\ Count(r, x) = Count(r, w) + 1
  BY <1>1, SizeAssumption DEF Count, Slot
<1>4. At(r, Count(r, x)) = x
  BY <1>1, SizeAssumption DEF Count, At, Slot
<1>5. \A k \in 1 .. Count(r, w) : At(r, k) # x
  BY <1>1, SizeAssumption DEF Count, At, Slot
<1>6. /\ s \in Seq(Bytes) /\ Len(s) = Count(r, w)
      /\ \A k \in 1 .. Count(r, w) : s[k] = b[At(r, k)]
  BY ContentsFacts
<1>7. /\ t \in Seq(Bytes) /\ Len(t) = Count(r, x)
      /\ \A k \in 1 .. Count(r, x) : t[k] = d[At(r, k)]
  BY <1>1, <1>2, ContentsFacts
<1>8. d[x] = c /\ \A i \in Slot \ {x} : d[i] = b[i]
  BY <1>1
<1>9. \A k \in 1 .. Count(r, w) : At(r, k) \in Slot
  BY CountFacts
<1> HIDE DEF x, s, t
<1>10. Count(r, w) \in Nat
  BY CountFacts, SizeAssumption
<1>11. ASSUME NEW k \in 1 .. Len(t) PROVE t[k] = Append(s, c)[k]
  <2>1. CASE k = Len(t)
    BY <1>3, <1>4, <1>6, <1>7, <1>8, <1>10, <2>1
  <2>2. CASE k # Len(t)
    <3>1. k \in 1 .. Count(r, w) /\ k \in 1 .. Count(r, x)
      BY <1>3, <1>7, <1>10, <2>2
    <3>2. t[k] = b[At(r, k)]
      BY <1>5, <1>7, <1>8, <1>9, <3>1
    <3> QED BY <1>6, <3>1, <3>2
  <2> QED BY <2>1, <2>2
<1>12. Append(s, c) \in Seq(Bytes) /\ Len(Append(s, c)) = Len(t)
  BY <1>3, <1>6, <1>7, <1>10
<1>13. t = Append(s, c)
  BY <1>7, <1>11, <1>12, SeqEqual
<1> QED BY <1>3, <1>6, <1>13 DEF x, s, t

LEMMA FullContents ==
  ASSUME NEW r \in Slot, NEW w \in Slot, NEW b \in [Slot -> Bytes], Next1(w) = r
  PROVE  Len(ContentsOf(r, w, b)) = Size - 1
<1>1. Count(r, w) = Size - 1
  BY SizeAssumption DEF Count, Next1, Slot
<1> QED BY <1>1, ContentsFacts

(* The slot after readpoint holds the first byte of the queue.             *)
LEMMA PopContents ==
  ASSUME NEW r \in Slot, NEW w \in Slot, NEW b \in [Slot -> Bytes], r # w
  PROVE  /\ ContentsOf(r, w, b) # <<>>
         /\ Head(ContentsOf(r, w, b)) = b[Next1(r)]
         /\ Tail(ContentsOf(r, w, b)) = ContentsOf(Next1(r), w, b)
<1> DEFINE x == Next1(r)
           s == ContentsOf(r, w, b)
           t == ContentsOf(x, w, b)
<1>1. x \in Slot /\ x = (IF r = Size - 1 THEN 0 ELSE r + 1)
  BY SizeAssumption DEF Next1, Slot
<1>2. Count(r, w) = Count(x, w) + 1
  BY <1>1, SizeAssumption DEF Count, Slot
<1>3. At(r, 1) = x
  BY <1>1, SizeAssumption DEF At, Slot
<1>4. \A k \in 1 .. Count(x, w) : At(r, k + 1) = At(x, k)
  BY <1>1, SizeAssumption DEF Count, At, Slot
<1>5. /\ s \in Seq(Bytes) /\ Len(s) = Count(r, w)
      /\ \A k \in 1 .. Count(r, w) : s[k] = b[At(r, k)]
  BY ContentsFacts
<1>6. /\ t \in Seq(Bytes) /\ Len(t) = Count(x, w)
      /\ \A k \in 1 .. Count(x, w) : t[k] = b[At(x, k)]
  BY <1>1, ContentsFacts
<1>7. Count(x, w) \in Nat
  BY <1>1, CountFacts, SizeAssumption
<1> HIDE DEF x, s, t
<1>8. s # <<>> /\ Head(s) = b[x]
  BY <1>2, <1>3, <1>5, <1>7
<1>9. /\ Tail(s) \in Seq(Bytes) /\ Len(Tail(s)) = Len(t)
      /\ \A k \in 1 .. Len(t) : Tail(s)[k] = s[k + 1]
  BY <1>2, <1>5, <1>6, <1>7, <1>8, HeadTailProperties
<1>10. ASSUME NEW k \in 1 .. Len(t) PROVE t[k] = Tail(s)[k]
  <2>1. k \in 1 .. Count(x, w) /\ k + 1 \in 1 .. Count(r, w)
    BY <1>2, <1>6, <1>7
  <2>2. At(r, k + 1) = At(x, k)
    BY <1>4, <2>1
  <2> QED BY <1>5, <1>6, <1>9, <2>1, <2>2
<1>11. Tail(s) = t
  BY <1>6, <1>9, <1>10, SeqEqual
<1> QED BY <1>8, <1>11 DEF x, s, t

(* During a reset the memset can hit a byte that has arrived since.        *)
LEMMA BlankContents ==
  ASSUME NEW w \in Slot, NEW b \in [Slot -> Bytes], NEW z \in Slot,
         NEW d \in [Slot -> Bytes], \A i \in Slot : d[i] = IF i = z THEN NUL ELSE b[i]
  PROVE  \/ ContentsOf(0, w, d) = ContentsOf(0, w, b)
         \/ \E i \in DOMAIN ContentsOf(0, w, b) :
               ContentsOf(0, w, d) = [ContentsOf(0, w, b) EXCEPT ![i] = NUL]
<1> DEFINE s == ContentsOf(0, w, b)
           t == ContentsOf(0, w, d)
<1>1. 0 \in Slot /\ Count(0, w) = w /\ w \in 0 .. Size - 1
  BY SizeAssumption DEF Slot, Count
<1>2. \A k \in 1 .. w : At(0, k) = k
  BY <1>1, SizeAssumption DEF At
<1>3. s = [k \in 1 .. w |-> b[k]] /\ t = [k \in 1 .. w |-> d[k]]
  BY <1>1, <1>2 DEF ContentsOf
<1>4. \A k \in 1 .. w : k \in Slot
  BY <1>1, SizeAssumption DEF Slot
<1>5. \A k \in 1 .. w : d[k] = IF k = z THEN NUL ELSE b[k]
  BY <1>4
<1> HIDE DEF s, t
<1>6. CASE z \in 1 .. w
  <2>1. t = [s EXCEPT ![z] = NUL]
    BY <1>3, <1>5, <1>6
  <2> QED BY <1>3, <1>6, <2>1 DEF s, t
<1>7. CASE z \notin 1 .. w
  <2>1. t = s
    BY <1>3, <1>5, <1>7
  <2> QED BY <2>1 DEF s, t
<1> QED BY <1>6, <1>7
-----------------------------------------------------------------------------
LEMMA InitRInv == Init => RInv
<1>1. Init => PointerInv
  BY DEF Init, PointerInv
<1> QED BY <1>1, InitIInv DEF RInv

LEMMA PushRInv == RInv /\ Push => PointerInv'
<1> SUFFICES ASSUME RInv, Push PROVE PointerInv'
  OBVIOUS
<1> USE DEF RInv, PointerInv, Received
<1>1. CASE PushTooShort
  BY <1>1 DEF PushTooShort
<1>2. CASE PushFull
  BY <1>2 DEF PushFull
<1>3. ASSUME NEW b \in Byte, PushStore(b) PROVE PointerInv'
  <2>1. writepoint' # readpoint
    <3>1. size = Size /\ writepoint \in Slot
      BY <1>3, SizeAssumption DEF PushStore, IInv, TypeOK
    <3> QED BY <1>3, <3>1, WrapIsMod DEF PushStore
  <2> QED BY <1>3, <2>1, SizeAssumption DEF PushStore
<1> QED BY <1>1, <1>2, <1>3 DEF Push

LEMMA TaskRInv == RInv /\ (Task \/ FlushCall) => PointerInv'
<1> SUFFICES ASSUME RInv, Task \/ FlushCall PROVE PointerInv'
  OBVIOUS
<1> USE SizeAssumption DEF RInv, PointerInv, IInv, TypeOK, PC, ring
<1>1. CASE PowerOn
  BY <1>1 DEF PowerOn
<1>2. CASE PopEmpty
  BY <1>2 DEF PopEmpty
<1>3. CASE PopCheck
  BY <1>3 DEF PopCheck
<1>4. CASE PopAdvance
  BY <1>4 DEF PopAdvance
<1>5. CASE PopRead
  BY <1>5 DEF PopRead
<1>6. CASE ClearReadpoint
  BY <1>6 DEF ClearReadpoint
<1>7. CASE ClearWritepoint
  BY <1>7 DEF ClearWritepoint
<1>8. CASE Memset
  BY <1>8 DEF Memset
<1>9. CASE ClearFull
  <2>1. CASE size = 0
    BY <1>9, <2>1 DEF ClearFull
  <2>2. CASE size # 0
    BY <1>9, <2>2 DEF ClearFull
  <2> QED BY <2>1, <2>2
<1>10. CASE InitBuffer
  BY <1>10 DEF InitBuffer
<1>11. CASE InitSize
  BY <1>11 DEF InitSize
<1>12. CASE FlushCall
  BY <1>12 DEF FlushCall
<1> QED BY <1>1, <1>2, <1>3, <1>4, <1>5, <1>6, <1>7, <1>8, <1>9, <1>10, <1>11, <1>12
        DEF Task

LEMMA StepRInv == RInv /\ [Next]_vars => RInv'
<1>1. RInv /\ UNCHANGED vars => PointerInv'
  BY DEF RInv, PointerInv, vars, ring
<1> QED BY <1>1, PushRInv, TaskRInv, StepIInv DEF Next, RInv

(* The inductive invariant of the ring and its callers.                    *)
THEOREM RingInvariance == Spec => []RInv
BY InitRInv, StepRInv, PTL DEF Spec
-----------------------------------------------------------------------------
(* Every step of the ring is a step of the queue or changes nothing of it. *)

LEMMA ContentsState == RInv => Contents = ContentsOf(readpoint, writepoint, buffer)
BY ContentsIs DEF RInv, IInv, TypeOK, Contents, Used

LEMMA InitQueue == Init => Queue!Init
<1> SUFFICES ASSUME Init PROVE Queue!Init
  OBVIOUS
<1>1. 0 \in Slot /\ buffer \in [Slot -> Bytes]
  BY SizeAssumption DEF Init, Slot, Bytes
<1>2. Contents = <<>>
  BY <1>1, ContentsIs, EmptyContents DEF Init, Contents, Used
<1> QED BY <1>2 DEF Init, Queue!Init, Resetting

LEMMA PushQueue == RInv /\ RInv' /\ Push => [Queue!Next]_(Queue!queueVars)
<1> SUFFICES ASSUME RInv, RInv', Push PROVE Queue!Next
  OBVIOUS
<1>1. /\ parity' = 1 - parity
      /\ pc' = pc /\ booted' = booted /\ pData' = pData /\ readpoint' = readpoint
      /\ Resetting' = Resetting /\ SettlingOf' = SettlingOf
  BY DEF Push, PushTooShort, PushFull, PushStore, Received, Resetting, SettlingOf
<1>2. /\ readpoint \in Slot /\ writepoint \in Slot /\ buffer \in [Slot -> Bytes]
      /\ writepoint' \in Slot /\ buffer' \in [Slot -> Bytes]
  BY DEF RInv, IInv, TypeOK, Bytes
<1>3. OutOf' = OutOf
  <2>1. \A b \in Byte : PushStore(b) => writepoint' # readpoint
    BY <1>2, WrapIsMod, SizeAssumption DEF PushStore, RInv, IInv, TypeOK
  <2> QED BY <1>1, <1>2, <2>1 DEF Push, PushTooShort, PushFull, PushStore, OutOf
<1>4. CASE Resetting \/ size = 0
  <2>1. SettlingOf
    BY <1>4 DEF SettlingOf, Resetting, RInv, PointerInv
  <2>2. QueueOf' = QueueOf
    <3>1. CASE Resetting
      BY <1>1, <3>1 DEF QueueOf
    <3>2. CASE size = 0
      BY <1>1, <3>2 DEF Push, PushTooShort, PushFull, PushStore, QueueOf, Contents, Used
    <3> QED BY <1>4, <3>1, <3>2
  <2>3. Queue!Drop
    BY <1>1, <1>3, <2>1, <2>2 DEF Queue!Drop, QueueOf, SettlingOf, OutOf
  <2> QED BY <2>3 DEF Queue!Next
<1>5. CASE ~Resetting /\ PushFull
  <2>1. Len(Contents) = Size - 1
    BY <1>2, <1>5, WrapIsMod, FullContents, ContentsState, SizeAssumption
       DEF PushFull, RInv, IInv, TypeOK
  <2>2. Contents' = Contents
    BY <1>5 DEF PushFull, Received, Contents, Used
  <2>3. Queue!Drop
    BY <1>1, <1>3, <1>5, <2>1, <2>2 DEF Queue!Drop, QueueOf, SettlingOf, OutOf
  <2> QED BY <2>3 DEF Queue!Next
<1>6. ASSUME NEW b \in Byte, ~Resetting, size # 0, PushStore(b) PROVE Queue!Next
  <2>1. size = Size /\ writepoint' = Next1(writepoint) /\ Next1(writepoint) # readpoint
    BY <1>2, <1>6, WrapIsMod, SizeAssumption DEF PushStore, RInv, IInv, TypeOK, Next1, Slot
  <2>2. buffer' = [buffer EXCEPT ![Next1(writepoint)] = b] /\ b \in Bytes
    BY <1>6, <2>1 DEF PushStore, Bytes
  <2>3. Len(Contents) < Size - 1 /\ Contents' = Append(Contents, b)
    <3>1. Contents' = ContentsOf(readpoint, writepoint', buffer')
      BY <1>1, <1>2, ContentsIs DEF Contents, Used
    <3>2. /\ Len(ContentsOf(readpoint, writepoint, buffer)) < Size - 1
          /\ ContentsOf(readpoint, Next1(writepoint), buffer')
               = Append(ContentsOf(readpoint, writepoint, buffer), b)
      <4>1. /\ buffer'[Next1(writepoint)] = b
            /\ \A i \in Slot : i # Next1(writepoint) => buffer'[i] = buffer[i]
        BY <1>2, <2>1, <2>2
      <4>2. Next1(writepoint) # readpoint /\ b \in Bytes
        BY <2>1, <2>2
      <4>3. \A c \in Bytes, d \in [Slot -> Bytes] :
               /\ d[Next1(writepoint)] = c
               /\ \A i \in Slot : i # Next1(writepoint) => d[i] = buffer[i]
               => /\ Len(ContentsOf(readpoint, writepoint, buffer)) < Size - 1
                  /\ ContentsOf(readpoint, Next1(writepoint), d)
                       = Append(ContentsOf(readpoint, writepoint, buffer), c)
        BY <1>2, <4>2, PushContents
      <4> QED BY <1>2, <4>1, <4>2, <4>3
    <3> QED BY <2>1, <2>2, <3>1, <3>2, ContentsState
  <2>4. Queue!Keep(b)
    BY <1>1, <1>3, <1>6, <2>3 DEF Queue!Keep, QueueOf, SettlingOf, OutOf
  <2> QED BY <2>4 DEF Queue!Next
<1> QED BY <1>4, <1>5, <1>6 DEF Push, PushTooShort

LEMMA TaskQueue == RInv /\ RInv' /\ (Task \/ FlushCall) => [Queue!Next]_(Queue!queueVars)
<1> SUFFICES ASSUME RInv, RInv', Task \/ FlushCall
             PROVE  [Queue!Next]_(Queue!queueVars)
  OBVIOUS
<1> DEFINE Same == UNCHANGED <<QueueOf, SettlingOf, OutOf, parity>>
<1>same. Same => [Queue!Next]_(Queue!queueVars)
  BY DEF Queue!queueVars, QueueOf, SettlingOf, OutOf
<1>1. /\ readpoint \in Slot /\ writepoint \in Slot /\ buffer \in [Slot -> Bytes]
      /\ readpoint' \in Slot /\ writepoint' \in Slot /\ buffer' \in [Slot -> Bytes]
  BY DEF RInv, IInv, TypeOK, Bytes
<1>next. Contents' = ContentsOf(readpoint', writepoint', buffer')
  BY <1>1, ContentsIs DEF Contents, Used
<1>2. UNCHANGED <<readpoint, writepoint, buffer>> => Contents' = Contents
  BY DEF Contents, Used
<1>3. readpoint = writepoint => Contents = <<>>
  BY <1>1, ContentsState, EmptyContents
<1>4. readpoint' = writepoint' => Contents' = <<>>
  BY <1>1, <1>next, EmptyContents
<1> HIDE DEF Same
<1> USE DEF RInv, PointerInv, ring, Resetting
<1>5. CASE PowerOn
  BY <1>same, <1>2, <1>5 DEF PowerOn, Same, QueueOf, SettlingOf, OutOf
<1>6. CASE PopEmpty
  <2>1. Queue!ReadEmpty
    BY <1>2, <1>3, <1>6 DEF PopEmpty, Queue!ReadEmpty
  <2> QED BY <2>1 DEF Queue!Next
<1>7. CASE PopCheck
  BY <1>same, <1>2, <1>7 DEF PopCheck, Same, QueueOf, SettlingOf, OutOf
<1>8. CASE PopAdvance
  <2>1. /\ Contents # <<>> /\ Head(Contents) = buffer[readpoint']
        /\ Contents' = Tail(Contents)
    <3>1. Contents' = ContentsOf(Next1(readpoint), writepoint, buffer)
      BY <1>8, <1>next DEF PopAdvance
    <3> QED BY <1>1, <1>8, <3>1, ContentsState, PopContents DEF PopAdvance
  <2>2. Queue!Read
    BY <1>8, <2>1 DEF PopAdvance, Queue!Read
  <2> QED BY <2>2 DEF Queue!Next
<1>9. CASE PopRead
  BY <1>same, <1>2, <1>9 DEF PopRead, Same, QueueOf, SettlingOf, OutOf
<1>10. CASE FlushCall
  BY <1>same, <1>2, <1>10 DEF FlushCall, Same, QueueOf, SettlingOf, OutOf
<1>11. CASE ClearReadpoint /\ pc = "flush_rp" /\ booted
  <2>1. Queue!StartReset
    BY <1>11 DEF ClearReadpoint, Queue!StartReset
  <2> QED BY <2>1 DEF Queue!Next
<1>12. CASE ClearReadpoint /\ ~(pc = "flush_rp" /\ booted)
  BY <1>same, <1>3, <1>12 DEF ClearReadpoint, Same, QueueOf, SettlingOf, OutOf
<1>13. CASE ClearWritepoint
  <2>1. Contents' = <<>>
    BY <1>4, <1>13 DEF ClearWritepoint
  <2> QED BY <1>same, <1>13, <2>1 DEF ClearWritepoint, Same, QueueOf, SettlingOf, OutOf
<1>14. CASE Memset
  <2>1. CASE ~(zero < size)
    BY <1>same, <1>2, <1>14, <2>1 DEF Memset, Same, QueueOf, SettlingOf, OutOf
  <2>2. CASE zero < size
    <3>1. zero \in Slot /\ readpoint = 0
      BY <1>14, <2>2, SizeAssumption DEF Memset, IInv, TypeOK, Slot
    <3>2. Contents' = ContentsOf(0, writepoint, buffer')
          /\ buffer' = [buffer EXCEPT ![zero] = NUL]
      BY <1>14, <1>next, <2>2, <3>1 DEF Memset
    <3>3. Contents = ContentsOf(0, writepoint, buffer)
      BY <3>1, ContentsState
    <3>4. \/ Contents' = Contents
          \/ \E i \in DOMAIN Contents : Contents' = [Contents EXCEPT ![i] = NUL]
      <4>1. \A i \in Slot : buffer'[i] = IF i = zero THEN NUL ELSE buffer[i]
        BY <1>1, <3>1, <3>2
      <4>2. \/ ContentsOf(0, writepoint, buffer') = ContentsOf(0, writepoint, buffer)
            \/ \E i \in DOMAIN ContentsOf(0, writepoint, buffer) :
                  ContentsOf(0, writepoint, buffer')
                    = [ContentsOf(0, writepoint, buffer) EXCEPT ![i] = NUL]
        BY <1>1, <3>1, <4>1, BlankContents
      <4> QED BY <3>2, <3>3, <4>2, Zenon
    <3>5. CASE Contents' = Contents
      BY <1>same, <1>14, <2>2, <3>5 DEF Memset, Same, QueueOf, SettlingOf, OutOf
    <3>6. CASE \E i \in DOMAIN Contents : Contents' = [Contents EXCEPT ![i] = NUL]
      <4>1. Queue!Blank
        BY <1>14, <2>2, <3>6 DEF Memset, Queue!Blank
      <4> QED BY <4>1 DEF Queue!Next
    <3> QED BY <3>4, <3>5, <3>6
  <2> QED BY <2>1, <2>2
<1>15. CASE ClearFull /\ size = 0
  BY <1>same, <1>3, <1>15 DEF ClearFull, Same, QueueOf, SettlingOf, OutOf
<1>16. CASE ClearFull /\ size # 0
  <2>1. Queue!EndReset
    BY <1>2, <1>16 DEF ClearFull, Queue!EndReset
  <2> QED BY <2>1 DEF Queue!Next
<1>17. CASE InitBuffer \/ InitSize
  BY <1>same, <1>17 DEF InitBuffer, InitSize, Same, QueueOf, SettlingOf, OutOf
<1> QED BY <1>5, <1>6, <1>7, <1>8, <1>9, <1>10, <1>11, <1>12, <1>13, <1>14, <1>15, <1>16,
           <1>17 DEF Task

(* The lock-free ring buffer of ringbuff.c is a bounded queue: whatever    *)
(* the interrupt does between two statements of the task, bytes leave in   *)
(* the order in which they came, none twice, and one is lost only when     *)
(* Size - 1 are waiting or while the ring is reset.                        *)
THEOREM RingIsQueue == Spec => ImplementsQueue
<1>1. RInv /\ RInv' /\ [Next]_vars => [Queue!Next]_(Queue!queueVars)
  <2>1. UNCHANGED vars => UNCHANGED Queue!queueVars
    BY DEF vars, ring, Queue!queueVars, Resetting, Contents, Used
  <2> QED BY <2>1, PushQueue, TaskQueue DEF Next
<1> QED BY <1>1, InitQueue, RingInvariance, PTL DEF Spec, ImplementsQueue, Queue!Spec
=============================================================================
