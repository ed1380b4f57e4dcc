----------------------------- MODULE MsgListProofs -----------------------------
(***************************************************************************)
(* For any number of messages: the words of pMsgList keep their types      *)
(* whatever the two tasks do, and as long as list_lpush and list_remove    *)
(* have not overlapped, the messages come out in the order in which they   *)
(* arrived and the list is whole whenever neither is under way.            *)
(***************************************************************************)
EXTENDS MsgList, FiniteSetTheorems, TLAPS

(* Where the two tasks have a node of their own.                           *)
NodeInv == /\ ppc # "idle" => new \in Node
           /\ apc \notin {"idle", "first", "iterate"} => node \in Node
TInv == TypeOK /\ NodeInv

(* The nodes are delivered in order; those up to Out have been.            *)
Out == Len(delivered)

(* The application has the node it delivered last still to free.           *)
Unlinking == {"prev", "set_head", "unlink_prev", "next", "load_prev", "store_tail", "free"}
Unlinked == {"next", "load_prev", "store_tail", "free"}

(* Up to which node the list has been taken apart: in memory, for who      *)
(* follows next from head, for who starts at tail, and for who counts.     *)
Gone == IF apc \in Unlinking THEN Out - 1 ELSE Out
GoneNext == IF apc \in Unlinked THEN Out ELSE Gone
GoneTail == IF apc = "free" THEN Out ELSE Gone
GoneLen == IF apc \in {"load_len", "store_len"} THEN Out - 1 ELSE Gone

(* Up to which node it has been put together: for who follows prev from    *)
(* tail, who starts at head, who starts at tail, and who counts; and the   *)
(* nodes whose own words are set.                                          *)
Top(done) == IF ppc \in done THEN new ELSE new - 1
TopPrev == Top({"idle", "set_head", "load_len", "store_len"})
TopHead == Top({"idle", "clear", "load_len", "store_len"})
TopTail == Top({"idle", "set_head_first", "clear", "load_len", "store_len"})
TopLen == Top({"idle"})
Linked == Top({"idle", "load_head", "back", "set_head", "load_len", "store_len"})

After(gone, top) == IF top > gone THEN gone + 1 ELSE NULL

(* The words of the list.                                                  *)
ListInv ==
  /\ live = (Gone + 1) .. new
  /\ \A n \in live : n <= Linked =>
        /\ next[n] = IF n = Gone + 1 \/ n = GoneNext + 1 THEN NULL ELSE n - 1
        /\ prev[n] = IF n < TopPrev THEN n + 1 ELSE NULL
  /\ head = IF TopHead > GoneNext THEN TopHead ELSE NULL
  /\ tail = After(GoneTail, TopTail)
  /\ len = TopLen - GoneLen /\ TopLen >= GoneLen

(* What list_lpush has decided and loaded.                                 *)
PushInv ==
  /\ ppc \in {"link", "load_head", "back", "set_head"} => new - 1 > Gone
  /\ ppc \in {"set_tail", "set_head_first", "clear"} => new - 1 = Gone
  /\ ppc = "back" => h = new - 1
  /\ ppc = "store_len" => plen = len

(* What _handle_message has decided and loaded.  The iterator is ahead of  *)
(* the node in hand, on the next one or, if there was none yet, at its end.*)
AppInv ==
  /\ delivered = [i \in 1 .. Out |-> i]
  /\ Out <= TopPrev
  /\ apc = "first" => len # 0
  /\ apc = "deliver" => /\ node = Out + 1 /\ node <= TopPrev
                        /\ iter \in {NULL, After(node, TopPrev)}
  /\ apc \in Unlinking \cup {"load_len", "store_len"} => node = Out
  /\ apc \in Unlinking \cup {"iterate", "load_len", "store_len"} =>
       iter \in {NULL, After(Out, TopPrev)}
  /\ apc = "set_head" => TopPrev = Out
  /\ apc = "unlink_prev" => TopPrev > Out
  /\ apc = "store_tail" => r = After(Out, TopTail)
  /\ apc # "unlink_next"
  /\ apc = "store_len" => alen = len

Apart == ~(ppc \in Pushing /\ apc \in Removing)
CInv == ~overlap => ~wild /\ Apart /\ ListInv /\ PushInv /\ AppInv
IInv == TInv /\ CInv
-----------------------------------------------------------------------------
USE NodesAssumption
USE DEF NULL, Node, Pointer, PushPC, AppPC, Pushing, Removing

LEMMA InitIInv == Init => IInv
<1> SUFFICES ASSUME Init PROVE IInv
  OBVIOUS
<1> USE DEF Init
<1>1. delivered \in Seq(Node) /\ Len(delivered) = 0
  OBVIOUS
<1>2. TInv
  <2>1. len \in 0 .. Modulus - 1 /\ {plen, alen} \subseteq 0 .. Modulus - 1
    OBVIOUS
  <2>2. {head, tail, new, h, iter, node, r} \subseteq Pointer /\ NodeInv
    BY DEF NodeInv
  <2>3. {prev, next} \subseteq [Node -> Pointer] /\ live \subseteq Node
    OBVIOUS
  <2>4. /\ ppc \in PushPC /\ apc \in AppPC /\ pushed \subseteq Node
        /\ overlap \in BOOLEAN /\ wild \in BOOLEAN
    OBVIOUS
  <2> QED BY <1>1, <2>1, <2>2, <2>3, <2>4 DEF TInv, TypeOK
<1>3. Out = 0
  BY <1>1 DEF Out
<1>4. ListInv /\ PushInv /\ AppInv /\ Apart
  BY <1>3 DEF ListInv, PushInv, AppInv, Apart, Gone, GoneNext, GoneTail, GoneLen, Top, TopPrev,
     TopHead, TopTail, TopLen, Linked, After, Unlinking, Unlinked
<1> QED BY <1>2, <1>4 DEF IInv, CInv

(* The types.                                                              *)
LEMMA PushTypes == ASSUME TInv, Push PROVE TInv'
<1> USE DEF TInv, TypeOK, NodeInv, PushStep, list, app
<1>1. CASE Arrive
  <2>1. new + 1 \in Node
    BY <1>1 DEF Arrive
  <2>3. new' \in Node /\ live' \subseteq Node
    BY <1>1, <2>1 DEF Arrive
  <2>2. overlap' \in BOOLEAN /\ ppc' \in PushPC
    BY <1>1 DEF Arrive
  <2> QED BY <1>1, <2>2, <2>3 DEF Arrive
<1>2. CASE TestLen
  BY <1>2 DEF TestLen
<1>3. CASE Link \/ LoadHead
  BY <1>3 DEF Link, LoadHead
<1>4. CASE LinkBack
  BY <1>4 DEF LinkBack
<1>5. CASE PushHead \/ FirstTail \/ FirstHead
  BY <1>5 DEF PushHead, FirstTail, FirstHead
<1>6. CASE FirstClear
  BY <1>6 DEF FirstClear
<1>7. CASE PushLoadLen
  BY <1>7 DEF PushLoadLen
<1>8. CASE PushStoreLen
  <2>1. len' \in 0 .. Modulus - 1
    BY <1>8 DEF PushStoreLen
  <2>2. overlap' \in BOOLEAN /\ ppc' \in PushPC /\ pushed' \subseteq Node
    BY <1>8 DEF PushStoreLen
  <2> QED BY <1>8, <2>1, <2>2 DEF PushStoreLen
<1> QED BY <1>1, <1>2, <1>3, <1>4, <1>5, <1>6, <1>7, <1>8 DEF Push

LEMMA HandleTypes == ASSUME TInv, Handle PROVE TInv'
<1> USE DEF TInv, TypeOK, NodeInv, AppStep, list, parser
<1>1. CASE HandleMessage \/ FirstNode \/ NoIterator \/ LastNode
  BY <1>1 DEF HandleMessage, FirstNode, NoIterator, LastNode
<1>2. CASE NextNode
  BY <1>2 DEF NextNode
<1>3. CASE Deliver
  BY <1>3 DEF Deliver
<1>4. CASE TestPrev \/ TestNext
  BY <1>4 DEF TestPrev, TestNext
<1>5. CASE UnlinkPrev
  BY <1>5 DEF UnlinkPrev
<1>6. CASE RemoveHead
  BY <1>6 DEF RemoveHead
<1>7. CASE UnlinkNext
  BY <1>7 DEF UnlinkNext
<1>8. CASE LoadPrev \/ RemoveTail
  BY <1>8 DEF LoadPrev, RemoveTail
<1>9. CASE Free
  BY <1>9 DEF Free
<1>10. CASE RemoveLoadLen
  BY <1>10 DEF RemoveLoadLen
<1>11. CASE RemoveStoreLen
  BY <1>11 DEF RemoveStoreLen
<1> QED BY <1>1, <1>2, <1>3, <1>4, <1>5, <1>6, <1>7, <1>8, <1>9, <1>10, <1>11 DEF Handle

-----------------------------------------------------------------------------
(* Nothing was overlapping if it is not now.                               *)
LEMMA CalmPush ==
  ASSUME IInv, NEW from \in PushPC, NEW to \in PushPC, PushStep(from, to), ~overlap'
  PROVE  /\ ~overlap /\ ~wild /\ Apart /\ ListInv /\ PushInv /\ AppInv
         /\ to \in Pushing => apc \notin Removing
         /\ ppc = from /\ ppc' = to
         /\ UNCHANGED <<apc, iter, node, r, alen, delivered>>
         /\ Apart'
BY DEF IInv, CInv, Apart, PushStep, app

LEMMA CalmHandle ==
  ASSUME IInv, NEW from \in AppPC, NEW to \in AppPC, AppStep(from, to), ~overlap'
  PROVE  /\ ~overlap /\ ~wild /\ Apart /\ ListInv /\ PushInv /\ AppInv
         /\ to \in Removing => ppc \notin Pushing
         /\ apc = from /\ apc' = to
         /\ UNCHANGED <<ppc, new, h, plen>>
         /\ Apart'
BY DEF IInv, CInv, Apart, AppStep, parser

(* The numbers.                                                            *)
LEMMA Numbers ==
  ASSUME TInv
  PROVE  /\ Out \in Nat /\ new \in 0 .. MaxNodes
         /\ len \in Nat /\ head \in Nat /\ tail \in Nat /\ h \in Nat /\ iter \in Nat
         /\ node \in Nat /\ r \in Nat /\ plen \in Nat /\ alen \in Nat
         /\ prev \in [Node -> Pointer] /\ next \in [Node -> Pointer]
         /\ live \subseteq Node
         /\ ppc # "idle" => new \in Node
         /\ apc \notin {"idle", "first", "iterate"} => node \in Node
BY DEF TInv, TypeOK, NodeInv, Out

(* The push, statement by statement.                                       *)
LEMMA ArriveCalm == ASSUME IInv, Arrive, ~overlap' PROVE CInv'
<1>1. /\ ~wild /\ ListInv /\ PushInv /\ AppInv /\ ppc = "idle" /\ ppc' = "test"
      /\ UNCHANGED <<apc, iter, node, r, alen, delivered>> /\ Apart'
  BY CalmPush DEF Arrive
<1>2. /\ new' = new + 1 /\ live' = live \cup {new + 1}
      /\ UNCHANGED <<len, head, tail, prev, next, wild>>
  BY DEF Arrive
<1>3. /\ Out' = Out /\ Gone' = Gone
      /\ GoneNext' = GoneNext /\ GoneTail' = GoneTail /\ GoneLen' = GoneLen
  BY <1>1 DEF Out, Gone, GoneNext, GoneTail, GoneLen
<1>4. /\ TopPrev = new /\ TopHead = new /\ TopTail = new /\ TopLen = new /\ Linked = new
      /\ TopPrev' = new /\ TopHead' = new /\ TopTail' = new /\ TopLen' = new /\ Linked' = new
  BY <1>1, <1>2, Numbers DEF IInv, Top, TopPrev, TopHead, TopTail, TopLen, Linked
<1>5. new \in Nat /\ Out \in Nat /\ Out <= new
  BY <1>1, <1>4, Numbers DEF IInv, AppInv
<1>6. Gone \in Int /\ Gone <= Out
  BY <1>5 DEF Gone
<1>7. live' = (Gone' + 1) .. new'
  BY <1>1, <1>2, <1>3, <1>5, <1>6 DEF ListInv
<1>8. \A n \in live' : n <= Linked' => n \in live /\ n <= Linked
  BY <1>1, <1>2, <1>4, <1>5
<1>9. ListInv'
  BY <1>1, <1>2, <1>3, <1>4, <1>7, <1>8 DEF ListInv, After
<1>10. PushInv' /\ AppInv'
  BY <1>1, <1>2, <1>3, <1>4 DEF PushInv, AppInv, After
<1> QED BY <1>1, <1>2, <1>9, <1>10 DEF CInv

LEMMA TestLenCalm == ASSUME IInv, TestLen, ~overlap' PROVE CInv'
<1> USE DEF TestLen, Gone, GoneNext, GoneTail, GoneLen, Top, TopPrev, TopHead, TopTail,
            TopLen, Linked, Unlinking, Unlinked, After, list
<1>1. /\ ~wild /\ ListInv /\ PushInv /\ AppInv /\ ppc = "test"
      /\ ppc' = IF len # 0 THEN "link" ELSE "set_tail"
      /\ UNCHANGED <<apc, iter, node, r, alen, delivered>> /\ Apart'
      /\ apc \notin Removing
  BY CalmPush
<1>2. Out' = Out
  BY <1>1 DEF Out
<1>3. ListInv'
  BY <1>1, <1>2, Numbers DEF IInv, ListInv, AppInv
<1>4. PushInv' /\ AppInv'
  BY <1>1, <1>2, Numbers DEF IInv, ListInv, PushInv, AppInv
<1> QED BY <1>1, <1>3, <1>4 DEF CInv

LEMMA LinkCalm == ASSUME IInv, Link, ~overlap' PROVE CInv'
<1> USE DEF Link, Gone, GoneNext, GoneTail, GoneLen, Top, TopPrev, TopHead, TopTail,
            TopLen, Linked, Unlinking, Unlinked, After, list
<1>1. /\ ~wild /\ ListInv /\ PushInv /\ AppInv /\ ppc = "link" /\ ppc' = "load_head"
      /\ UNCHANGED <<apc, iter, node, r, alen, delivered>> /\ Apart'
      /\ apc \notin Removing
  BY CalmPush DEF Apart
<1>2. Out' = Out
  BY <1>1 DEF Out
<1>3. new \in Node /\ new \in live /\ head = new - 1 /\ new - 1 > Gone /\ new - 1 >= GoneNext + 1
  BY <1>1, Numbers DEF IInv, ListInv, PushInv, AppInv
<1>5. ASSUME NEW n \in live', n <= Linked'
      PROVE  /\ next'[n] = IF n = Gone' + 1 \/ n = GoneNext' + 1 THEN NULL ELSE n - 1
             /\ prev'[n] = IF n < TopPrev' THEN n + 1 ELSE NULL
  <2>1. CASE n = new
    BY <1>1, <1>2, <1>3, <2>1, Numbers DEF IInv
  <2>2. CASE n # new
    BY <1>1, <1>2, <1>3, <1>5, <2>2, Numbers DEF IInv, ListInv
  <2> QED BY <2>1, <2>2
<1>6. ListInv'
  BY <1>1, <1>2, <1>5, Numbers DEF IInv, ListInv, PushInv, AppInv
<1>4. PushInv' /\ AppInv'
  BY <1>1, <1>2, Numbers DEF IInv, ListInv, PushInv, AppInv
<1> QED BY <1>1, <1>4, <1>6 DEF CInv

LEMMA LoadHeadCalm == ASSUME IInv, LoadHead, ~overlap' PROVE CInv'
<1> USE DEF LoadHead, Gone, GoneNext, GoneTail, GoneLen, Top, TopPrev, TopHead, TopTail,
            TopLen, Linked, Unlinking, Unlinked, After, list
<1>1. /\ ~wild /\ ListInv /\ PushInv /\ AppInv /\ ppc = "load_head" /\ ppc' = "back"
      /\ UNCHANGED <<apc, iter, node, r, alen, delivered>> /\ Apart'
      /\ apc \notin Removing
  BY CalmPush DEF Apart
<1>2. Out' = Out
  BY <1>1 DEF Out
<1>3. ListInv'
  BY <1>1, <1>2, Numbers DEF IInv, ListInv, PushInv, AppInv
<1>4. PushInv' /\ AppInv'
  BY <1>1, <1>2, Numbers DEF IInv, ListInv, PushInv, AppInv
<1> QED BY <1>1, <1>3, <1>4 DEF CInv

LEMMA LinkBackCalm == ASSUME IInv, LinkBack, ~overlap' PROVE CInv'
<1> USE DEF LinkBack, Gone, GoneNext, GoneTail, GoneLen, Top, TopPrev, TopHead, TopTail,
            TopLen, Linked, Unlinking, Unlinked, After, list
<1>1. /\ ~wild /\ ListInv /\ PushInv /\ AppInv /\ ppc = "back" /\ ppc' = "set_head"
      /\ UNCHANGED <<apc, iter, node, r, alen, delivered>> /\ Apart'
      /\ apc \notin Removing
  BY CalmPush DEF Apart
<1>2. Out' = Out
  BY <1>1 DEF Out
<1>3. h = new - 1 /\ h \in Node /\ h \in live /\ new \in Node
  BY <1>1, Numbers DEF IInv, ListInv, PushInv, AppInv
<1>4. ~wild' /\ prev' = [prev EXCEPT ![h] = new] /\ UNCHANGED next
  BY <1>1, <1>3
<1>5. ASSUME NEW n \in live', n <= Linked'
      PROVE  /\ next'[n] = IF n = Gone' + 1 \/ n = GoneNext' + 1 THEN NULL ELSE n - 1
             /\ prev'[n] = IF n < TopPrev' THEN n + 1 ELSE NULL
  <2>1. CASE n = h
    BY <1>1, <1>2, <1>3, <1>4, <2>1, Numbers DEF IInv, ListInv
  <2>2. CASE n # h
    BY <1>1, <1>2, <1>3, <1>4, <1>5, <2>2, Numbers DEF IInv, ListInv
  <2> QED BY <2>1, <2>2
<1>6. ListInv'
  BY <1>1, <1>2, <1>5, Numbers DEF IInv, ListInv, PushInv, AppInv
<1>7. PushInv' /\ AppInv'
  BY <1>1, <1>2, <1>3, Numbers DEF IInv, ListInv, PushInv, AppInv
<1> QED BY <1>1, <1>4, <1>6, <1>7 DEF CInv

LEMMA PushHeadCalm == ASSUME IInv, PushHead, ~overlap' PROVE CInv'
<1> USE DEF PushHead, Gone, GoneNext, GoneTail, GoneLen, Top, TopPrev, TopHead, TopTail,
            TopLen, Linked, Unlinking, Unlinked, After, list
<1>1. /\ ~wild /\ ListInv /\ PushInv /\ AppInv /\ ppc = "set_head" /\ ppc' = "load_len"
      /\ UNCHANGED <<apc, iter, node, r, alen, delivered>> /\ Apart'
      /\ apc \notin Removing
  BY CalmPush DEF Apart
<1>2. Out' = Out
  BY <1>1 DEF Out
<1>3. ListInv'
  BY <1>1, <1>2, Numbers DEF IInv, ListInv, PushInv, AppInv
<1>4. PushInv' /\ AppInv'
  BY <1>1, <1>2, Numbers DEF IInv, ListInv, PushInv, AppInv
<1> QED BY <1>1, <1>3, <1>4 DEF CInv

LEMMA FirstTailCalm == ASSUME IInv, FirstTail, ~overlap' PROVE CInv'
<1> USE DEF FirstTail, Gone, GoneNext, GoneTail, GoneLen, Top, TopPrev, TopHead, TopTail,
            TopLen, Linked, Unlinking, Unlinked, After, list
<1>1. /\ ~wild /\ ListInv /\ PushInv /\ AppInv /\ ppc = "set_tail" /\ ppc' = "set_head_first"
      /\ UNCHANGED <<apc, iter, node, r, alen, delivered>> /\ Apart'
      /\ apc \notin Removing
  BY CalmPush DEF Apart
<1>2. Out' = Out
  BY <1>1 DEF Out
<1>3. ListInv'
  BY <1>1, <1>2, Numbers DEF IInv, ListInv, PushInv, AppInv
<1>4. PushInv' /\ AppInv'
  BY <1>1, <1>2, Numbers DEF IInv, ListInv, PushInv, AppInv
<1> QED BY <1>1, <1>3, <1>4 DEF CInv

LEMMA FirstHeadCalm == ASSUME IInv, FirstHead, ~overlap' PROVE CInv'
<1> USE DEF FirstHead, Gone, GoneNext, GoneTail, GoneLen, Top, TopPrev, TopHead, TopTail,
            TopLen, Linked, Unlinking, Unlinked, After, list
<1>1. /\ ~wild /\ ListInv /\ PushInv /\ AppInv /\ ppc = "set_head_first" /\ ppc' = "clear"
      /\ UNCHANGED <<apc, iter, node, r, alen, delivered>> /\ Apart'
      /\ apc \notin Removing
  BY CalmPush DEF Apart
<1>2. Out' = Out
  BY <1>1 DEF Out
<1>3. ListInv'
  BY <1>1, <1>2, Numbers DEF IInv, ListInv, PushInv, AppInv
<1>4. PushInv' /\ AppInv'
  BY <1>1, <1>2, Numbers DEF IInv, ListInv, PushInv, AppInv
<1> QED BY <1>1, <1>3, <1>4 DEF CInv

LEMMA FirstClearCalm == ASSUME IInv, FirstClear, ~overlap' PROVE CInv'
<1> USE DEF FirstClear, Gone, GoneNext, GoneTail, GoneLen, Top, TopPrev, TopHead, TopTail,
            TopLen, Linked, Unlinking, Unlinked, After, list
<1>1. /\ ~wild /\ ListInv /\ PushInv /\ AppInv /\ ppc = "clear" /\ ppc' = "load_len"
      /\ UNCHANGED <<apc, iter, node, r, alen, delivered>> /\ Apart'
      /\ apc \notin Removing
  BY CalmPush DEF Apart
<1>2. Out' = Out
  BY <1>1 DEF Out
<1>3. ListInv'
  BY <1>1, <1>2, Numbers DEF IInv, ListInv, PushInv, AppInv
<1>4. PushInv' /\ AppInv'
  BY <1>1, <1>2, Numbers DEF IInv, ListInv, PushInv, AppInv
<1> QED BY <1>1, <1>3, <1>4 DEF CInv

LEMMA PushLoadLenCalm == ASSUME IInv, PushLoadLen, ~overlap' PROVE CInv'
<1> USE DEF PushLoadLen, Gone, GoneNext, GoneTail, GoneLen, Top, TopPrev, TopHead, TopTail,
            TopLen, Linked, Unlinking, Unlinked, After, list
<1>1. /\ ~wild /\ ListInv /\ PushInv /\ AppInv /\ ppc = "load_len" /\ ppc' = "store_len"
      /\ UNCHANGED <<apc, iter, node, r, alen, delivered>> /\ Apart'
      /\ apc \notin Removing
  BY CalmPush DEF Apart
<1>2. Out' = Out
  BY <1>1 DEF Out
<1>3. ListInv'
  BY <1>1, <1>2, Numbers DEF IInv, ListInv, PushInv, AppInv
<1>4. PushInv' /\ AppInv'
  BY <1>1, <1>2, Numbers DEF IInv, ListInv, PushInv, AppInv
<1> QED BY <1>1, <1>3, <1>4 DEF CInv

LEMMA PushStoreLenCalm == ASSUME IInv, PushStoreLen, ~overlap' PROVE CInv'
<1> USE DEF Gone, GoneNext, GoneTail, GoneLen, Top, TopPrev, TopHead, TopTail, TopLen,
            Linked, Unlinking, Unlinked, After
<1>1. /\ ~wild /\ ListInv /\ PushInv /\ AppInv /\ ppc = "store_len" /\ ppc' = "idle"
      /\ UNCHANGED <<apc, iter, node, r, alen, delivered>> /\ Apart'
      /\ apc \notin Removing
  BY CalmPush DEF Apart, PushStoreLen
<1>2. Out' = Out
  BY <1>1 DEF Out
<1>3. /\ len \in Nat /\ len' = (len + 1) % Modulus
      /\ UNCHANGED <<head, tail, prev, next, live, new, wild>>
  BY <1>1, Numbers DEF IInv, PushInv, PushStoreLen
<1>4. TopLen = new - 1 /\ len = TopLen - GoneLen
  BY <1>1 DEF ListInv
<1>5. GoneLen \in Nat
  BY <1>1, Numbers DEF IInv, AppInv
<1>6. len + 1 <= MaxNodes
  BY <1>4, <1>5, Numbers DEF IInv
<1>7. len' = len + 1
  BY <1>3, <1>6
<1>8. UNCHANGED <<head, tail, prev, next, live, new, wild>>
  BY <1>3
<1>9. ListInv'
  BY <1>1, <1>2, <1>7, <1>8, Numbers DEF IInv, ListInv, PushInv, AppInv
<1>10. PushInv' /\ AppInv'
  BY <1>1, <1>2, <1>7, <1>8, Numbers DEF IInv, ListInv, PushInv, AppInv
<1> QED BY <1>1, <1>8, <1>9, <1>10 DEF CInv

-----------------------------------------------------------------------------
(* Iterating, delivering and removing, statement by statement.             *)
LEMMA HandleMessageCalm == ASSUME IInv, HandleMessage, ~overlap' PROVE CInv'
<1> USE DEF HandleMessage, Gone, GoneNext, GoneTail, GoneLen, Top, TopPrev, TopHead, TopTail,
            TopLen, Linked, Unlinking, Unlinked, After, list
<1>1. /\ ~wild /\ ListInv /\ PushInv /\ AppInv /\ apc = "idle" /\ apc' = "first"
      /\ UNCHANGED <<ppc, new, h, plen>> /\ Apart'
  BY CalmHandle
<1>2. Out' = Out
  BY <1>1 DEF Out
<1>3. ListInv'
  BY <1>1, <1>2, Numbers DEF IInv, ListInv, PushInv, AppInv
<1>4. PushInv' /\ AppInv'
  BY <1>1, <1>2, Numbers DEF IInv, ListInv, PushInv, AppInv
<1> QED BY <1>1, <1>3, <1>4 DEF CInv

LEMMA FirstNodeCalm == ASSUME IInv, FirstNode, ~overlap' PROVE CInv'
<1> USE DEF FirstNode, Gone, GoneNext, GoneTail, GoneLen, Top, TopPrev, TopHead, TopTail,
            TopLen, Linked, Unlinking, Unlinked, After, list
<1>1. /\ ~wild /\ ListInv /\ PushInv /\ AppInv /\ apc = "first" /\ apc' = "iterate"
      /\ UNCHANGED <<ppc, new, h, plen>> /\ Apart'
  BY CalmHandle
<1>2. Out' = Out
  BY <1>1 DEF Out
<1>3. ListInv'
  BY <1>1, <1>2, Numbers DEF IInv, ListInv, PushInv, AppInv
<1>4. PushInv' /\ AppInv'
  BY <1>1, <1>2, Numbers DEF IInv, ListInv, PushInv, AppInv
<1> QED BY <1>1, <1>3, <1>4 DEF CInv

LEMMA NoIteratorCalm == ASSUME IInv, NoIterator, ~overlap' PROVE CInv'
<1> USE DEF NoIterator, Gone, GoneNext, GoneTail, GoneLen, Top, TopPrev, TopHead, TopTail,
            TopLen, Linked, Unlinking, Unlinked, After, list
<1>1. /\ ~wild /\ ListInv /\ PushInv /\ AppInv /\ apc = "first" /\ apc' = "idle"
      /\ UNCHANGED <<ppc, new, h, plen>> /\ Apart'
  BY CalmHandle
<1>2. Out' = Out
  BY <1>1 DEF Out
<1>3. ListInv'
  BY <1>1, <1>2, Numbers DEF IInv, ListInv, PushInv, AppInv
<1>4. PushInv' /\ AppInv'
  BY <1>1, <1>2, Numbers DEF IInv, ListInv, PushInv, AppInv
<1> QED BY <1>1, <1>3, <1>4 DEF CInv

LEMMA LastNodeCalm == ASSUME IInv, LastNode, ~overlap' PROVE CInv'
<1> USE DEF LastNode, Gone, GoneNext, GoneTail, GoneLen, Top, TopPrev, TopHead, TopTail,
            TopLen, Linked, Unlinking, Unlinked, After, list
<1>1. /\ ~wild /\ ListInv /\ PushInv /\ AppInv /\ apc = "iterate" /\ apc' = "idle"
      /\ UNCHANGED <<ppc, new, h, plen>> /\ Apart'
  BY CalmHandle
<1>2. Out' = Out
  BY <1>1 DEF Out
<1>3. ListInv'
  BY <1>1, <1>2, Numbers DEF IInv, ListInv, PushInv, AppInv
<1>4. PushInv' /\ AppInv'
  BY <1>1, <1>2, Numbers DEF IInv, ListInv, PushInv, AppInv
<1> QED BY <1>1, <1>3, <1>4 DEF CInv

LEMMA NextNodeCalm == ASSUME IInv, NextNode, ~overlap' PROVE CInv'
<1> USE DEF NextNode, Gone, GoneNext, GoneTail, GoneLen, Top, TopPrev, TopHead, TopTail,
            TopLen, Linked, Unlinking, Unlinked, After
<1>1. /\ ~wild /\ ListInv /\ PushInv /\ AppInv /\ apc = "iterate" /\ apc' = "deliver"
      /\ UNCHANGED <<ppc, new, h, plen>> /\ Apart'
  BY CalmHandle DEF Apart, NextNode, list
<1>2. Out' = Out
  BY <1>1 DEF Out
<1>3. iter = Out + 1 /\ iter <= TopPrev /\ Gone = Out
  BY <1>1, Numbers DEF IInv, AppInv
<1>4. iter \in live /\ iter <= Linked
  BY <1>1, <1>3, Numbers DEF IInv, ListInv
<1>5. ~wild' /\ node' = iter /\ iter' = prev[iter] /\ UNCHANGED <<list, delivered>>
  BY <1>1, <1>4 DEF AppStep
<1>6. iter' = After(iter, TopPrev)
  BY <1>1, <1>3, <1>4, <1>5 DEF ListInv
<1>7. ListInv'
  BY <1>1, <1>2, <1>5, Numbers DEF IInv, ListInv, AppInv, list
<1>8. PushInv' /\ AppInv'
  BY <1>1, <1>2, <1>3, <1>5, <1>6, Numbers DEF IInv, PushInv, AppInv, list
<1> QED BY <1>1, <1>5, <1>7, <1>8 DEF CInv

LEMMA DeliverCalm == ASSUME IInv, Deliver, ~overlap' PROVE CInv'
<1> USE DEF Deliver, Gone, GoneNext, GoneTail, GoneLen, Top, TopPrev, TopHead, TopTail,
            TopLen, Linked, Unlinking, Unlinked, After
<1>1. /\ ~wild /\ ListInv /\ PushInv /\ AppInv /\ apc = "deliver" /\ apc' = "prev"
      /\ UNCHANGED <<ppc, new, h, plen>> /\ Apart'
  BY CalmHandle DEF Apart, Deliver, list
<1>2. /\ delivered' = Append(delivered, node) /\ delivered \in Seq(Node) /\ node \in Node
      /\ UNCHANGED <<len, head, tail, prev, next, live, iter, node, wild>>
  BY <1>1 DEF IInv, TInv, TypeOK, NodeInv, list
<1>3. Out' = Out + 1 /\ Out \in Nat
  BY <1>2 DEF Out
<1>4. node = Out + 1 /\ delivered = [i \in 1 .. Out |-> i]
  BY <1>1 DEF AppInv
<1>5. delivered' = [i \in 1 .. Out' |-> i]
  BY <1>2, <1>3, <1>4
<1>6. ListInv'
  BY <1>1, <1>2, <1>3, Numbers DEF IInv, ListInv
<1>7. PushInv' /\ AppInv'
  BY <1>1, <1>2, <1>3, <1>4, <1>5, Numbers DEF IInv, PushInv, AppInv
<1> QED BY <1>1, <1>2, <1>6, <1>7 DEF CInv

LEMMA TestPrevCalm == ASSUME IInv, TestPrev, ~overlap' PROVE CInv'
<1> USE DEF TestPrev, Gone, GoneNext, GoneTail, GoneLen, Top, TopPrev, TopHead, TopTail,
            TopLen, Linked, Unlinking, Unlinked, After, list
<1>1. /\ ~wild /\ ListInv /\ PushInv /\ AppInv /\ apc = "prev"
      /\ apc' = IF prev[node] # NULL THEN "unlink_prev" ELSE "set_head"
      /\ UNCHANGED <<ppc, new, h, plen>> /\ Apart'
      /\ ppc \notin Pushing
  BY CalmHandle
<1>2. Out' = Out
  BY <1>1 DEF Out
<1>3. ListInv'
  BY <1>1, <1>2, Numbers DEF IInv, ListInv, PushInv, AppInv
<1>4. PushInv' /\ AppInv'
  BY <1>1, <1>2, Numbers DEF IInv, ListInv, PushInv, AppInv
<1> QED BY <1>1, <1>3, <1>4 DEF CInv

LEMMA UnlinkPrevCalm == ASSUME IInv, UnlinkPrev, ~overlap' PROVE CInv'
<1> USE DEF UnlinkPrev, Gone, GoneNext, GoneTail, GoneLen, Top, TopPrev, TopHead, TopTail,
            TopLen, Linked, Unlinking, Unlinked, After
<1>1. /\ ~wild /\ ListInv /\ PushInv /\ AppInv /\ apc = "unlink_prev" /\ apc' = "next"
      /\ UNCHANGED <<ppc, new, h, plen>> /\ Apart'
      /\ ppc \notin Pushing
  BY CalmHandle DEF Apart, UnlinkPrev, list
<1>2. Out' = Out
  BY <1>1 DEF Out
<1>3. node = Out /\ node = Gone + 1 /\ node \in Node /\ node <= TopPrev
  BY <1>1, Numbers DEF IInv, AppInv
<1>4. node \in live /\ node <= Linked /\ TopHead = TopPrev /\ TopTail = TopPrev
  BY <1>1, <1>3, Numbers DEF IInv, ListInv
<1>5. next[node] = NULL /\ prev[node] = IF node < TopPrev THEN node + 1 ELSE NULL
  BY <1>1, <1>3, <1>4 DEF ListInv
<1>6. prev[node] = Out + 1 /\ Out + 1 \in live /\ Out + 1 <= TopPrev
  BY <1>1, <1>3, <1>5, Numbers DEF IInv, ListInv, AppInv
<1>7. /\ ~wild' /\ next' = [next EXCEPT ![Out + 1] = NULL]
      /\ UNCHANGED <<len, head, tail, prev, live, iter, node, r, alen, delivered>>
  BY <1>1, <1>5, <1>6
<1>8. ASSUME NEW n \in live', n <= Linked'
      PROVE  /\ next'[n] = IF n = Gone' + 1 \/ n = GoneNext' + 1 THEN NULL ELSE n - 1
             /\ prev'[n] = IF n < TopPrev' THEN n + 1 ELSE NULL
  <2>1. CASE n = Out + 1
    BY <1>1, <1>2, <1>3, <1>6, <1>7, <1>8, <2>1, Numbers DEF IInv, ListInv
  <2>2. CASE n # Out + 1
    BY <1>1, <1>2, <1>3, <1>7, <1>8, <2>2, Numbers DEF IInv, ListInv
  <2> QED BY <2>1, <2>2
<1>9. /\ live' = (Gone' + 1) .. new'
      /\ head' = IF TopHead' > GoneNext' THEN TopHead' ELSE NULL
      /\ tail' = After(GoneTail', TopTail')
      /\ len' = TopLen' - GoneLen' /\ TopLen' >= GoneLen'
  BY <1>1, <1>2, <1>3, <1>4, <1>6, <1>7, Numbers DEF IInv, ListInv
<1>10. ListInv'
  BY <1>8, <1>9 DEF ListInv
<1>11. PushInv' /\ AppInv'
  BY <1>1, <1>2, <1>7, Numbers DEF IInv, PushInv, AppInv
<1> QED BY <1>1, <1>7, <1>10, <1>11 DEF CInv

LEMMA RemoveHeadCalm == ASSUME IInv, RemoveHead, ~overlap' PROVE CInv'
<1> USE DEF RemoveHead, Gone, GoneNext, GoneTail, GoneLen, Top, TopPrev, TopHead, TopTail,
            TopLen, Linked, Unlinking, Unlinked, After
<1>1. /\ ~wild /\ ListInv /\ PushInv /\ AppInv /\ apc = "set_head" /\ apc' = "next"
      /\ UNCHANGED <<ppc, new, h, plen>> /\ Apart'
      /\ ppc \notin Pushing
  BY CalmHandle DEF Apart, RemoveHead, list
<1>2. Out' = Out
  BY <1>1 DEF Out
<1>3. node = Out /\ node = Gone + 1 /\ node \in Node /\ node <= TopPrev
  BY <1>1, Numbers DEF IInv, AppInv
<1>4. node \in live /\ node <= Linked /\ TopHead = TopPrev /\ TopTail = TopPrev
  BY <1>1, <1>3, Numbers DEF IInv, ListInv
<1>5. next[node] = NULL /\ prev[node] = IF node < TopPrev THEN node + 1 ELSE NULL
  BY <1>1, <1>3, <1>4 DEF ListInv
<1>6. ListInv'
  BY <1>1, <1>2, <1>3, <1>4, <1>5, Numbers DEF IInv, ListInv, AppInv
<1>7. PushInv' /\ AppInv'
  BY <1>1, <1>2, <1>3, <1>4, <1>5, Numbers DEF IInv, PushInv, AppInv
<1> QED BY <1>1, <1>6, <1>7 DEF CInv

LEMMA TestNextCalm == ASSUME IInv, TestNext, ~overlap' PROVE CInv'
<1> USE DEF TestNext, Gone, GoneNext, GoneTail, GoneLen, Top, TopPrev, TopHead, TopTail,
            TopLen, Linked, Unlinking, Unlinked, After, list
<1>1. /\ ~wild /\ ListInv /\ PushInv /\ AppInv /\ apc = "next"
      /\ apc' = IF next[node] # NULL THEN "unlink_next" ELSE "load_prev"
      /\ UNCHANGED <<ppc, new, h, plen>> /\ Apart'
      /\ ppc \notin Pushing
  BY CalmHandle DEF Apart, TestNext, list
<1>2. Out' = Out
  BY <1>1 DEF Out
<1>3. node = Out /\ node = Gone + 1 /\ node \in Node /\ node <= TopPrev
  BY <1>1, Numbers DEF IInv, AppInv
<1>4. node \in live /\ node <= Linked /\ TopHead = TopPrev /\ TopTail = TopPrev
  BY <1>1, <1>3, Numbers DEF IInv, ListInv
<1>5. next[node] = NULL /\ prev[node] = IF node < TopPrev THEN node + 1 ELSE NULL
  BY <1>1, <1>3, <1>4 DEF ListInv
<1>6. ListInv'
  BY <1>1, <1>2, <1>3, <1>4, <1>5, Numbers DEF IInv, ListInv, AppInv
<1>7. PushInv' /\ AppInv'
  BY <1>1, <1>2, <1>3, <1>4, <1>5, Numbers DEF IInv, PushInv, AppInv
<1> QED BY <1>1, <1>6, <1>7 DEF CInv

LEMMA LoadPrevCalm == ASSUME IInv, LoadPrev, ~overlap' PROVE CInv'
<1> USE DEF LoadPrev, Gone, GoneNext, GoneTail, GoneLen, Top, TopPrev, TopHead, TopTail,
            TopLen, Linked, Unlinking, Unlinked, After, list
<1>1. /\ ~wild /\ ListInv /\ PushInv /\ AppInv /\ apc = "load_prev" /\ apc' = "store_tail"
      /\ UNCHANGED <<ppc, new, h, plen>> /\ Apart'
      /\ ppc \notin Pushing
  BY CalmHandle DEF Apart, LoadPrev, list
<1>2. Out' = Out
  BY <1>1 DEF Out
<1>3. node = Out /\ node = Gone + 1 /\ node \in Node /\ node <= TopPrev
  BY <1>1, Numbers DEF IInv, AppInv
<1>4. node \in live /\ node <= Linked /\ TopHead = TopPrev /\ TopTail = TopPrev
  BY <1>1, <1>3, Numbers DEF IInv, ListInv
<1>5. next[node] = NULL /\ prev[node] = IF node < TopPrev THEN node + 1 ELSE NULL
  BY <1>1, <1>3, <1>4 DEF ListInv
<1>6. ListInv'
  BY <1>1, <1>2, <1>3, <1>4, <1>5, Numbers DEF IInv, ListInv, AppInv
<1>7. PushInv' /\ AppInv'
  BY <1>1, <1>2, <1>3, <1>4, <1>5, Numbers DEF IInv, PushInv, AppInv
<1> QED BY <1>1, <1>6, <1>7 DEF CInv

LEMMA RemoveTailCalm == ASSUME IInv, RemoveTail, ~overlap' PROVE CInv'
<1> USE DEF RemoveTail, Gone, GoneNext, GoneTail, GoneLen, Top, TopPrev, TopHead, TopTail,
            TopLen, Linked, Unlinking, Unlinked, After, list
<1>1. /\ ~wild /\ ListInv /\ PushInv /\ AppInv /\ apc = "store_tail" /\ apc' = "free"
      /\ UNCHANGED <<ppc, new, h, plen>> /\ Apart'
      /\ ppc \notin Pushing
  BY CalmHandle DEF Apart
<1>2. Out' = Out
  BY <1>1 DEF Out
<1>3. ListInv'
  BY <1>1, <1>2, Numbers DEF IInv, ListInv, PushInv, AppInv
<1>4. PushInv' /\ AppInv'
  BY <1>1, <1>2, Numbers DEF IInv, ListInv, PushInv, AppInv
<1> QED BY <1>1, <1>3, <1>4 DEF CInv

LEMMA FreeCalm == ASSUME IInv, Free, ~overlap' PROVE CInv'
<1> USE DEF Free, Gone, GoneNext, GoneTail, GoneLen, Top, TopPrev, TopHead, TopTail,
            TopLen, Linked, Unlinking, Unlinked, After, list
<1>1. /\ ~wild /\ ListInv /\ PushInv /\ AppInv /\ apc = "free" /\ apc' = "load_len"
      /\ UNCHANGED <<ppc, new, h, plen>> /\ Apart'
      /\ ppc \notin Pushing
  BY CalmHandle DEF Apart
<1>2. Out' = Out
  BY <1>1 DEF Out
<1>3. ListInv'
  BY <1>1, <1>2, Numbers DEF IInv, ListInv, PushInv, AppInv
<1>4. PushInv' /\ AppInv'
  BY <1>1, <1>2, Numbers DEF IInv, ListInv, PushInv, AppInv
<1> QED BY <1>1, <1>3, <1>4 DEF CInv

LEMMA RemoveLoadLenCalm == ASSUME IInv, RemoveLoadLen, ~overlap' PROVE CInv'
<1> USE DEF RemoveLoadLen, Gone, GoneNext, GoneTail, GoneLen, Top, TopPrev, TopHead, TopTail,
            TopLen, Linked, Unlinking, Unlinked, After, list
<1>1. /\ ~wild /\ ListInv /\ PushInv /\ AppInv /\ apc = "load_len" /\ apc' = "store_len"
      /\ UNCHANGED <<ppc, new, h, plen>> /\ Apart'
      /\ ppc \notin Pushing
  BY CalmHandle DEF Apart
<1>2. Out' = Out
  BY <1>1 DEF Out
<1>3. ListInv'
  BY <1>1, <1>2, Numbers DEF IInv, ListInv, PushInv, AppInv
<1>4. PushInv' /\ AppInv'
  BY <1>1, <1>2, Numbers DEF IInv, ListInv, PushInv, AppInv
<1> QED BY <1>1, <1>3, <1>4 DEF CInv

LEMMA RemoveStoreLenCalm == ASSUME IInv, RemoveStoreLen, ~overlap' PROVE CInv'
<1> USE DEF Gone, GoneNext, GoneTail, GoneLen, Top, TopPrev, TopHead, TopTail, TopLen,
            Linked, Unlinking, Unlinked, After
<1>1. /\ ~wild /\ ListInv /\ PushInv /\ AppInv /\ apc = "store_len" /\ apc' = "iterate"
      /\ UNCHANGED <<ppc, new, h, plen>> /\ Apart'
      /\ ppc \notin Pushing
  BY CalmHandle DEF Apart, RemoveStoreLen, list
<1>2. Out' = Out
  BY <1>1 DEF Out, RemoveStoreLen
<1>3. /\ len' = (len + Modulus - 1) % Modulus /\ len \in 0 .. Modulus - 1
      /\ UNCHANGED <<head, tail, prev, next, live, iter, node, r, alen, delivered, wild>>
  BY <1>1 DEF IInv, TInv, TypeOK, AppInv, RemoveStoreLen
<1>4. len >= 1
  BY <1>1, Numbers DEF IInv, ListInv, AppInv
<1>5. len' = len - 1
  <2>1. len + Modulus - 1 = (len - 1) + Modulus /\ len - 1 \in 0 .. Modulus - 1
    BY <1>3, <1>4
  <2> QED BY <1>3, <2>1
<1>6. UNCHANGED <<head, tail, prev, next, live, iter, node, r, alen, delivered, wild>>
  BY <1>3
<1>7. ListInv'
  BY <1>1, <1>2, <1>4, <1>5, <1>6, Numbers DEF IInv, ListInv, AppInv
<1>8. PushInv' /\ AppInv'
  BY <1>1, <1>2, <1>4, <1>5, <1>6, Numbers DEF IInv, PushInv, AppInv
<1> QED BY <1>1, <1>6, <1>7, <1>8 DEF CInv

-----------------------------------------------------------------------------
(* No step of either task breaks the invariant while nothing overlaps.     *)
LEMMA PushCalm == ASSUME IInv, Push, ~overlap' PROVE CInv'
BY ArriveCalm, TestLenCalm, LinkCalm, LoadHeadCalm, LinkBackCalm, PushHeadCalm, FirstTailCalm,
   FirstHeadCalm, FirstClearCalm, PushLoadLenCalm, PushStoreLenCalm DEF Push

(* The node that is removed is the last one: it has no next.               *)
LEMMA HandleCalm == ASSUME IInv, Handle, ~overlap' PROVE CInv'
<1>1. ~UnlinkNext
  <2> SUFFICES ASSUME UnlinkNext PROVE FALSE
    OBVIOUS
  <2>1. AppInv /\ apc = "unlink_next"
    BY CalmHandle DEF UnlinkNext
  <2> QED BY <2>1 DEF AppInv
<1> QED BY <1>1, HandleMessageCalm, FirstNodeCalm, NoIteratorCalm, LastNodeCalm, NextNodeCalm,
           DeliverCalm, TestPrevCalm, UnlinkPrevCalm, RemoveHeadCalm, TestNextCalm,
           LoadPrevCalm, RemoveTailCalm, FreeCalm, RemoveLoadLenCalm, RemoveStoreLenCalm
        DEF Handle

(* Neither does any step touch the types.                                  *)
LEMMA NextIInv == ASSUME IInv, [Next]_vars PROVE IInv'
<1>1. CASE Next
  <2>1. TInv'
    BY <1>1, PushTypes, HandleTypes DEF Next, IInv
  <2>2. CInv'
    BY <1>1, PushCalm, HandleCalm DEF Next, CInv
  <2> QED BY <2>1, <2>2 DEF IInv
<1>2. CASE UNCHANGED vars
  <2> USE <1>2 DEF vars, list, parser, app
  <2>1. TInv'
    BY DEF IInv, TInv, TypeOK, NodeInv
  <2>2. /\ Gone' = Gone /\ GoneNext' = GoneNext /\ GoneTail' = GoneTail /\ GoneLen' = GoneLen
        /\ Out' = Out
    BY DEF Gone, GoneNext, GoneTail, GoneLen, Out
  <2>3. /\ TopPrev' = TopPrev /\ TopHead' = TopHead /\ TopTail' = TopTail /\ TopLen' = TopLen
        /\ Linked' = Linked
    BY DEF Top, TopPrev, TopHead, TopTail, TopLen, Linked
  <2>4. ListInv => ListInv'
    BY <2>2, <2>3 DEF ListInv, After
  <2>5. (PushInv => PushInv') /\ (AppInv => AppInv') /\ (Apart => Apart')
    BY <2>2, <2>3 DEF PushInv, AppInv, After, Apart
  <2> QED BY <2>1, <2>4, <2>5 DEF IInv, CInv
<1> QED BY <1>1, <1>2

LEMMA Invariance == Spec => []IInv
BY InitIInv, NextIInv, PTL DEF Spec

(* Delivery: as long as push and removal have not overlapped, the messages *)
(* are delivered in the order of their arrival, none twice, none skipped,  *)
(* however many there are and wherever the tasks preempt each other.       *)
THEOREM CalmDeliversInOrder == Spec => []CalmFifo
<1>1. IInv => CalmFifo
  BY DEF IInv, CInv, AppInv, Out, CalmFifo
<1> QED BY <1>1, Invariance, PTL
-----------------------------------------------------------------------------
(* The nodes from lo to hi in order are lo, lo + 1 .. hi.                  *)
LEMMA InOrderInterval ==
  ASSUME NEW lo \in Nat, NEW hi \in Nat, lo <= hi + 1
  PROVE  /\ Cardinality(lo .. hi) = hi + 1 - lo
         /\ InOrder(lo .. hi) = [i \in 1 .. hi + 1 - lo |-> lo + i - 1]
<1>1. Cardinality(lo .. hi) = hi + 1 - lo
  BY FS_Interval
<1>2. ASSUME NEW n \in lo .. hi
      PROVE  Cardinality({m \in lo .. hi : m <= n}) = n - lo + 1
  <2>1. {m \in lo .. hi : m <= n} = lo .. n
    OBVIOUS
  <2>2. n \in Int /\ lo \in Int /\ lo <= n
    OBVIOUS
  <2>3. Cardinality(lo .. n) = n - lo + 1
    BY <2>2, FS_Interval
  <2> QED BY <2>1, <2>3, Zenon
<1>3. ASSUME NEW i \in 1 .. hi + 1 - lo
      PROVE  (CHOOSE n \in lo .. hi : Cardinality({m \in lo .. hi : m <= n}) = i) = lo + i - 1
  <2> DEFINE Rank(n) == Cardinality({m \in lo .. hi : m <= n})
  <2> HIDE DEF Rank
  <2>1. \A n \in lo .. hi : Rank(n) = i <=> n = lo + i - 1
    BY <1>2 DEF Rank
  <2>2. lo + i - 1 \in lo .. hi
    OBVIOUS
  <2>3. (CHOOSE n \in lo .. hi : Rank(n) = i) = lo + i - 1
    BY <2>1, <2>2
  <2> QED BY <2>3 DEF Rank
<1> QED BY <1>1, <1>3 DEF InOrder

(* A list that was put together and taken apart in peace is whole: both    *)
(* chains meet the waiting nodes in order and the length is their number.  *)
LEMMA QuietIsSound ==
  ASSUME IInv, ~overlap, Quiet
  PROVE  /\ Chain(tail, prev, InOrder(Waiting))
         /\ Chain(head, next, Reversed(InOrder(Waiting)))
         /\ len = Cardinality(Waiting)
<1> DEFINE top == IF ppc = "idle" THEN new ELSE new - 1
<1>1. ListInv /\ AppInv
  BY DEF IInv, CInv
<1>2. ppc \in {"idle", "test"} /\ apc \in AppPC \ Removing
  BY DEF Quiet, IInv, TInv, TypeOK
<1>3. TopPrev = top /\ TopHead = top /\ TopTail = top /\ TopLen = top /\ Linked = top
  BY <1>2 DEF Top, TopPrev, TopHead, TopTail, TopLen, Linked
<1> HIDE DEF top
<1>4. GoneTail = Gone /\ GoneLen = Gone /\ GoneNext = Gone
  BY <1>2 DEF GoneNext, GoneTail, GoneLen, Unlinked
<1>5. Gone \in Nat /\ top \in Nat /\ Gone <= top /\ top <= new
  <2>1. Gone \in Nat
    BY <1>1, <1>2, Numbers DEF IInv, AppInv, Gone, Unlinking
  <2>2. top \in Nat /\ top <= new
    BY <1>2, Numbers DEF IInv, top
  <2>3. Gone <= top
    BY <1>1, <1>3, <1>4 DEF ListInv
  <2> QED BY <2>1, <2>2, <2>3
<1>6. Waiting = (Gone + 1) .. top
  BY <1>1, <1>2, <1>5, Numbers DEF IInv, ListInv, Waiting, top
<1> DEFINE w == [i \in 1 .. top - Gone |-> Gone + i]
<1>7. InOrder(Waiting) = w /\ Cardinality(Waiting) = top - Gone
  BY <1>5, <1>6, InOrderInterval
<1>8. Len(w) = top - Gone /\ DOMAIN w = 1 .. top - Gone
  BY <1>5
<1>9. Reversed(w) = [i \in 1 .. top - Gone |-> top + 1 - i]
  BY <1>5, <1>8 DEF Reversed
<1>10. \A n \in (Gone + 1) .. top :
          /\ next[n] = IF n = Gone + 1 THEN NULL ELSE n - 1
          /\ prev[n] = IF n < top THEN n + 1 ELSE NULL
  BY <1>1, <1>3, <1>4, <1>5, Numbers DEF IInv, ListInv
<1>11. tail = IF top > Gone THEN Gone + 1 ELSE NULL
  BY <1>1, <1>3, <1>4 DEF ListInv, After
<1>12. head = IF top > Gone THEN top ELSE NULL
  BY <1>1, <1>3, <1>4 DEF ListInv
<1>13. Chain(tail, prev, w)
  BY <1>5, <1>8, <1>10, <1>11 DEF Chain
<1>14. Chain(head, next, Reversed(w))
  BY <1>5, <1>9, <1>10, <1>12 DEF Chain
<1>15. len = top - Gone
  BY <1>1, <1>3, <1>4 DEF ListInv
<1> QED BY <1>7, <1>13, <1>14, <1>15

(* The list: every word keeps its type whatever the tasks do; as long as   *)
(* push and removal have not overlapped, no freed node is accessed, and    *)
(* whenever neither is under way the list is whole.                        *)
THEOREM CalmListStaysSound == Spec => []CalmListIsSound
<1>1. ASSUME IInv PROVE CalmListIsSound
  <2>1. TypeOK
    BY <1>1 DEF IInv, TInv
  <2>2. ~overlap => ~wild
    BY <1>1 DEF IInv, CInv
  <2> QED BY <1>1, <2>1, <2>2, QuietIsSound DEF CalmListIsSound
<1>2. IInv => CalmListIsSound
  BY <1>1
<1> QED BY <1>2, Invariance, PTL
=============================================================================
