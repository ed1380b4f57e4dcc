------------------------------- MODULE MsgList -------------------------------
(***************************************************************************)
(* pMsgList: the parser task puts downstream messages at the head of a     *)
(* doubly linked list (IOT_Template_Message_Arrived_CallBack, list_lpush), *)
(* the application task iterates over it from the tail, delivers every     *)
(* message and removes it (_handle_message, list_remove).  Both run        *)
(* without the mutex, which is commented out, and may be preempted at any  *)
(* statement.                                                              *)
(*                                                                         *)
(* Nodes are numbered in the order in which their messages arrive; a node  *)
(* stands for itself, its DownStreamMsg and the data.  A message for which *)
(* there is no memory never gets a node.  NULL is 0.                       *)
(***************************************************************************)
EXTENDS Naturals, Sequences, FiniteSets

CONSTANTS MaxNodes,  \* messages that ever arrive (bounds a run)
          Modulus    \* 2^32 in the code: len is unsigned

ASSUME NodesAssumption == MaxNodes \in Nat /\ Modulus \in Nat /\ Modulus > MaxNodes + 1

NULL == 0
Node == 1 .. MaxNodes
Pointer == Node \cup {NULL}

VARIABLES
  len, head, tail, prev, next, live,   \* the list; the allocated nodes
  (* list_lpush: next statement, the node, the loaded head and len         *)
  ppc, new, h, plen,
  (* _handle_message: next statement, iterator, the node it handles, the   *)
  (* loaded node->prev and len                                             *)
  apc, iter, node, r, alen,
  (* history: messages pushed; delivered, in order; push and removal have  *)
  (* overlapped; a freed node or NULL was accessed                         *)
  pushed, delivered, overlap, wild

list == <<len, head, tail, prev, next, live>>
parser == <<ppc, new, h, plen>>
app == <<apc, iter, node, r, alen>>
vars == <<list, parser, app, pushed, delivered, overlap, wild>>

(* From the first decision taken on shared words to the last word written. *)
Pushing == {"link", "load_head", "back", "set_head", "set_tail", "set_head_first", "clear",
            "load_len", "store_len"}
Removing == {"set_head", "unlink_prev", "next", "unlink_next", "load_prev", "store_tail",
             "free", "load_len", "store_len"}
PushPC == {"idle", "test"} \cup Pushing
AppPC == {"idle", "first", "iterate", "deliver", "prev"} \cup Removing

Init == /\ len = 0
        /\ head = NULL
        /\ tail = NULL
        /\ prev = [n \in Node |-> NULL]
        /\ next = [n \in Node |-> NULL]
        /\ live = {}
        /\ ppc = "idle"
        /\ new = NULL
        /\ h = NULL
        /\ plen = 0
        /\ apc = "idle"
        /\ iter = NULL
        /\ node = NULL
        /\ r = NULL
        /\ alen = 0
        /\ pushed = {}
        /\ delivered = <<>>
        /\ overlap = FALSE
        /\ wild = FALSE
-----------------------------------------------------------------------------
(* The parser task.  After an access to freed memory anything may happen:  *)
(* the model ends.                                                         *)

PushStep(from, to) == /\ ppc = from
                      /\ ~wild
                      /\ ppc' = to
                      /\ overlap' = (overlap \/ (to \in Pushing /\ apc \in Removing))
                      /\ UNCHANGED <<app, delivered>>

(* The message and its node are allocated; list_lpush is called.           *)
Arrive == /\ new < MaxNodes
          /\ PushStep("idle", "test")
          /\ new' = new + 1
          /\ live' = live \cup {new + 1}
          /\ UNCHANGED <<len, head, tail, prev, next, h, plen, pushed, wild>>

TestLen == /\ PushStep("test", IF len # 0 THEN "link" ELSE "set_tail")
           /\ UNCHANGED <<list, new, h, plen, pushed, wild>>

Link == /\ PushStep("link", "load_head")
        /\ next' = [next EXCEPT ![new] = head]
        /\ prev' = [prev EXCEPT ![new] = NULL]
        /\ UNCHANGED <<len, head, tail, live, new, h, plen, pushed, wild>>

LoadHead == /\ PushStep("load_head", "back")
            /\ h' = head
            /\ UNCHANGED <<list, new, plen, pushed, wild>>

LinkBack == /\ PushStep("back", "set_head")
            /\ IF h \in live
               THEN prev' = [prev EXCEPT ![h] = new] /\ UNCHANGED wild
               ELSE wild' = TRUE /\ UNCHANGED prev
            /\ UNCHANGED <<len, head, tail, next, live, new, h, plen, pushed>>

PushHead == /\ PushStep("set_head", "load_len")
            /\ head' = new
            /\ UNCHANGED <<len, tail, prev, next, live, new, h, plen, pushed, wild>>

FirstTail == /\ PushStep("set_tail", "set_head_first")
             /\ tail' = new
             /\ UNCHANGED <<len, head, prev, next, live, new, h, plen, pushed, wild>>

FirstHead == /\ PushStep("set_head_first", "clear")
             /\ head' = new
             /\ UNCHANGED <<len, tail, prev, next, live, new, h, plen, pushed, wild>>

FirstClear == /\ PushStep("clear", "load_len")
              /\ next' = [next EXCEPT ![new] = NULL]
              /\ prev' = [prev EXCEPT ![new] = NULL]
              /\ UNCHANGED <<len, head, tail, live, new, h, plen, pushed, wild>>

PushLoadLen == /\ PushStep("load_len", "store_len")
               /\ plen' = len
               /\ UNCHANGED <<list, new, h, pushed, wild>>

(* Faulty variant: the count is not stored.                                *)
PushStoreLenNot == /\ PushStep("store_len", "idle")
                   /\ pushed' = pushed \cup {new}
                   /\ UNCHANGED <<list, new, h, plen, wild>>

PushStoreLen == /\ PushStep("store_len", "idle")
                /\ len' = (plen + 1) % Modulus
                /\ pushed' = pushed \cup {new}
                /\ UNCHANGED <<head, tail, prev, next, live, new, h, plen, wild>>

Push == \/ Arrive \/ TestLen \/ Link \/ LoadHead \/ LinkBack \/ PushHead
        \/ FirstTail \/ FirstHead \/ FirstClear \/ PushLoadLen \/ PushStoreLen
-----------------------------------------------------------------------------
(* The application task.                                                   *)

AppStep(from, to) == /\ apc = from
                     /\ ~wild
                     /\ apc' = to
                     /\ overlap' = (overlap \/ (ppc \in Pushing /\ to \in Removing))
                     /\ UNCHANGED <<parser, pushed>>

HandleMessage == /\ len # 0
                 /\ AppStep("idle", "first")
                 /\ UNCHANGED <<list, iter, node, r, alen, delivered, wild>>

(* list_iterator_new; faulty variant: it starts at the head.               *)
FirstNodeAtHead == /\ AppStep("first", "iterate")
                   /\ iter' = head
                   /\ UNCHANGED <<list, node, r, alen, delivered, wild>>
FirstNode == /\ AppStep("first", "iterate")
             /\ iter' = tail
             /\ UNCHANGED <<list, node, r, alen, delivered, wild>>

(* No memory for an iterator: _handle_message returns.                     *)
NoIterator == /\ AppStep("first", "idle")
              /\ UNCHANGED <<list, iter, node, r, alen, delivered, wild>>

LastNode == /\ iter = NULL
            /\ AppStep("iterate", "idle")
            /\ UNCHANGED <<list, iter, node, r, alen, delivered, wild>>

(* list_iterator_next: it goes on before the node is handled.              *)
NextNode == /\ iter # NULL
            /\ AppStep("iterate", "deliver")
            /\ node' = iter
            /\ IF iter \in live
               THEN iter' = prev[iter] /\ UNCHANGED wild
               ELSE wild' = TRUE /\ iter' = NULL
            /\ UNCHANGED <<list, r, alen, delivered>>

Deliver == /\ AppStep("deliver", "prev")
           /\ delivered' = Append(delivered, node)
           /\ UNCHANGED <<list, iter, node, r, alen, wild>>

TestPrev == /\ AppStep("prev", IF prev[node] # NULL THEN "unlink_prev" ELSE "set_head")
            /\ UNCHANGED <<list, iter, node, r, alen, delivered, wild>>

UnlinkPrev == /\ AppStep("unlink_prev", "next")
              /\ IF prev[node] \in live
                 THEN next' = [next EXCEPT ![prev[node]] = next[node]] /\ UNCHANGED wild
                 ELSE wild' = TRUE /\ UNCHANGED next
              /\ UNCHANGED <<len, head, tail, prev, live, iter, node, r, alen, delivered>>

RemoveHead == /\ AppStep("set_head", "next")
              /\ head' = next[node]
              /\ UNCHANGED <<len, tail, prev, next, live, iter, node, r, alen, delivered, wild>>

TestNext == /\ AppStep("next", IF next[node] # NULL THEN "unlink_next" ELSE "load_prev")
            /\ UNCHANGED <<list, iter, node, r, alen, delivered, wild>>

UnlinkNext == /\ AppStep("unlink_next", "free")
              /\ IF next[node] \in live
                 THEN prev' = [prev EXCEPT ![next[node]] = prev[node]] /\ UNCHANGED wild
                 ELSE wild' = TRUE /\ UNCHANGED prev
              /\ UNCHANGED <<len, head, tail, next, live, iter, node, r, alen, delivered>>

LoadPrev == /\ AppStep("load_prev", "store_tail")
            /\ r' = prev[node]
            /\ UNCHANGED <<list, iter, node, alen, delivered, wild>>

(* Faulty variant: the tail is not moved.                                  *)
RemoveTailNot == /\ AppStep("store_tail", "free")
                 /\ UNCHANGED <<list, iter, node, r, alen, delivered, wild>>
RemoveTail == /\ AppStep("store_tail", "free")
              /\ tail' = r
              /\ UNCHANGED <<len, head, prev, next, live, iter, node, r, alen, delivered, wild>>

Free == /\ AppStep("free", "load_len")
        /\ live' = live \ {node}
        /\ UNCHANGED <<len, head, tail, prev, next, iter, node, r, alen, delivered, wild>>

RemoveLoadLen == /\ AppStep("load_len", "store_len")
                 /\ alen' = len
                 /\ UNCHANGED <<list, iter, node, r, delivered, wild>>

RemoveStoreLen == /\ AppStep("store_len", "iterate")
                  /\ len' = (alen + Modulus - 1) % Modulus
                  /\ UNCHANGED <<head, tail, prev, next, live, iter, node, r, alen,
                                 delivered, wild>>

Handle == \/ HandleMessage \/ FirstNode \/ NoIterator \/ LastNode \/ NextNode \/ Deliver \/ TestPrev
          \/ UnlinkPrev \/ RemoveHead \/ TestNext \/ UnlinkNext \/ LoadPrev \/ RemoveTail
          \/ Free \/ RemoveLoadLen \/ RemoveStoreLen

Next == Push \/ Handle

(* Both tasks are scheduled, and the heap has room again and again; nothing *)
(* says that messages arrive.                                              *)
Fairness == /\ WF_vars(Handle)
            /\ SF_vars(FirstNode)
            /\ WF_vars(Push /\ ppc # "idle")
Spec == Init /\ [][Next]_vars /\ Fairness
-----------------------------------------------------------------------------
TypeOK ==
    /\ len \in 0 .. Modulus - 1
    /\ {head, tail, new, h, iter, node, r} \subseteq Pointer
    /\ {prev, next} \subseteq [Node -> Pointer]
    /\ live \subseteq Node
    /\ ppc \in PushPC
    /\ apc \in AppPC
    /\ {plen, alen} \subseteq 0 .. Modulus - 1
    /\ pushed \subseteq Node
    /\ delivered \in Seq(Node)
    /\ overlap \in BOOLEAN
    /\ wild \in BOOLEAN

(* The nodes met from a pointer by following next or prev are those of s.  *)
Chain(first, succ, s) ==
    LET node_at(i) == IF i \in DOMAIN s THEN s[i] ELSE NULL
    IN  first = node_at(1) /\ \A i \in DOMAIN s : succ[s[i]] = node_at(i + 1)

Quiet == ppc \in {"idle", "test"} /\ apc \notin Removing
Waiting == {n \in live : n # new \/ ppc = "idle"}
InOrder(set) ==
    [i \in 1 .. Cardinality(set) |->
        CHOOSE n \in set : Cardinality({m \in set : m <= n}) = i]
Reversed(s) == [i \in DOMAIN s |-> s[Len(s) + 1 - i]]

(* As long as push and removal have not overlapped, iterating and          *)
(* delivering may overlap with a push: the messages come out in the order  *)
(* in which they have arrived, none twice and none left out.               *)
CalmFifo == ~overlap => delivered = [i \in 1 .. Len(delivered) |-> i]

(* And no freed memory is accessed; whenever neither is under way, both    *)
(* chains and the length agree with the nodes that are allocated.  Overlap *)
(* or not, every word of the list stays what its type says.                *)
CalmListIsSound ==
    /\ TypeOK
    /\ ~overlap => /\ ~wild
                   /\ Quiet => /\ Chain(tail, prev, InOrder(Waiting))
                               /\ Chain(head, next, Reversed(InOrder(Waiting)))
                               /\ len = Cardinality(Waiting)

(* A message that was pushed is delivered in the end, unless there has     *)
(* been an overlap.                                                        *)
CalmIsDelivered ==
    \A n \in Node : n \in pushed ~> (overlap \/ \E i \in DOMAIN delivered : delivered[i] = n)
=============================================================================
