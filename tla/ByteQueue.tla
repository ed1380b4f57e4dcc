------------------------------ MODULE ByteQueue ------------------------------
(***************************************************************************)
(* What the UART receive path promises to the AT parser task: a bounded    *)
(* FIFO of bytes between an interrupt that may fire at any time and one    *)
(* reader.  A byte that arrives is appended, unless the queue is full or   *)
(* is being (re)set; a byte read is the oldest one; a reset may blank, but *)
(* never reorder or duplicate, the bytes that arrive while it runs.        *)
(* RingBuff implements this with a shared array and no lock.               *)
(***************************************************************************)
EXTENDS Naturals, Sequences

CONSTANTS Byte,      \* the bytes the module sends
          NUL,       \* the byte memset writes
          None,      \* what a read of an empty queue yields
          Capacity   \* how many bytes are kept

VARIABLES queue,     \* the bytes accepted and not yet read, oldest first
          settling,  \* a reset (boot or flush) is in progress
          out,       \* the outcome of the last read: a byte, or None
          parity     \* flips with every byte that arrives, kept or not

queueVars == <<queue, settling, out, parity>>

Init == /\ queue = <<>>
        /\ settling = TRUE
        /\ out = None
        /\ parity = 0

(* A byte arrives: it is kept whenever there is room and no reset runs.    *)
Keep(b) == /\ Len(queue) < Capacity
           /\ queue' = Append(queue, b)
           /\ parity' = 1 - parity
           /\ UNCHANGED <<settling, out>>

(* A byte arrives and is lost.                                             *)
Drop == /\ Len(queue) = Capacity \/ settling
        /\ parity' = 1 - parity
        /\ UNCHANGED <<queue, settling, out>>

Read == /\ ~settling
        /\ queue # <<>>
        /\ out' = Head(queue)
        /\ queue' = Tail(queue)
        /\ UNCHANGED <<settling, parity>>

ReadEmpty == /\ ~settling
             /\ queue = <<>>
             /\ out' = None
             /\ UNCHANGED <<queue, settling, parity>>

StartReset == /\ ~settling
              /\ settling' = TRUE
              /\ queue' = <<>>
              /\ UNCHANGED <<out, parity>>

(* The reset blanks a byte that arrived after the queue was emptied.       *)
Blank == /\ settling
         /\ \E i \in DOMAIN queue : queue' = [queue EXCEPT ![i] = NUL]
         /\ UNCHANGED <<settling, out, parity>>

EndReset == /\ settling
            /\ settling' = FALSE
            /\ UNCHANGED <<queue, out, parity>>

Next == \/ \E b \in Byte : Keep(b)
        \/ Drop
        \/ Read
        \/ ReadEmpty
        \/ StartReset
        \/ Blank
        \/ EndReset

Spec == Init /\ [][Next]_queueVars
=============================================================================
