------------------------------- MODULE RingBuff -------------------------------
(***************************************************************************)
(* src/module_at/ringbuff.c: the ring buffer g_ring_buff between the UART  *)
(* receive interrupt, which pushes one byte at a time, and the tasks.      *)
(* There is no lock.  The interrupt runs to completion between any two     *)
(* statements of a task, so ring_buff_push_data is one action and the task *)
(* side is one action per statement that touches the shared structure.     *)
(*                                                                         *)
(* During boot one task runs module_power_on, which flushes the ring       *)
(* (still all zero) and then at_client_para_init, which initialises it.    *)
(* From then on the parser task alone pops, one byte per call, and flushes *)
(* when a line is too long.                                                *)
(***************************************************************************)
EXTENDS Naturals, Sequences

CONSTANTS Byte,   \* the bytes the UART can receive, other than NUL
          NUL,    \* the zero byte
          None,   \* not a byte: nothing has been popped
          Size    \* RING_BUFF_LEN

ASSUME SizeAssumption == Size \in Nat /\ Size > 1
ASSUME ByteAssumption == /\ NUL \notin Byte
                         /\ None \notin Byte \cup {NUL}

VARIABLES attached,    \* ring_buff->buffer points to the allocated array
          size,        \* ring_buff->size: 0 until ring_buff_init sets it
          readpoint,
          writepoint,
          buffer,      \* the array
          full,
          pc,          \* the next statement of the task that uses the ring
          booted,      \* ring_buff_init has returned
          zero,        \* how far the memset of a flush or of init has come
          pData,       \* the last pop: the byte it stored, None if it had none
          parity       \* flips with every received byte (history)

ring == <<attached, size, readpoint, writepoint, buffer, full>>
vars == <<ring, pc, booted, zero, pData, parity>>

Slot == 0 .. Size - 1
Next1(i) == IF i = Size - 1 THEN 0 ELSE i + 1

PC == {"power_on", "flush_rp", "flush_wp", "init_buffer", "init_size", "init_rp", "init_wp",
       "memset", "full", "idle", "advance", "read"}

(* g_ring_buff is a zero-initialised global; module_init powers on first.  *)
Init == /\ attached = FALSE
        /\ size = 0
        /\ readpoint = 0
        /\ writepoint = 0
        /\ buffer = [i \in Slot |-> NUL]
        /\ full = FALSE
        /\ pc = "power_on"
        /\ booted = FALSE
        /\ zero = 0
        /\ pData = None
        /\ parity = 0
-----------------------------------------------------------------------------
(* The receive interrupt: ring_buff_push_data(&g_ring_buff, &ch, 1).       *)

Received == /\ parity' = 1 - parity
            /\ UNCHANGED <<attached, size, readpoint, pc, booted, zero, pData>>

(* len > size: RINGBUFF_TOO_SHORT, as long as the ring has no size.        *)
PushTooShort == /\ size = 0
                /\ Received
                /\ UNCHANGED <<writepoint, buffer, full>>

PushFull == /\ size > 0
            /\ (writepoint + 1) % size = readpoint
            /\ full' = TRUE
            /\ Received
            /\ UNCHANGED <<writepoint, buffer>>

(* Faulty variants: a push that does not look for the reader, and one that *)
(* fills the slot at writepoint before it moves on, so that the reader,    *)
(* who advances first, skips it.                                           *)
PushStoreUnchecked(b) ==
    /\ size > 0
    /\ writepoint' = IF writepoint < size - 1 THEN writepoint + 1 ELSE 0
    /\ buffer' = [buffer EXCEPT ![writepoint'] = b]
    /\ Received
    /\ UNCHANGED full
PushStoreBehind(b) ==
    /\ size > 0
    /\ (writepoint + 1) % size # readpoint
    /\ writepoint' = IF writepoint < size - 1 THEN writepoint + 1 ELSE 0
    /\ buffer' = [buffer EXCEPT ![writepoint] = b]
    /\ Received
    /\ UNCHANGED full

PushStore(b) == /\ size > 0
                /\ (writepoint + 1) % size # readpoint
                /\ writepoint' = IF writepoint < size - 1 THEN writepoint + 1 ELSE 0
                /\ buffer' = [buffer EXCEPT ![writepoint'] = b]
                /\ Received
                /\ UNCHANGED full

Push == \/ PushTooShort
        \/ PushFull
        \/ \E b \in Byte : PushStore(b)
-----------------------------------------------------------------------------
(* ring_buff_pop_data(ring, pData, 1), called by the parser task.          *)

PopEmpty == /\ pc = "idle"
            /\ writepoint = readpoint
            /\ pData' = None
            /\ UNCHANGED <<ring, pc, booted, zero, parity>>

(* Faulty variant: an ordered comparison takes a wrapped ring for empty.   *)
PopCheckOrdered == /\ pc = "idle"
                   /\ writepoint > readpoint
                   /\ pc' = "advance"
                   /\ UNCHANGED <<ring, booted, zero, pData, parity>>

PopCheck == /\ pc = "idle"
            /\ writepoint # readpoint
            /\ pc' = "advance"
            /\ UNCHANGED <<ring, booted, zero, pData, parity>>

(* The slot is released before it is read: the push never fills the slot   *)
(* at readpoint.                                                           *)
PopAdvance == /\ pc = "advance"
              /\ readpoint' = Next1(readpoint)
              /\ pc' = "read"
              /\ UNCHANGED <<attached, size, writepoint, buffer, full,
                             booted, zero, pData, parity>>

PopRead == /\ pc = "read"
           /\ pData' = buffer[readpoint]
           /\ pc' = "idle"
           /\ UNCHANGED <<ring, booted, zero, parity>>
-----------------------------------------------------------------------------
(* ring_buff_flush and ring_buff_init, one action per store.               *)

(* module_power_on resets the module, waits and then flushes the ring.     *)
PowerOn == /\ pc = "power_on"
           /\ pc' = "flush_rp"
           /\ UNCHANGED <<ring, booted, zero, pData, parity>>

FlushCall == /\ pc = "idle"
             /\ pc' = "flush_rp"
             /\ UNCHANGED <<ring, booted, zero, pData, parity>>

ClearReadpoint == /\ pc \in {"flush_rp", "init_rp"}
                  /\ readpoint' = 0
                  /\ pc' = IF pc = "flush_rp" THEN "flush_wp" ELSE "init_wp"
                  /\ UNCHANGED <<attached, size, writepoint, buffer, full,
                                 booted, zero, pData, parity>>

ClearWritepoint == /\ pc \in {"flush_wp", "init_wp"}
                   /\ writepoint' = 0
                   /\ pc' = "memset"
                   /\ zero' = 0
                   /\ UNCHANGED <<attached, size, readpoint, buffer, full,
                                  booted, pData, parity>>

(* memset(ring_buff->buffer, 0, ring_buff->size), interruptible.           *)
Memset == /\ pc = "memset"
          /\ IF zero < size
             THEN /\ buffer' = [buffer EXCEPT ![zero] = NUL]
                  /\ zero' = zero + 1
                  /\ pc' = pc
             ELSE /\ pc' = "full"
                  /\ UNCHANGED <<buffer, zero>>
          /\ UNCHANGED <<attached, size, readpoint, writepoint, full,
                         booted, pData, parity>>

(* full = false, and the return: from the flush of module_power_on the     *)
(* boot goes on to ring_buff_init, from there the parser task starts.      *)
ClearFull == /\ pc = "full"
             /\ full' = FALSE
             /\ pc' = IF size = 0 THEN "init_buffer" ELSE "idle"
             /\ booted' = (size # 0)
             /\ UNCHANGED <<attached, size, readpoint, writepoint, buffer,
                            zero, pData, parity>>

(* Faulty variant: the size is published before the array.                 *)
InitBufferLast == /\ pc = "init_buffer"
                  /\ size' = Size
                  /\ pc' = "init_size"
                  /\ UNCHANGED <<attached, readpoint, writepoint, buffer, full,
                                 booted, zero, pData, parity>>

InitBuffer == /\ pc = "init_buffer"
              /\ attached' = TRUE
              /\ pc' = "init_size"
              /\ UNCHANGED <<size, readpoint, writepoint, buffer, full,
                             booted, zero, pData, parity>>

InitSize == /\ pc = "init_size"
            /\ size' = Size
            /\ pc' = "init_rp"
            /\ UNCHANGED <<attached, readpoint, writepoint, buffer, full,
                           booted, zero, pData, parity>>

Task == \/ PowerOn \/ PopEmpty \/ PopCheck \/ PopAdvance \/ PopRead
        \/ ClearReadpoint \/ ClearWritepoint \/ Memset \/ ClearFull
        \/ InitBuffer \/ InitSize

Next == Push \/ Task \/ FlushCall

(* The task that owns the read side is always eventually scheduled (all    *)
(* tasks have one priority and time slices) and polls the ring for ever.   *)
(* Neither the interrupt nor a call of ring_buff_flush need ever happen.   *)
Spec == Init /\ [][Next]_vars /\ WF_vars(Task)
-----------------------------------------------------------------------------
(* The bytes in the ring, oldest first: the slots after readpoint up to    *)
(* writepoint.                                                             *)
Used == IF writepoint >= readpoint THEN writepoint - readpoint
                                   ELSE writepoint + Size - readpoint
Contents == [k \in 1 .. Used |-> buffer[(readpoint + k) % Size]]

(* Between the two stores that reset the pointers the ring counts as empty.*)
Resetting == pc \in {"flush_wp", "init_buffer", "init_size", "init_rp", "init_wp"}

TypeOK == /\ attached \in BOOLEAN
          /\ size \in {0, Size}
          /\ readpoint \in Slot
          /\ writepoint \in Slot
          /\ buffer \in [Slot -> Byte \cup {NUL}]
          /\ full \in BOOLEAN
          /\ pc \in PC
          /\ booted \in BOOLEAN
          /\ zero \in 0 .. Size
          /\ pData \in Byte \cup {NUL, None}
          /\ parity \in {0, 1}

(* The lock-free ring behaves as a bounded FIFO queue: bytes come out in   *)
(* the order received, none twice, and one is lost only when Size - 1 are  *)
(* waiting or while the ring is being reset.  The byte of a pop is decided *)
(* when readpoint advances, one statement before it is copied.             *)
Queue == INSTANCE ByteQueue WITH
           Capacity <- Size - 1,
           queue    <- IF Resetting THEN <<>> ELSE Contents,
           settling <- pc \notin {"idle", "advance", "read"}
                         /\ ~(booted /\ pc = "flush_rp"),
           out      <- IF pc = "read" THEN buffer[readpoint] ELSE pData

ImplementsQueue == Queue!Spec

(* ring_buff_pop_data gives the slot up by advancing readpoint before it   *)
(* copies the byte: no interrupt in between may overwrite that slot.       *)
PoppedSlotIsStable ==
    [][pc = "read" => buffer'[readpoint] = buffer[readpoint]]_vars

(* An interrupt during boot must never store through a ring that has a     *)
(* size but no array: ring_buff_init sets buffer before size.              *)
SizeImpliesArray == size > 0 => attached

(* A received byte does not wait for ever: it is read by the parser task,  *)
(* or discarded by a reset of the ring.                                    *)
BytesAreConsumed == (Contents # <<>>) ~> (Contents = <<>> \/ pc = "read")
=============================================================================
