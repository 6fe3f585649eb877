----------------------------- MODULE FifoQueue -----------------------------
(***************************************************************************)
(* What the globalfifo character device promises its users: a bounded     *)
(* FIFO of bytes.  A write appends some bytes, at most up to the capacity; *)
(* a read removes a non-empty prefix; FIFO_CLEAR empties the FIFO.  No     *)
(* byte is reordered, duplicated or invented.                              *)
(***************************************************************************)
EXTENDS Naturals, Sequences, SequencesExt

CONSTANTS Data,      \* the byte values a writer may supply
          Capacity   \* GLOBALFIFO_SIZE

VARIABLE queue

Put == \E s \in BoundedSeq(Data, Capacity - Len(queue)) :
          /\ s # <<>>
          /\ queue' = queue \o s

Take == \E k \in 1..Len(queue) : queue' = SubSeq(queue, k + 1, Len(queue))

Clear == queue' = <<>>

Init == queue = <<>>

Next == Put \/ Take \/ Clear

Spec == Init /\ [][Next]_queue

====
