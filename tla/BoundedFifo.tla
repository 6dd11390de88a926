---------------------------- MODULE BoundedFifo ----------------------------
(***************************************************************************)
(* What the circular buffer between the two interrupt halves of asgn2      *)
(* promises, with no program counters, indices or locks: bytes enter one   *)
(* end, at most Capacity of them are waiting, and they leave in the order  *)
(* they came.  A byte that meets a full buffer is dropped: the promise     *)
(* takes no step then, so a drop is a stuttering step.                     *)
(***************************************************************************)
EXTENDS Naturals, Sequences

CONSTANTS Capacity,  \* how many bytes may wait
          Bytes      \* the bytes the port can deliver

VARIABLES queue,     \* the bytes that wait, oldest first
          out        \* every byte that has left, in order

fifoVars == <<queue, out>>

FifoInit == queue = <<>> /\ out = <<>>

\* The top half stores a byte.
Put(b) == /\ Len(queue) < Capacity
          /\ queue' = Append(queue, b)
          /\ UNCHANGED out

\* The tasklet removes the oldest byte.
Get == /\ queue # <<>>
       /\ out' = Append(out, Head(queue))
       /\ queue' = Tail(queue)

FifoNext == Get \/ \E b \in Bytes : Put(b)

FifoSpec == FifoInit /\ [][FifoNext]_fifoVars
=============================================================================
