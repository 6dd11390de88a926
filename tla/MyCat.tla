-------------------------------- MODULE MyCat --------------------------------
(***************************************************************************)
(* lab01/my_cat.c: copies a file to its standard output through a buffer,  *)
(* writing again what a partial write left.  What write returns is an int, *)
(* compared with a size_t, so that -1 counts as the largest number there   *)
(* is: a failed write ends the inner loop like a complete one.             *)
(***************************************************************************)
EXTENDS Integers, Sequences

CONSTANTS
  FileSize,        \* bytes of the file, numbered from 1
  BUFFER_SIZE,
  SizeMod,         \* a size_t counts from 0 to SizeMod - 1
  Rooms            \* how many bytes the output can take (a device may be full)

ASSUME CatAssumption ==
  /\ FileSize \in Nat /\ BUFFER_SIZE \in Nat \ {0} /\ Rooms \subseteq Nat
  /\ SizeMod \in Nat /\ SizeMod > BUFFER_SIZE + 1

VARIABLES
  room,            \* what this output can take
  pc,              \* open, read, write, success, failure
  off,             \* how much of the file has been read
  size_read, size_remaining, size_written,
  out,             \* what the output has taken
  refused          \* ghost: a write has failed

vars == <<room, pc, off, size_read, size_remaining, size_written, out, refused>>
counts == <<size_remaining, size_written>>

Init == /\ room \in Rooms /\ pc = "open" /\ off = 0
        /\ size_read = 0 /\ size_remaining = 0 /\ size_written = 0
        /\ out = <<>> /\ refused = FALSE

Open ==
  /\ pc = "open" /\ pc' \in {"read", "failure"}
  /\ UNCHANGED <<room, off, size_read, counts, out, refused>>

\* The condition of the outer loop.  read gives what it likes of what is left, and 0 only
\* at the end; interrupted, it is called again.
Read ==
  /\ pc = "read" /\ pc' = "write"
  /\ \E n \in 1..BUFFER_SIZE :
       /\ n <= FileSize - off
       /\ off' = off + n /\ size_read' = n
       /\ size_remaining' = n /\ size_written' = 0
  /\ UNCHANGED <<room, out, refused>>
ReadEnd ==
  /\ pc = "read" /\ off = FileSize /\ size_read' = 0 /\ pc' = "success"
  /\ UNCHANGED <<room, off, counts, out, refused>>
ReadFails ==
  /\ pc = "read" /\ size_read' = -1 /\ pc' \in {"read", "failure"}
  /\ UNCHANGED <<room, off, counts, out, refused>>

\* An int that is compared with a size_t.
AsSize(r) == r % SizeMod

\* What follows a write that returned r.  The branch for a negative r is in the code.
\* (The mutants forget where the rest begins, and go on when nothing is left.)
ContinueFromStart(r) ==
  /\ IF AsSize(r) < size_remaining
     THEN size_remaining' = size_remaining - r /\ UNCHANGED <<pc, size_written>>
     ELSE pc' = "read" /\ UNCHANGED counts
  /\ UNCHANGED <<room, off, size_read>>
ContinueAlways(r) ==
  /\ IF AsSize(r) <= size_remaining
     THEN /\ size_written' = size_written + r /\ size_remaining' = size_remaining - r
          /\ UNCHANGED pc
     ELSE pc' = "read" /\ UNCHANGED counts
  /\ UNCHANGED <<room, off, size_read>>
Continue(r) ==
  /\ IF AsSize(r) < size_remaining
     THEN IF r < 0 THEN pc' \in {"write", "failure"} /\ UNCHANGED counts
          ELSE /\ size_written' = size_written + r /\ size_remaining' = size_remaining - r
               /\ UNCHANGED pc
     ELSE pc' = "read" /\ UNCHANGED counts
  /\ UNCHANGED <<room, off, size_read>>

\* The n bytes of buffer that begin at size_written.
Buffered(n) == [i \in 1..n |-> off - size_read + size_written + i]

Full == Len(out) >= room
Write ==
  /\ pc = "write"
  /\ \E r \in 0..BUFFER_SIZE :
       /\ r <= size_remaining /\ Len(out) + r <= room
       /\ out' = out \o Buffered(r)
       /\ Continue(r)
  /\ UNCHANGED refused
WriteFails ==
  /\ pc = "write" /\ Continue(-1)
  /\ refused' = TRUE /\ UNCHANGED out

Next == Open \/ Read \/ ReadEnd \/ ReadFails \/ Write \/ WriteFails

Spec == Init /\ [][Next]_vars
\* The process is run, a read is not interrupted for ever, and an output that has room
\* does not take nothing for ever.
FairSpec == Spec /\ WF_vars(Open) /\ WF_vars(Read \/ ReadEnd) /\ WF_vars(Write)

-----------------------------------------------------------------------------
(* Properties.                                                             *)

\* Types: the counts stay in the buffer, although size_remaining is unsigned, and inside
\* the inner loop what is written and what remains are together what the last read gave;
\* size_read, an int, is also -1 after a failed read.
TypeOK ==
  /\ room \in Rooms /\ pc \in {"open", "read", "write", "success", "failure"}
  /\ off \in 0..FileSize
  /\ size_read \in -1..BUFFER_SIZE /\ size_read <= off
  /\ {size_remaining, size_written} \subseteq 0..BUFFER_SIZE
  /\ pc = "write" => size_written + size_remaining = size_read
  /\ out \in Seq(1..FileSize) /\ refused \in BOOLEAN

\* However reads and writes are cut and fail, no byte is output twice or out of order; and
\* if no write failed, what is output is all that was read before the rest of the buffer
\* (lab01/my_cat.c:40-62), at a successful end the whole file.
InOrder ==
  \A i, j \in DOMAIN out : i < j => out[i] < out[j]
Complete ==
  ~refused => /\ pc # "open" => \A i \in DOMAIN out : out[i] = i
              /\ pc = "write" => Len(out) = off - size_remaining
              /\ pc \in {"read", "success"} => Len(out) = off
              /\ pc = "success" => off = FileSize
OutputRight == InOrder /\ Complete

\* my_cat ends, unless its output is full and so takes nothing for ever: a write that
\* returns 0 is repeated without end (lab01/my_cat.c:45-60).
EndsOrStuck == <>(pc \in {"success", "failure"} \/ (pc = "write" /\ Full))
=============================================================================
