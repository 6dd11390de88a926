----------------------------- MODULE MyCatProofs -----------------------------
(***************************************************************************)
(* Proof that my_cat's output is right for files, buffers and outputs of   *)
(* any size, however its reads and writes are cut and fail.                *)
(***************************************************************************)
EXTENDS MyCat, SequenceTheorems, TLAPS

\* How much of the file is behind the next byte to write.
Done == IF pc = "write" THEN off - size_remaining ELSE off

Behind == /\ \A i \in DOMAIN out : out[i] <= Done
          /\ pc = "open" => out = <<>> /\ off = 0

IInv == TypeOK /\ OutputRight /\ Behind

-----------------------------------------------------------------------------
(* What the comparison of an int with a size_t does.                       *)

\* A count up to the buffer's size is itself.
LEMMA CountAsSize == ASSUME NEW r \in 0..BUFFER_SIZE PROVE AsSize(r) = r
BY CatAssumption DEF AsSize

\* -1 is more than any count.
LEMMA ErrorAsSize == AsSize(-1) > BUFFER_SIZE
<1>1. \A m \in Nat \ {0} : (-1) % m = m - 1
  OBVIOUS
<1> QED
  BY <1>1, CatAssumption DEF AsSize

-----------------------------------------------------------------------------
(* One lemma for each kind of step.                                        *)

LEMMA InitOK == Init => IInv
<1> SUFFICES ASSUME Init PROVE IInv
  OBVIOUS
<1>1. TypeOK
  <2>1. out \in Seq(1..FileSize)
    BY DEF Init
  <2>2. 0 \in 0..FileSize /\ 0 \in 0..BUFFER_SIZE /\ 0 \in -1..BUFFER_SIZE /\ 0 <= 0
    BY CatAssumption
  <2> QED
    BY <2>1, <2>2 DEF Init, TypeOK
<1>2. out = <<>> /\ off = 0 /\ pc = "open" /\ DOMAIN out = {}
  BY DEF Init
<1>3. OutputRight
  BY <1>2 DEF OutputRight, InOrder, Complete
<1>4. Behind
  BY <1>2 DEF Behind
<1> QED
  BY <1>1, <1>3, <1>4 DEF IInv

\* Steps of the outer loop write nothing.
LEMMA OuterKeeps == ASSUME IInv, Open \/ Read \/ ReadEnd \/ ReadFails PROVE IInv'
<1> USE DEF IInv
<1>1. CASE Open
  BY <1>1 DEF Open, TypeOK, OutputRight, InOrder, Complete, Behind, Done, counts
<1>2. CASE ReadEnd
  BY <1>2, CatAssumption DEF ReadEnd, TypeOK, OutputRight, InOrder, Complete, Behind, Done, counts
<1>3. CASE ReadFails
  BY <1>3, CatAssumption DEF ReadFails, TypeOK, OutputRight, InOrder, Complete, Behind, Done, counts
<1>4. CASE Read
  <2>1. PICK n \in 1..BUFFER_SIZE :
          /\ pc = "read" /\ pc' = "write" /\ n <= FileSize - off
          /\ off' = off + n /\ size_read' = n /\ size_remaining' = n /\ size_written' = 0
          /\ out' = out /\ refused' = refused /\ room' = room
    BY <1>4 DEF Read
  <2>2. off \in 0..FileSize /\ Done' = Done
    BY <2>1, CatAssumption DEF TypeOK, Done
  <2>3. TypeOK'
    BY <2>1, <2>2, CatAssumption DEF TypeOK
  <2>4. OutputRight'
    BY <2>1, <2>2, CatAssumption DEF OutputRight, InOrder, Complete
  <2>5. Behind'
    BY <2>1, <2>2 DEF Behind
  <2> QED
    BY <2>3, <2>4, <2>5
<1> QED
  BY <1>1, <1>2, <1>3, <1>4

\* What the inner loop does after a write that was not refused.
LEMMA AfterWrite ==
  ASSUME IInv, pc = "write", NEW r \in 0..BUFFER_SIZE, r <= size_remaining, Continue(r)
  PROVE  /\ room' = room /\ off' = off /\ size_read' = size_read /\ pc' \in {"read", "write"}
         /\ Done' = Done + r
         /\ {size_remaining', size_written'} \subseteq 0..BUFFER_SIZE
         /\ size_written' + size_remaining' = size_read
<1>1. AsSize(r) = r
  BY CountAsSize
<1>2. /\ room' = room /\ off' = off /\ size_read' = size_read
      /\ \/ /\ r < size_remaining /\ ~(r < 0) /\ pc' = pc
            /\ size_written' = size_written + r /\ size_remaining' = size_remaining - r
         \/ /\ ~(r < size_remaining) /\ pc' = "read"
            /\ size_written' = size_written /\ size_remaining' = size_remaining
  BY <1>1, CatAssumption DEF Continue, counts
<1>3. /\ off \in Int /\ size_remaining \in 0..BUFFER_SIZE /\ size_written \in 0..BUFFER_SIZE
      /\ size_written + size_remaining = size_read /\ size_read \in 0..BUFFER_SIZE
  BY CatAssumption DEF IInv, TypeOK
<1>4. CASE r < size_remaining
  BY <1>2, <1>3, <1>4, CatAssumption DEF Done
<1>5. CASE ~(r < size_remaining)
  BY <1>2, <1>3, <1>5, CatAssumption DEF Done
<1> QED
  BY <1>4, <1>5

\* A refused write ends the inner loop.
LEMMA AfterRefusal ==
  ASSUME IInv, Continue(-1)
  PROVE  pc' = "read" /\ UNCHANGED <<room, off, size_read, size_remaining, size_written>>
<1>1. size_remaining \in 0..BUFFER_SIZE /\ AsSize(-1) > BUFFER_SIZE
  BY ErrorAsSize DEF IInv, TypeOK
<1>2. AsSize(-1) \in Int
  BY CatAssumption DEF AsSize
<1>3. ~(AsSize(-1) < size_remaining)
  BY <1>1, <1>2, CatAssumption
<1> QED
  BY <1>3 DEF Continue, counts

\* What a write of r bytes adds to the output.
LEMMA Added ==
  ASSUME IInv, pc = "write", NEW r \in 0..BUFFER_SIZE, r <= size_remaining,
         out' = out \o Buffered(r)
  PROVE  /\ out' \in Seq(1..FileSize) /\ Len(out') = Len(out) + r
         /\ \A i \in DOMAIN out' :
              \/ i \in DOMAIN out /\ out'[i] = out[i]
              \/ i > Len(out) /\ i - Len(out) \in 1..r /\ out'[i] = Done + (i - Len(out))
<1>1. /\ out \in Seq(1..FileSize) /\ off \in 0..FileSize
      /\ size_read \in 0..BUFFER_SIZE /\ size_written \in 0..BUFFER_SIZE
      /\ size_remaining \in 0..BUFFER_SIZE
      /\ size_written + size_remaining = size_read /\ size_read <= off
  BY DEF IInv, TypeOK
<1>2. Done = off - size_remaining /\ Done \in Int
  BY <1>1, CatAssumption DEF Done
<1>3. \A i \in 1..r : /\ off - size_read + size_written + i = Done + i
                      /\ Done + i \in 1..FileSize
  BY <1>1, <1>2, CatAssumption
<1>4. Buffered(r) = [i \in 1..r |-> Done + i]
  BY <1>3 DEF Buffered
<1>5. [i \in 1..r |-> Done + i] \in Seq(1..FileSize) /\ Len([i \in 1..r |-> Done + i]) = r
  BY <1>3, CatAssumption
<1> DEFINE b == [i \in 1..r |-> Done + i]
<1>6. out' = out \o b
  BY <1>4
<1>7. \A k \in 1..r : b[k] = Done + k
  OBVIOUS
<1>8. b \in Seq(1..FileSize) /\ Len(b) = r
  BY <1>5
<1> HIDE DEF b
<1>9. out' \in Seq(1..FileSize) /\ Len(out') = Len(out) + r
  BY <1>1, <1>6, <1>8, ConcatProperties
<1>10. ASSUME NEW i \in DOMAIN out'
       PROVE  \/ i \in DOMAIN out /\ out'[i] = out[i]
              \/ i > Len(out) /\ i - Len(out) \in 1..r /\ out'[i] = Done + (i - Len(out))
  <2>1. i \in 1..Len(out) + r /\ Len(out) \in Nat
    BY <1>1, <1>9
  <2>2. CASE i <= Len(out)
    BY <1>1, <1>6, <1>8, <2>1, <2>2
  <2>3. CASE i > Len(out)
    <3>1. i - Len(out) \in 1..r
      BY <2>1, <2>3, CatAssumption
    <3>2. out'[i] = b[i - Len(out)]
      BY <1>1, <1>6, <1>8, <2>1, <2>3
    <3> QED
      BY <2>3, <3>1, <3>2, <1>7
  <2> QED
    BY <2>1, <2>2, <2>3
<1> QED
  BY <1>9, <1>10

LEMMA WriteKeeps == ASSUME IInv, Write PROVE IInv'
<1> USE DEF IInv
<1>1. PICK r \in 0..BUFFER_SIZE :
        r <= size_remaining /\ out' = out \o Buffered(r) /\ Continue(r)
  BY DEF Write
<1>2. pc = "write" /\ refused' = refused
  BY DEF Write
<1>3. /\ room' = room /\ off' = off /\ size_read' = size_read /\ pc' \in {"read", "write"}
      /\ Done' = Done + r
      /\ {size_remaining', size_written'} \subseteq 0..BUFFER_SIZE
      /\ size_written' + size_remaining' = size_read
  BY <1>1, <1>2, AfterWrite
<1>4. /\ out' \in Seq(1..FileSize) /\ Len(out') = Len(out) + r
      /\ \A i \in DOMAIN out' :
           \/ i \in DOMAIN out /\ out'[i] = out[i]
           \/ i > Len(out) /\ i - Len(out) \in 1..r /\ out'[i] = Done + (i - Len(out))
  BY <1>1, <1>2, Added
<1>5. /\ \A i \in DOMAIN out : out[i] <= Done /\ out[i] \in Int
      /\ Done \in Int /\ Len(out) \in Nat /\ r \in Nat
      /\ DOMAIN out = 1..Len(out) /\ DOMAIN out' = 1..Len(out')
  BY <1>4, CatAssumption, SMTT(30) DEF Behind, TypeOK, Done
<1>6. TypeOK'
  BY <1>2, <1>3, <1>4 DEF TypeOK
<1>7. Behind'
  BY <1>3, <1>4, <1>5 DEF Behind
<1>8. InOrder'
  <2> SUFFICES ASSUME NEW i \in DOMAIN out', NEW j \in DOMAIN out', i < j
               PROVE  out'[i] < out'[j]
    BY DEF InOrder
  <2>0. i \in Int /\ j \in Int
    BY <1>5
  <2>1. CASE j \in DOMAIN out
    <3>1. i \in DOMAIN out /\ out'[i] = out[i] /\ out'[j] = out[j]
      BY <1>4, <1>5, <2>0, <2>1
    <3> QED
      BY <2>1, <3>1 DEF OutputRight, InOrder
  <2>2. CASE j \notin DOMAIN out
    <3>1. out'[j] = Done + (j - Len(out)) /\ j > Len(out)
      BY <1>4, <2>2
    <3>2. out'[i] <= Done \/ out'[i] = Done + (i - Len(out))
      BY <1>4, <1>5
    <3> QED
      BY <1>4, <1>5, <2>0, <3>1, <3>2
  <2> QED
    BY <2>1, <2>2
<1>9. Complete'
  <2> SUFFICES ASSUME ~refused PROVE Complete'
    BY <1>2 DEF Complete
  <2>1. Len(out) = Done /\ \A i \in DOMAIN out : out[i] = i
    BY <1>2 DEF OutputRight, Complete, Done
  <2>2. \A i \in DOMAIN out' : out'[i] = i
    BY <1>4, <1>5, <2>1
  <2>3. Len(out') = Done'
    BY <1>3, <1>4, <2>1
  <2> QED
    BY <1>3, <2>2, <2>3 DEF Complete, Done
<1> QED
  BY <1>6, <1>7, <1>8, <1>9 DEF OutputRight

LEMMA WriteFailsKeeps == ASSUME IInv, WriteFails PROVE IInv'
<1> USE DEF IInv
<1>1. /\ pc = "write" /\ pc' = "read" /\ refused' = TRUE /\ out' = out
      /\ UNCHANGED <<room, off, size_read, size_remaining, size_written>>
  BY AfterRefusal DEF WriteFails
<1>2. TypeOK'
  BY <1>1 DEF TypeOK
<1>3. OutputRight'
  BY <1>1 DEF OutputRight, InOrder, Complete
<1>4. Behind'
  <2>1. Done \in Int /\ Done' \in Int /\ Done <= Done'
    BY <1>1, CatAssumption DEF TypeOK, Done
  <2>2. \A i \in DOMAIN out : out[i] \in Int
    BY CatAssumption DEF TypeOK
  <2> QED
    BY <1>1, <2>1, <2>2 DEF Behind
<1> QED
  BY <1>2, <1>3, <1>4

-----------------------------------------------------------------------------
(* The theorems.                                                           *)

LEMMA StepOK == IInv /\ [Next]_vars => IInv'
<1> SUFFICES ASSUME IInv, [Next]_vars PROVE IInv'
  OBVIOUS
<1>1. CASE Next
  BY <1>1, OuterKeeps, WriteKeeps, WriteFailsKeeps DEF Next
<1>2. CASE UNCHANGED vars
  BY <1>2 DEF vars, IInv, TypeOK, OutputRight, InOrder, Complete, Behind, Done
<1> QED
  BY <1>1, <1>2

LEMMA Invariance == Spec => []IInv
BY InitOK, StepOK, PTL DEF Spec

\* The counts of the inner loop stay in the buffer (lab01/my_cat.c:42-60), for every size
\* of file, buffer, output and size_t.
THEOREM CountsInBuffer == Spec => []TypeOK
<1>1. IInv => TypeOK
  BY DEF IInv
<1> QED
  BY <1>1, Invariance, PTL

\* No byte is output twice or out of order, and unless a write failed none is left out
\* (lab01/my_cat.c:40-62).
THEOREM Copies == Spec => []OutputRight
<1>1. IInv => OutputRight
  BY DEF IInv
<1> QED
  BY <1>1, Invariance, PTL
=============================================================================
