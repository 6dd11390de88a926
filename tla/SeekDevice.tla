----------------------------- MODULE SeekDevice -----------------------------
(***************************************************************************)
(* The two drivers of major 700: lab03_seek has one ramdisk for everybody, *)
(* lab04_seek one for each open file.  Otherwise their calls are the same. *)
(* One process runs seek_test.c; the others call as they please, and may   *)
(* share an open file.  The kernel of that time hands read and write a     *)
(* copy of the file's position and stores it when they return, without a   *)
(* lock, and the copying to or from user memory may sleep.                 *)
(***************************************************************************)
EXTENDS Integers, Sequences

CONSTANTS
  Others, Tester,  \* the processes; Tester runs seek_test
  Files,           \* open files
  ramdisk_size,
  Lengths,         \* of the other processes' reads and writes, and of the message
  Offsets,         \* of their lseeks, preads and pwrites, and seek_test's position
  CopyMayFail      \* can another process pass an invalid buffer

None == <<>>                       \* no open file, no call under way, nothing read

Shared == "ramdisk"                \* lab03_seek's ramdisk: not that of a file

ASSUME SeekAssumption ==
  /\ ramdisk_size \in Nat \ {0} /\ Lengths \subseteq Nat \ {0} /\ Offsets \subseteq Int
  /\ CopyMayFail \in BOOLEAN /\ Tester \notin Others /\ {None, Shared} \cap Files = {}

Procs == Others \cup {Tester}
Ramdisks == Files \cup {Shared}
Places == 0..ramdisk_size - 1

VARIABLES
  driver,          \* which of the two is loaded
  position, length,\* seek_test's arguments
  fd,              \* the file a process has open
  f_pos,           \* where each file stands
  data,            \* what each ramdisk contains
  call,            \* the read or write a process is in
  step,            \* how far seek_test has come
  message          \* what it read

vars == <<driver, position, length, fd, f_pos, data, call, step, message>>
arguments == <<driver, position, length>>

\* A byte of seek_test's message is its place in it.  The others are: what calloc cleared,
\* what was in the memory before, what another process wrote.
Zero == 0
Old == -1
Theirs == -2
Unused == [i \in Places |-> Old]

Init == /\ driver \in {"lab03_seek", "lab04_seek"}
        /\ position \in Offsets /\ length \in Lengths
        /\ fd = [p \in Procs |-> None]
        /\ f_pos = [f \in Files |-> 0]
        /\ data = [d \in Ramdisks |-> Unused]
        /\ call = [p \in Procs |-> None]
        /\ step = 0 /\ message = None

Ramdisk(f) == IF driver = "lab03_seek" THEN Shared ELSE f
Idle(p) == fd[p] # None /\ call[p] = None
InUse(f) == \E p \in Procs : fd[p] = f

-----------------------------------------------------------------------------
(* open and release.                                                       *)

OpenedAt(p, f) ==
  /\ fd[p] = None /\ ~InUse(f)
  /\ fd' = [fd EXCEPT ![p] = f] /\ f_pos' = [f_pos EXCEPT ![f] = 0]
  /\ UNCHANGED <<arguments, call, message>>

OpenShared(p, f) ==
  driver = "lab03_seek" /\ OpenedAt(p, f) /\ UNCHANGED data
\* A ramdisk of its own, all zero.  (The mutant does not clear it.)
OpenUncleared(p, f) ==
  driver = "lab04_seek" /\ OpenedAt(p, f) /\ UNCHANGED data
OpenPrivate(p, f) ==
  /\ driver = "lab04_seek" /\ OpenedAt(p, f)
  /\ data' = [data EXCEPT ![f] = [i \in Places |-> Zero]]

\* Called when the last process closes the file: its ramdisk is unused memory again.
Release(p) ==
  /\ Idle(p) /\ fd' = [fd EXCEPT ![p] = None]
  /\ IF \E q \in Procs \ {p} : fd[q] = fd[p] THEN UNCHANGED <<f_pos, data>>
     ELSE /\ f_pos' = [f_pos EXCEPT ![fd[p]] = 0]
          /\ data' = [data EXCEPT ![fd[p]] = Unused]
  /\ UNCHANGED <<arguments, call, message>>

\* fork: the child has the same open file.
Fork(p, q) ==
  /\ Idle(p) /\ fd[q] = None /\ fd' = [fd EXCEPT ![q] = fd[p]]
  /\ UNCHANGED <<arguments, f_pos, data, call, message>>

-----------------------------------------------------------------------------
(* read and write: up to the copying, and from there on.                   *)

\* maxbytes is an int and lbuf a size_t, so that a negative maxbytes counts as the larger.
BytesToDo(pos, lbuf) ==
  LET maxbytes == ramdisk_size - pos
  IN  IF maxbytes < 0 \/ maxbytes > lbuf THEN lbuf ELSE maxbytes

\* (The mutant does not look at the end of the device.)
EnterUnbounded(p, op, pos, lbuf) ==
  /\ Idle(p)
  /\ call' = [call EXCEPT ![p] = [op |-> op, pos |-> pos, todo |-> lbuf]]
  /\ UNCHANGED <<arguments, fd, f_pos, data, message>>
Enter(p, op, pos, lbuf) ==
  /\ Idle(p)
  /\ call' = [call EXCEPT ![p] = [op |-> op, pos |-> pos, todo |-> BytesToDo(pos, lbuf)]]
  /\ UNCHANGED <<arguments, fd, f_pos, data, message>>

\* read and write go by the file's position; pread and pwrite name one, which the kernel
\* only checks not to be negative, and leave the file's alone.
AtFile(p, op, lbuf) == Enter(p, op, f_pos[fd[p]], lbuf)
AtOwn(p, op, pos, lbuf) == pos >= 0 /\ Enter(p, op, pos, lbuf)
Positional == {"pread", "pwrite"}

\* How many bytes the copying manages: fewer than asked for from or to an invalid buffer.
Copied(p) == {n \in 0..call[p].todo : n = call[p].todo \/ (CopyMayFail /\ p # Tester)}

In(p, ops) == call[p] # None /\ call[p].op \in ops
OnDevice(c) == c.pos + c.todo <= ramdisk_size
Leave(p, n) ==
  /\ f_pos' = IF call[p].op \in Positional THEN f_pos
              ELSE [f_pos EXCEPT ![fd[p]] = call[p].pos + n]
  /\ call' = [call EXCEPT ![p] = None]
  /\ UNCHANGED <<arguments, fd>>

ReadLeave(p) ==
  /\ In(p, {"read", "pread"})
  /\ \E n \in Copied(p) :
       /\ Leave(p, n)
       /\ message' = IF p # Tester THEN message
                     ELSE [i \in 1..n |-> data[Ramdisk(fd[p])][call[p].pos + i - 1]]
  /\ UNCHANGED data

\* copy_from_user clears the bytes it could not copy.  Bound: a write that leaves the
\* ramdisk is not followed into the memory behind it.
WriteLeave(p) ==
  /\ In(p, {"write", "pwrite"}) /\ OnDevice(call[p]) /\ \E n \in Copied(p) : Leave(p, n)
  /\ data' = [data EXCEPT ![Ramdisk(fd[p])] =
       [i \in Places |-> IF i \notin call[p].pos..call[p].pos + call[p].todo - 1 THEN @[i]
                         ELSE IF p = Tester THEN i - call[p].pos + 1 ELSE Theirs]]
  /\ UNCHANGED message

-----------------------------------------------------------------------------
(* lseek.                                                                  *)

Whences == {"SEEK_SET", "SEEK_CUR", "SEEK_END"}
\* (The mutant takes every seek for a relative one.)
TargetFrom(f, offset, orig) == f_pos[f] + offset
Target(f, offset, orig) ==
  CASE orig = "SEEK_SET" -> offset
    [] orig = "SEEK_CUR" -> f_pos[f] + offset
    [] orig = "SEEK_END" -> ramdisk_size + offset
InRange(testpos) == testpos > -1 /\ testpos < ramdisk_size

Seek(p, f, pos) ==
  /\ Idle(p) /\ f_pos' = [f_pos EXCEPT ![f] = pos]
  /\ UNCHANGED <<arguments, fd, data, call, message>>
\* A position outside the ramdisk is refused and leaves the file where it stands.
Lseek(p, offset, orig) ==
  LET testpos == Target(fd[p], offset, orig)
  IN  Seek(p, fd[p], IF InRange(testpos) THEN testpos ELSE f_pos[fd[p]])

-----------------------------------------------------------------------------
(* seek_test.c, the same for both drivers: open, seek, write the message   *)
(* twice, seek back, read.                                                 *)

Advance(s) == step = s /\ step' = s + 1
Open(p) == \E f \in Files : OpenShared(p, f) \/ OpenPrivate(p, f)
TestWrites ==
  \/ Advance(0) /\ Open(Tester)
  \/ Advance(1) /\ Lseek(Tester, position, "SEEK_SET")
  \/ (Advance(2) \/ Advance(4)) /\ AtFile(Tester, "write", length)
  \/ (Advance(3) \/ Advance(5)) /\ WriteLeave(Tester)
TestReads ==
  \/ Advance(6) /\ Lseek(Tester, position, "SEEK_SET")
  \/ Advance(7) /\ AtFile(Tester, "read", length)
  \/ Advance(8) /\ ReadLeave(Tester)
  \/ Advance(9) /\ Release(Tester)

Other(p) ==
  /\ \/ Open(p) \/ Release(p) \/ ReadLeave(p) \/ WriteLeave(p)
     \/ \E q \in Others : Fork(p, q)
     \/ \E n \in Lengths : AtFile(p, "read", n) \/ AtFile(p, "write", n)
     \/ \E n \in Lengths, o \in Offsets : AtOwn(p, "pread", o, n) \/ AtOwn(p, "pwrite", o, n)
     \/ \E o \in Offsets, w \in Whences : Lseek(p, o, w)
  /\ UNCHANGED step

Next == TestWrites \/ TestReads \/ \E p \in Others : Other(p)

Spec == Init /\ [][Next]_vars

-----------------------------------------------------------------------------
(* Properties.                                                             *)

Bytes == {Old, Zero, Theirs} \cup 1..ramdisk_size
Calls == [op : {"read", "write"} \cup Positional, pos : Nat, todo : Nat]

\* Types: no position and no count is ever negative (the driver keeps both in signed
\* variables).
TypeOK ==
  /\ driver \in {"lab03_seek", "lab04_seek"} /\ position \in Offsets /\ length \in Lengths
  /\ fd \in [Procs -> Files \cup {None}] /\ f_pos \in [Files -> Nat]
  /\ data \in [Ramdisks -> [Places -> Bytes]]
  /\ call \in [Procs -> Calls \cup {None}]
  /\ step \in 0..10 /\ message \in Seq(Bytes)

\* "Watch out for going off the end of the device" (lab03/seek/seek.c:25): no read or
\* write copies past it, however lseeks and calls that share a file interleave, nor does a
\* pread or pwrite that starts on the device.  One that starts behind its end does
\* (lab03/seek/seek.c:80-81).
WithinDevice ==
  /\ \A f \in Files : f_pos[f] \in 0..ramdisk_size
  /\ \A p \in Procs : call[p] # None =>
       OnDevice(call[p]) \/ (call[p].op \in Positional /\ call[p].pos > ramdisk_size)

\* seek_test reads back, in order, as much of the message it wrote at its position
\* (seek_test.c:55-77) as fits there, if the position is on the device; only what another
\* process wrote to a shared ramdisk may stand in its place.
MessageReadBack ==
  step > 8 /\ InRange(position) =>
    /\ Len(message) = BytesToDo(position, length)
    /\ \A i \in DOMAIN message :
         message[i] = i \/ (driver = "lab03_seek" /\ message[i] = Theirs)

\* A private ramdisk never shows its file what the memory contained before the open
\* (lab04/private_data/seek.c:69-72).
PrivateData ==
  driver = "lab04_seek" =>
    \A f \in Files : InUse(f) => \A i \in Places : data[f][i] # Old
=============================================================================
