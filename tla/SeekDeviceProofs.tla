-------------------------- MODULE SeekDeviceProofs --------------------------
(***************************************************************************)
(* Proofs about SeekDevice for every size of the ramdisk and any number of *)
(* processes and open files: no call leaves the device but a pread or      *)
(* pwrite that starts behind it, a private ramdisk shows nothing from      *)
(* before its open, and seek_test reads back what it wrote.                *)
(***************************************************************************)
EXTENDS SeekDevice, TLAPS

\* A process in a call has a file open, and seek_test calls neither pread nor pwrite.
CallsHaveFile ==
  /\ \A p \in Procs : call[p] # None => fd[p] # None
  /\ call[Tester] # None => call[Tester].op \notin Positional

IInv == TypeOK /\ WithinDevice /\ CallsHaveFile /\ PrivateData

-----------------------------------------------------------------------------
(* Facts about single operators.                                           *)

\* What a call that starts on the device asks the copying for never passes its end.
LEMMA TodoFits ==
  ASSUME NEW pos \in 0..ramdisk_size, NEW lbuf \in Nat \ {0}
  PROVE  BytesToDo(pos, lbuf) \in 0..ramdisk_size - pos
BY SeekAssumption DEF BytesToDo

LEMMA TodoNat ==
  ASSUME NEW pos \in Nat, NEW lbuf \in Nat \ {0}
  PROVE  BytesToDo(pos, lbuf) \in Nat
BY SeekAssumption DEF BytesToDo

\* What a copy manages is at most what was asked for.
LEMMA CopiedFits ==
  ASSUME NEW p \in Procs, call[p] \in Calls, NEW n \in Copied(p)
  PROVE  n \in 0..call[p].todo
BY DEF Copied

\* An lseek leaves every file on the device.
LEMMA LseekStays ==
  ASSUME NEW testpos \in Int, InRange(testpos)
  PROVE  testpos \in 0..ramdisk_size
BY SeekAssumption DEF InRange

\* Where an lseek wants to go is a number.
LEMMA TargetInt ==
  ASSUME IInv, NEW f \in Files, NEW offset \in Int, NEW orig \in Whences
  PROVE  Target(f, offset, orig) \in Int
<1>1. f_pos[f] \in Int
  BY DEF IInv, TypeOK
<1> QED
  BY <1>1, SeekAssumption DEF Target, Whences

-----------------------------------------------------------------------------
(* One lemma for each operation.                                           *)

\* The variables of seek_test are not looked at by the driver.
DriverOK ==
  /\ fd \in [Procs -> Files \cup {None}] /\ f_pos \in [Files -> Nat]
  /\ data \in [Ramdisks -> [Places -> Bytes]]
  /\ call \in [Procs -> Calls \cup {None}]
  /\ message \in Seq(Bytes)
  /\ WithinDevice /\ CallsHaveFile /\ PrivateData

LEMMA OpenKeeps ==
  ASSUME IInv, NEW p \in Procs, Open(p)
  PROVE  DriverOK'
<1> USE DEF IInv, TypeOK, DriverOK
<1>1. PICK f \in Files :
        /\ fd[p] = None /\ ~InUse(f)
        /\ fd' = [fd EXCEPT ![p] = f] /\ f_pos' = [f_pos EXCEPT ![f] = 0]
        /\ driver' = driver /\ call' = call /\ message' = message
        /\ \/ driver = "lab03_seek" /\ data' = data
           \/ driver = "lab04_seek" /\ data' = [data EXCEPT ![f] = [i \in Places |-> Zero]]
  BY DEF Open, OpenShared, OpenPrivate, OpenedAt, arguments
<1>2. fd' \in [Procs -> Files \cup {None}] /\ f_pos' \in [Files -> Nat]
  BY <1>1
<1>3. data' \in [Ramdisks -> [Places -> Bytes]]
  <2>1. [i \in Places |-> Zero] \in [Places -> Bytes]
    BY DEF Bytes
  <2> QED
    BY <1>1, <2>1
<1>4. WithinDevice'
  BY <1>1, SeekAssumption DEF WithinDevice
<1>5. CallsHaveFile'
  BY <1>1 DEF CallsHaveFile
<1>6. PrivateData'
  <2> SUFFICES ASSUME driver' = "lab04_seek", NEW g \in Files, InUse(g)', NEW i \in Places
               PROVE  data'[g][i] # Old
    BY DEF PrivateData
  <2>1. data' = [data EXCEPT ![f] = [j \in Places |-> Zero]]
    BY <1>1
  <2>2. CASE g = f
    BY <2>1, <2>2 DEF Ramdisks, Zero, Old
  <2>3. CASE g # f
    <3>1. InUse(g)
      BY <1>1, <2>3 DEF InUse
    <3> QED
      BY <2>1, <2>3, <3>1, <1>1 DEF PrivateData
  <2> QED
    BY <2>2, <2>3
<1> QED
  BY <1>1, <1>2, <1>3, <1>4, <1>5, <1>6

LEMMA ReleaseKeeps ==
  ASSUME IInv, NEW p \in Procs, Release(p)
  PROVE  DriverOK'
<1> USE DEF IInv, TypeOK, DriverOK
<1>1. /\ fd[p] \in Files /\ call[p] = None
      /\ fd' = [fd EXCEPT ![p] = None]
      /\ driver' = driver /\ call' = call /\ message' = message
  BY DEF Release, Idle, arguments
<1>2. \/ f_pos' = f_pos /\ data' = data
      \/ /\ f_pos' = [f_pos EXCEPT ![fd[p]] = 0]
         /\ data' = [data EXCEPT ![fd[p]] = Unused]
         /\ \A q \in Procs \ {p} : fd[q] # fd[p]
  BY DEF Release
<1>3. fd' \in [Procs -> Files \cup {None}] /\ f_pos' \in [Files -> Nat]
  BY <1>1, <1>2
<1>4. data' \in [Ramdisks -> [Places -> Bytes]]
  <2>1. Unused \in [Places -> Bytes]
    BY DEF Bytes, Unused
  <2> QED
    BY <1>2, <2>1
<1>5. WithinDevice'
  BY <1>1, <1>2, SeekAssumption DEF WithinDevice
<1>6. CallsHaveFile'
  BY <1>1 DEF CallsHaveFile
<1>7. PrivateData'
  <2> SUFFICES ASSUME driver' = "lab04_seek", NEW g \in Files, InUse(g)', NEW i \in Places
               PROVE  data'[g][i] # Old
    BY DEF PrivateData
  <2>1. PICK q \in Procs : fd'[q] = g
    BY DEF InUse
  <2>2. CASE q = p
    <3>1. g = None
      BY <1>1, <2>1, <2>2
    <3> QED
      BY <3>1, SeekAssumption
  <2>3. CASE q # p
    <3>1. fd[q] = g /\ InUse(g)
      BY <1>1, <2>1, <2>3 DEF InUse
    <3>2. data' = data \/ (data' = [data EXCEPT ![fd[p]] = Unused] /\ fd[p] # g)
      BY <1>2, <2>3, <3>1
    <3>3. data'[g] = data[g]
      BY <3>2 DEF Ramdisks
    <3> QED
      BY <1>1, <3>1, <3>3 DEF PrivateData
  <2> QED
    BY <2>2, <2>3
<1> QED
  BY <1>1, <1>3, <1>4, <1>5, <1>6, <1>7

LEMMA ForkKeeps ==
  ASSUME IInv, NEW p \in Procs, NEW q \in Procs, Fork(p, q)
  PROVE  DriverOK'
<1> USE DEF IInv, TypeOK, DriverOK
<1>1. /\ fd[p] \in Files /\ fd[q] = None /\ fd[p] # None
      /\ fd' = [fd EXCEPT ![q] = fd[p]]
      /\ driver' = driver /\ f_pos' = f_pos /\ data' = data
      /\ call' = call /\ message' = message
  BY DEF Fork, Idle, arguments
<1>2. fd' \in [Procs -> Files \cup {None}]
  BY <1>1
<1>3. WithinDevice'
  BY <1>1 DEF WithinDevice
<1>4. CallsHaveFile'
  BY <1>1 DEF CallsHaveFile
<1>5. PrivateData'
  BY <1>1 DEF PrivateData, InUse
<1> QED
  BY <1>1, <1>2, <1>3, <1>4, <1>5

LEMMA EnterKeeps ==
  ASSUME IInv, NEW p \in Procs, NEW op \in {"read", "write"} \cup Positional,
         NEW pos \in Nat, pos \in 0..ramdisk_size \/ op \in Positional,
         p = Tester => op \notin Positional, NEW lbuf \in Lengths, Enter(p, op, pos, lbuf)
  PROVE  DriverOK'
<1> USE DEF IInv, TypeOK, DriverOK
<1>1. /\ fd[p] \in Files /\ fd[p] # None
      /\ driver' = driver /\ fd' = fd /\ f_pos' = f_pos
      /\ data' = data /\ message' = message
  BY DEF Enter, Idle, arguments
<1> DEFINE todo == BytesToDo(pos, lbuf)
           c == [op |-> op, pos |-> pos, todo |-> todo]
<1>2. todo \in Nat /\ (pos \in 0..ramdisk_size => todo \in 0..ramdisk_size - pos)
  BY TodoFits, TodoNat, SeekAssumption
<1>3. call' = [call EXCEPT ![p] = c]
  BY DEF Enter
<1> HIDE DEF todo
<1>4. c \in Calls /\ c.op = op /\ c.pos = pos /\ c.todo = todo
  BY <1>2 DEF Calls
<1>5. OnDevice(c) \/ (c.op \in Positional /\ c.pos > ramdisk_size)
  <2>1. CASE pos \in 0..ramdisk_size
    BY <1>2, <1>4, <2>1, SeekAssumption DEF OnDevice
  <2>2. CASE pos \notin 0..ramdisk_size
    BY <1>4, <2>2, SeekAssumption
  <2> QED
    BY <2>1, <2>2
<1> HIDE DEF c
<1>6. call' \in [Procs -> Calls \cup {None}]
  BY <1>3, <1>4
<1>7. WithinDevice'
  BY <1>1, <1>3, <1>5 DEF WithinDevice, OnDevice
<1>8. CallsHaveFile'
  BY <1>1, <1>3, <1>4 DEF CallsHaveFile
<1>9. PrivateData'
  BY <1>1 DEF PrivateData, InUse
<1> QED
  BY <1>1, <1>6, <1>7, <1>8, <1>9

\* What every return from a read or write does.
LEMMA LeaveKeeps ==
  ASSUME IInv, NEW p \in Procs, call[p] # None, NEW n \in Copied(p), Leave(p, n)
  PROVE  /\ driver' = driver /\ fd' = fd /\ f_pos' \in [Files -> Nat]
         /\ call' \in [Procs -> Calls \cup {None}]
         /\ WithinDevice' /\ CallsHaveFile'
         /\ call[p] \in Calls /\ fd[p] \in Files /\ n \in 0..call[p].todo
<1> USE DEF IInv, TypeOK
<1>1. /\ driver' = driver /\ fd' = fd
      /\ call' = [call EXCEPT ![p] = None]
  BY DEF Leave, arguments
<1>2. call[p] \in Calls /\ fd[p] \in Files
  BY DEF CallsHaveFile
<1>3. n \in 0..call[p].todo /\ call[p].pos \in Nat /\ call[p].todo \in Nat
  BY <1>2, CopiedFits DEF Calls
<1>4. f_pos' \in [Files -> Nat] /\ \A f \in Files : f_pos'[f] \in 0..ramdisk_size
  <2>1. \A f \in Files : f_pos[f] \in 0..ramdisk_size
    BY DEF WithinDevice
  <2>2. CASE call[p].op \in Positional
    BY <2>1, <2>2 DEF Leave
  <2>3. CASE call[p].op \notin Positional
    <3> DEFINE pos == call[p].pos + n
    <3>1. f_pos' = [f_pos EXCEPT ![fd[p]] = pos]
      BY <2>3 DEF Leave
    <3>2. call[p].pos + call[p].todo <= ramdisk_size
      BY <2>3 DEF WithinDevice, OnDevice
    <3>3. pos \in 0..ramdisk_size /\ pos \in Nat
      BY <1>3, <3>2, SeekAssumption
    <3> HIDE DEF pos
    <3> QED
      BY <1>2, <2>1, <3>1, <3>3
  <2> QED
    BY <2>2, <2>3
<1>5. call' \in [Procs -> Calls \cup {None}]
  BY <1>1
<1>6. WithinDevice'
  BY <1>1, <1>4 DEF WithinDevice, OnDevice
<1>7. CallsHaveFile'
  BY <1>1 DEF CallsHaveFile
<1> QED
  BY <1>1, <1>2, <1>3, <1>4, <1>5, <1>6, <1>7

LEMMA ReadLeaveKeeps ==
  ASSUME IInv, NEW p \in Procs, ReadLeave(p)
  PROVE  DriverOK'
<1> USE DEF IInv, TypeOK, DriverOK
<1>1. PICK n \in Copied(p) :
        /\ Leave(p, n)
        /\ message' = IF p # Tester THEN message
                      ELSE [i \in 1..n |-> data[Ramdisk(fd[p])][call[p].pos + i - 1]]
  BY DEF ReadLeave
<1>2. call[p] # None /\ data' = data
  BY DEF ReadLeave, In
<1>3. /\ driver' = driver /\ fd' = fd /\ f_pos' \in [Files -> Nat]
      /\ call' \in [Procs -> Calls \cup {None}]
      /\ WithinDevice' /\ CallsHaveFile'
      /\ call[p] \in Calls /\ fd[p] \in Files /\ n \in 0..call[p].todo
  BY <1>1, <1>2, LeaveKeeps
<1>4. ASSUME p = Tester PROVE message' \in Seq(Bytes)
  <2>0. /\ call[p].pos \in Nat /\ call[p].todo \in Nat /\ n \in 0..call[p].todo
        /\ call[p].pos + call[p].todo <= ramdisk_size
    BY <1>2, <1>3, <1>4 DEF CallsHaveFile, WithinDevice, OnDevice, Calls
  <2>1. data[Ramdisk(fd[p])] \in [Places -> Bytes]
    BY <1>3 DEF Ramdisk, Ramdisks
  <2>2. \A i \in 1..n : call[p].pos + i - 1 \in Places
    BY <2>0, SeekAssumption, SMTT(30) DEF Places
  <2>3. [i \in 1..n |-> data[Ramdisk(fd[p])][call[p].pos + i - 1]] \in [1..n -> Bytes]
    BY <2>1, <2>2
  <2>4. n \in Nat
    BY <2>0
  <2>5. [i \in 1..n |-> data[Ramdisk(fd[p])][call[p].pos + i - 1]] \in Seq(Bytes)
    BY <2>3, <2>4
  <2> QED
    BY <1>1, <1>4, <2>5
<1>5. PrivateData'
  BY <1>2, <1>3 DEF PrivateData, InUse
<1>6. p # Tester => message' = message
  BY <1>1
<1> QED
  BY <1>2, <1>3, <1>4, <1>5, <1>6

LEMMA WriteLeaveKeeps ==
  ASSUME IInv, NEW p \in Procs, WriteLeave(p)
  PROVE  DriverOK'
<1> USE DEF IInv, TypeOK, DriverOK
<1>1. PICK n \in Copied(p) : Leave(p, n)
  BY DEF WriteLeave
<1> DEFINE r == Ramdisk(fd[p])
           written == [i \in Places |->
             IF i \notin call[p].pos..call[p].pos + call[p].todo - 1 THEN data[r][i]
             ELSE IF p = Tester THEN i - call[p].pos + 1 ELSE Theirs]
<1>2. call[p] # None /\ OnDevice(call[p]) /\ message' = message
  BY DEF WriteLeave, In
<1>3. /\ driver' = driver /\ fd' = fd /\ f_pos' \in [Files -> Nat]
      /\ call' \in [Procs -> Calls \cup {None}]
      /\ WithinDevice' /\ CallsHaveFile'
      /\ call[p] \in Calls /\ fd[p] \in Files
  BY <1>1, <1>2, LeaveKeeps
<1>p. /\ call[p].pos \in Nat /\ call[p].todo \in Nat
      /\ call[p].pos + call[p].todo <= ramdisk_size
  BY <1>2, <1>3 DEF OnDevice, Calls
<1>4. r \in Ramdisks
  BY <1>3 DEF Ramdisk, Ramdisks
<1>5. data' = [data EXCEPT ![r] = written]
  BY <1>4 DEF WriteLeave
<1>6. \A i \in Places : /\ written[i] \in Bytes
                        /\ written[i] = data[r][i] \/ written[i] # Old
  <2> SUFFICES ASSUME NEW i \in Places
               PROVE  written[i] \in Bytes /\ (written[i] = data[r][i] \/ written[i] # Old)
    OBVIOUS
  <2>1. CASE i \notin call[p].pos..call[p].pos + call[p].todo - 1
    BY <2>1, <1>4
  <2>2. CASE i \in call[p].pos..call[p].pos + call[p].todo - 1
    <3>1. i - call[p].pos + 1 \in 1..ramdisk_size
      BY <1>p, <2>2, SeekAssumption, SMTT(30)
    <3>2. Theirs # Old /\ Theirs \in Bytes
      BY DEF Theirs, Old, Bytes
    <3>3. written[i] = IF p = Tester THEN i - call[p].pos + 1 ELSE Theirs
      BY <2>2
    <3> QED
      BY <3>1, <3>2, <3>3 DEF Bytes, Old
  <2> QED
    BY <2>1, <2>2
<1>7. written = [i \in Places |-> written[i]]
  OBVIOUS
<1> HIDE DEF written
<1>8. written \in [Places -> Bytes]
  BY <1>6, <1>7
<1>9. data' \in [Ramdisks -> [Places -> Bytes]]
  BY <1>4, <1>5, <1>8
<1>10. PrivateData'
  <2> SUFFICES ASSUME driver = "lab04_seek", NEW g \in Files, InUse(g), NEW i \in Places
               PROVE  data'[g][i] # Old
    BY <1>3 DEF PrivateData, InUse
  <2>1. data[g][i] # Old
    BY DEF PrivateData
  <2>2. CASE g = r
    BY <1>4, <1>5, <1>6, <2>1, <2>2
  <2>3. CASE g # r
    BY <1>5, <2>1, <2>3 DEF Ramdisks
  <2> QED
    BY <2>2, <2>3
<1> QED
  BY <1>2, <1>3, <1>9, <1>10

LEMMA LseekKeeps ==
  ASSUME IInv, NEW p \in Procs, NEW offset \in Offsets, NEW orig \in Whences,
         Lseek(p, offset, orig)
  PROVE  DriverOK'
<1> USE DEF IInv, TypeOK, DriverOK
<1>1. /\ fd[p] \in Files
      /\ driver' = driver /\ fd' = fd /\ data' = data
      /\ call' = call /\ message' = message
  BY DEF Lseek, Seek, Idle, arguments
<1> DEFINE testpos == Target(fd[p], offset, orig)
           pos == IF InRange(testpos) THEN testpos ELSE f_pos[fd[p]]
<1>2. f_pos' = [f_pos EXCEPT ![fd[p]] = pos]
  BY DEF Lseek, Seek
<1>3. pos \in 0..ramdisk_size
  <2>1. testpos \in Int
    BY <1>1, TargetInt, SeekAssumption
  <2> HIDE DEF testpos
  <2>2. f_pos[fd[p]] \in 0..ramdisk_size
    BY <1>1 DEF WithinDevice
  <2> QED
    BY <2>1, <2>2, LseekStays
<1> HIDE DEF pos
<1>4. f_pos' \in [Files -> Nat]
  <2>1. pos \in Nat
    BY <1>3, SeekAssumption
  <2> QED
    BY <1>2, <2>1
<1>5. WithinDevice'
  BY <1>1, <1>2, <1>3 DEF WithinDevice
<1>6. CallsHaveFile'
  BY <1>1 DEF CallsHaveFile
<1>7. PrivateData'
  BY <1>1 DEF PrivateData, InUse
<1> QED
  BY <1>1, <1>4, <1>5, <1>6, <1>7

-----------------------------------------------------------------------------
(* The invariant.                                                          *)

LEMMA InitOK == Init => IInv
<1> SUFFICES ASSUME Init PROVE IInv
  OBVIOUS
<1> USE DEF Init
<1>1. TypeOK
  BY SeekAssumption DEF TypeOK, Unused, Bytes, None
<1>2. WithinDevice
  BY SeekAssumption DEF WithinDevice
<1>3. CallsHaveFile
  BY DEF CallsHaveFile, Procs
<1>4. PrivateData
  BY SeekAssumption DEF PrivateData, InUse
<1> QED
  BY <1>1, <1>2, <1>3, <1>4 DEF IInv

LEMMA TestKeeps == ASSUME IInv, TestWrites \/ TestReads PROVE DriverOK' /\ step' \in 0..10
<1> USE DEF IInv, TypeOK
<1>0. Tester \in Procs
  BY DEF Procs
<1>1. step' \in 0..10
  BY DEF TestWrites, TestReads, Advance
<1>p. fd[Tester] # None => f_pos[fd[Tester]] \in Nat /\ f_pos[fd[Tester]] \in 0..ramdisk_size
  BY <1>0 DEF WithinDevice
<1>2. CASE Open(Tester)
  BY <1>0, <1>1, <1>2, OpenKeeps
<1>3. CASE Lseek(Tester, position, "SEEK_SET")
  BY <1>0, <1>1, <1>3, LseekKeeps DEF Whences
<1>4. CASE AtFile(Tester, "write", length)
  BY <1>0, <1>1, <1>p, <1>4, EnterKeeps DEF AtFile, Positional, Enter, Idle
<1>5. CASE WriteLeave(Tester)
  BY <1>0, <1>1, <1>5, WriteLeaveKeeps
<1>6. CASE AtFile(Tester, "read", length)
  BY <1>0, <1>1, <1>p, <1>6, EnterKeeps DEF AtFile, Positional, Enter, Idle
<1>7. CASE ReadLeave(Tester)
  BY <1>0, <1>1, <1>7, ReadLeaveKeeps
<1>8. CASE Release(Tester)
  BY <1>0, <1>1, <1>8, ReleaseKeeps
<1> QED
  BY <1>1, <1>2, <1>3, <1>4, <1>5, <1>6, <1>7, <1>8 DEF TestWrites, TestReads

LEMMA OtherKeeps == ASSUME IInv, NEW p \in Others, Other(p) PROVE DriverOK' /\ step' \in 0..10
<1>0. p \in Procs /\ Others \subseteq Procs /\ p # Tester
  BY SeekAssumption DEF Procs
<1>1. step' \in 0..10
  BY DEF Other, IInv, TypeOK
<1>2. CASE Open(p)
  BY <1>0, <1>1, <1>2, OpenKeeps
<1>3. CASE Release(p)
  BY <1>0, <1>1, <1>3, ReleaseKeeps
<1>4. CASE ReadLeave(p)
  BY <1>0, <1>1, <1>4, ReadLeaveKeeps
<1>5. CASE WriteLeave(p)
  BY <1>0, <1>1, <1>5, WriteLeaveKeeps
<1>6. CASE \E q \in Others : Fork(p, q)
  BY <1>0, <1>1, <1>6, ForkKeeps
<1>7. CASE \E n \in Lengths : AtFile(p, "read", n) \/ AtFile(p, "write", n)
  <2>1. PICK n \in Lengths, op \in {"read", "write"} : Enter(p, op, f_pos[fd[p]], n)
    BY <1>7 DEF AtFile
  <2>2. f_pos[fd[p]] \in Nat /\ f_pos[fd[p]] \in 0..ramdisk_size
    BY <1>0, <2>1 DEF Enter, Idle, IInv, TypeOK, WithinDevice
  <2>3. op \in {"read", "write"} \cup Positional
    OBVIOUS
  <2> QED
    BY <1>0, <1>1, <2>1, <2>2, <2>3, EnterKeeps
<1>8. CASE \E n \in Lengths, o \in Offsets : AtOwn(p, "pread", o, n) \/ AtOwn(p, "pwrite", o, n)
  <2>1. PICK n \in Lengths, o \in Offsets, op \in Positional : o >= 0 /\ Enter(p, op, o, n)
    BY <1>8 DEF AtOwn, Positional
  <2>2. o \in Nat /\ op \in {"read", "write"} \cup Positional
    BY <2>1, SeekAssumption
  <2> QED
    BY <1>0, <1>1, <2>1, <2>2, EnterKeeps
<1>9. CASE \E o \in Offsets, w \in Whences : Lseek(p, o, w)
  BY <1>0, <1>1, <1>9, LseekKeeps
<1> QED
  BY <1>1, <1>2, <1>3, <1>4, <1>5, <1>6, <1>7, <1>8, <1>9 DEF Other

\* Every step leaves the arguments as they are.
LEMMA ArgumentsKept == Next => UNCHANGED arguments
<1>1. \A p : Open(p) => UNCHANGED arguments
  BY DEF Open, OpenShared, OpenPrivate, OpenedAt
<1>2. \A p, q : (Release(p) \/ Fork(p, q)) => UNCHANGED arguments
  BY DEF Release, Fork
<1>3. \A p, op, o, n : AtFile(p, op, n) \/ AtOwn(p, op, o, n) => UNCHANGED arguments
  BY DEF AtFile, AtOwn, Enter
<1>4. \A p : ReadLeave(p) \/ WriteLeave(p) => UNCHANGED arguments
  BY DEF ReadLeave, WriteLeave, Leave
<1>5. \A p, o, w : Lseek(p, o, w) => UNCHANGED arguments
  BY DEF Lseek, Seek
<1>6. TestWrites \/ TestReads => UNCHANGED arguments
  BY <1>1, <1>2, <1>3, <1>4, <1>5 DEF TestWrites, TestReads
<1>7. \A p : Other(p) => UNCHANGED arguments
  BY <1>1, <1>2, <1>3, <1>4, <1>5 DEF Other
<1> QED
  BY <1>6, <1>7 DEF Next

LEMMA StepOK == IInv /\ [Next]_vars => IInv'
<1> SUFFICES ASSUME IInv, [Next]_vars PROVE IInv'
  OBVIOUS
<1>1. CASE Next
  <2>1. DriverOK' /\ step' \in 0..10
    BY <1>1, TestKeeps, OtherKeeps DEF Next
  <2>2. UNCHANGED <<driver, position, length>>
    BY <1>1, ArgumentsKept DEF arguments
  <2> QED
    BY <2>1, <2>2 DEF DriverOK, IInv, TypeOK
<1>2. CASE UNCHANGED vars
  BY <1>2 DEF vars, IInv, TypeOK, WithinDevice, OnDevice, CallsHaveFile, PrivateData, InUse
<1> QED
  BY <1>1, <1>2

LEMMA Invariance == Spec => []IInv
BY InitOK, StepOK, PTL DEF Spec

\* The variables keep their types: no position or count is ever negative, whatever
\* lseeks are asked for (lab03/seek/seek.c:127, lab04/private_data/seek.c:143).
THEOREM TypesKept == Spec => []TypeOK
<1>1. IInv => TypeOK
  BY DEF IInv
<1> QED
  BY <1>1, Invariance, PTL

\* No read or write goes off the end of the device (lab03/seek/seek.c:25), nor a pread or
\* pwrite that starts on it, for any size of it and any number of processes sharing files.
THEOREM StaysWithin == Spec => []WithinDevice
<1>1. IInv => WithinDevice
  BY DEF IInv
<1> QED
  BY <1>1, Invariance, PTL

\* Nothing from before its open is ever in a private ramdisk
\* (lab04/private_data/seek.c:69-72).
THEOREM StaysPrivate == Spec => []PrivateData
<1>1. IInv => PrivateData
  BY DEF IInv
<1> QED
  BY <1>1, Invariance, PTL
-----------------------------------------------------------------------------
(* seek_test reads back what it wrote.                                     *)

\* Nobody shares the file of seek_test.
FileAlone == \A p \in Others : fd[Tester] # None => fd[p] # fd[Tester]

\* How much of the message fits at its place, and what may stand for a byte of it.
Fits == BytesToDo(position, length)
Right(v, i) == v = i \/ (driver = "lab03_seek" /\ v = Theirs)
Written == \A i \in 1..Fits : Right(data[Ramdisk(fd[Tester])][position + i - 1], i)

\* How far seek_test has come, where its file and its call stand, and that the message
\* is on the device from the first write to the read.
Progress ==
  /\ step \in 1..9 => fd[Tester] # None
  /\ step \in {2, 7} => f_pos[fd[Tester]] = position
  /\ step = 3 => call[Tester] = [op |-> "write", pos |-> position, todo |-> Fits]
  /\ step = 4 => f_pos[fd[Tester]] = position + Fits
  /\ step = 5 => call[Tester] # None /\ call[Tester].pos = position + Fits
  /\ step = 8 => call[Tester] = [op |-> "read", pos |-> position, todo |-> Fits]
  /\ step \in 4..8 => Written
  /\ step > 8 => Len(message) = Fits /\ \A i \in DOMAIN message : Right(message[i], i)

TestInv == FileAlone /\ (InRange(position) => Progress)

LEMMA FitsThere ==
  ASSUME IInv, InRange(position)
  PROVE  /\ position \in Places /\ position \in Nat /\ length \in Nat \ {0} /\ ramdisk_size \in Nat
         /\ Fits \in Nat /\ Fits \in 0..ramdisk_size - position
<1>1. position \in Int /\ length \in Nat \ {0} /\ ramdisk_size \in Nat \ {0}
  BY SeekAssumption DEF IInv, TypeOK
<1>2. position \in 0..ramdisk_size /\ position \in Places
  BY <1>1 DEF InRange, Places
<1>3. Fits \in 0..ramdisk_size - position
  BY <1>1, <1>2, TodoFits DEF Fits
<1> QED
  BY <1>1, <1>2, <1>3

\* A step of another process that leaves the file and the call of seek_test alone, and
\* of its ramdisk changes only what the processes share.
LEMMA Bystander ==
  ASSUME IInv, TestInv, UNCHANGED <<arguments, step, message>>, FileAlone',
         fd'[Tester] = fd[Tester], call'[Tester] = call[Tester],
         fd[Tester] # None =>
           /\ f_pos'[fd[Tester]] = f_pos[fd[Tester]]
           /\ \A i \in Places :
                LET v == data'[Ramdisk(fd[Tester])][i]
                IN  v = data[Ramdisk(fd[Tester])][i] \/ (driver = "lab03_seek" /\ v = Theirs)
  PROVE  TestInv'
<1> SUFFICES ASSUME InRange(position) PROVE Progress'
  BY DEF TestInv, arguments, InRange
<1>1. Progress /\ Fits' = Fits /\ driver' = driver /\ position' = position
  BY DEF TestInv, arguments, Fits, BytesToDo
<1>2. Ramdisk(fd[Tester])' = Ramdisk(fd[Tester])
  BY <1>1 DEF Ramdisk
<1>3. Written /\ fd[Tester] # None => Written'
  <2> SUFFICES ASSUME Written, fd[Tester] # None, NEW i \in 1..Fits
               PROVE  Right(data'[Ramdisk(fd[Tester])][position + i - 1], i)
    BY <1>1, <1>2 DEF Written, Right
  <2>1. position + i - 1 \in Places
    BY FitsThere DEF Places
  <2>2. Right(data[Ramdisk(fd[Tester])][position + i - 1], i)
    BY DEF Written
  <2> QED
    BY <2>1, <2>2 DEF Right
<1> QED
  BY <1>1, <1>3 DEF Progress, Right

LEMMA OthersAside ==
  ASSUME IInv, TestInv, NEW p \in Others, Other(p)
  PROVE  TestInv'
<1>0. /\ p # Tester /\ p \in Procs /\ Tester \in Procs /\ Others \subseteq Procs
      /\ step' = step /\ FileAlone /\ Tester \notin Others
  BY SeekAssumption DEF Procs, Other, TestInv
<1>1. /\ fd \in [Procs -> Files \cup {None}] /\ f_pos \in [Files -> Nat]
      /\ data \in [Ramdisks -> [Places -> Bytes]] /\ call \in [Procs -> Calls \cup {None}]
      /\ driver \in {"lab03_seek", "lab04_seek"} /\ None \notin Files /\ Shared \notin Files
  BY SeekAssumption DEF IInv, TypeOK
<1>2. fd[p] # None => fd[p] \in Files /\ fd[p] # fd[Tester]
  BY <1>0, <1>1 DEF FileAlone
<1>3. CASE Open(p)
  <2>1. PICK f \in Files :
        /\ fd[p] = None /\ ~InUse(f)
        /\ fd' = [fd EXCEPT ![p] = f] /\ f_pos' = [f_pos EXCEPT ![f] = 0]
        /\ UNCHANGED <<arguments, call, message>>
        /\ \/ driver = "lab03_seek" /\ data' = data
           \/ driver = "lab04_seek" /\ data' = [data EXCEPT ![f] = [i \in Places |-> Zero]]
    BY <1>3 DEF Open, OpenShared, OpenPrivate, OpenedAt
  <2>2. fd[Tester] # f /\ fd'[Tester] = fd[Tester]
    BY <1>0, <1>1, <2>1 DEF InUse
  <2>3. FileAlone'
    BY <1>0, <1>1, <2>1, <2>2 DEF FileAlone
  <2>4. fd[Tester] # None => f_pos'[fd[Tester]] = f_pos[fd[Tester]]
                             /\ data'[Ramdisk(fd[Tester])] = data[Ramdisk(fd[Tester])]
    BY <1>0, <1>1, <2>1, <2>2 DEF Ramdisk, Ramdisks
  <2> QED
    BY <1>0, <2>1, <2>2, <2>3, <2>4, Bystander
<1>4. CASE Release(p)
  <2>1. /\ fd[p] # None /\ fd' = [fd EXCEPT ![p] = None]
        /\ UNCHANGED <<arguments, call, message>>
        /\ \/ f_pos' = f_pos /\ data' = data
           \/ /\ f_pos' = [f_pos EXCEPT ![fd[p]] = 0]
              /\ data' = [data EXCEPT ![fd[p]] = Unused]
    BY <1>4 DEF Release, Idle
  <2>2. FileAlone' /\ fd'[Tester] = fd[Tester]
    BY <1>0, <1>1, <2>1 DEF FileAlone
  <2>4. fd[Tester] # None => f_pos'[fd[Tester]] = f_pos[fd[Tester]]
                             /\ data'[Ramdisk(fd[Tester])] = data[Ramdisk(fd[Tester])]
    BY <1>0, <1>1, <1>2, <2>1 DEF Ramdisk, Ramdisks
  <2> QED
    BY <1>0, <2>1, <2>2, <2>4, Bystander
<1>5. CASE \E q \in Others : Fork(p, q)
  <2>1. PICK q \in Others :
          /\ fd[p] # None /\ fd' = [fd EXCEPT ![q] = fd[p]]
          /\ UNCHANGED <<arguments, f_pos, data, call, message>>
    BY <1>5 DEF Fork, Idle
  <2>2. FileAlone' /\ fd'[Tester] = fd[Tester]
    BY <1>0, <1>1, <1>2, <2>1 DEF FileAlone
  <2> QED
    BY <1>0, <2>1, <2>2, Bystander
<1>6. CASE \/ \E n \in Lengths : AtFile(p, "read", n) \/ AtFile(p, "write", n)
           \/ \E n \in Lengths, o \in Offsets :
                AtOwn(p, "pread", o, n) \/ AtOwn(p, "pwrite", o, n)
  <2>1. \E op, o, n : Enter(p, op, o, n)
    BY <1>6 DEF AtFile, AtOwn
  <2>2. /\ UNCHANGED <<arguments, fd, f_pos, data, message>> /\ call'[Tester] = call[Tester]
        /\ FileAlone'
    BY <1>0, <1>1, <2>1 DEF Enter, FileAlone
  <2> QED
    BY <1>0, <2>2, Bystander
<1>7. CASE ReadLeave(p) \/ WriteLeave(p)
  <2>1. /\ UNCHANGED <<arguments, fd, message>> /\ call'[Tester] = call[Tester]
        /\ FileAlone' /\ call[p] # None
        /\ f_pos' = f_pos \/ \E n : f_pos' = [f_pos EXCEPT ![fd[p]] = n]
    BY <1>0, <1>1, <1>7 DEF ReadLeave, WriteLeave, Leave, FileAlone, In
  <2>2. fd[p] # None
    BY <1>0, <2>1 DEF IInv, CallsHaveFile
  <2>3. fd[Tester] # None => f_pos'[fd[Tester]] = f_pos[fd[Tester]]
    BY <1>0, <1>1, <1>2, <2>1, <2>2
  <2>4. ASSUME fd[Tester] # None, NEW i \in Places
        PROVE  LET v == data'[Ramdisk(fd[Tester])][i]
               IN  v = data[Ramdisk(fd[Tester])][i] \/ (driver = "lab03_seek" /\ v = Theirs)
    <3>1. CASE data' = data
      BY <3>1
    <3>2. CASE WriteLeave(p)
      <4> DEFINE r == Ramdisk(fd[p])
                 w == [j \in Places |->
                        IF j \notin call[p].pos..call[p].pos + call[p].todo - 1 THEN data[r][j]
                        ELSE IF p = Tester THEN j - call[p].pos + 1 ELSE Theirs]
      <4>1. r \in Ramdisks /\ Ramdisk(fd[Tester]) \in Ramdisks
        BY <1>0, <1>1, <1>2, <2>2, <2>4 DEF Ramdisk, Ramdisks
      <4>2. data' = [data EXCEPT ![r] = w]
        BY <3>2, <4>1, <1>1 DEF WriteLeave
      <4>3. w[i] = data[r][i] \/ w[i] = Theirs
        BY <1>0
      <4> HIDE DEF w
      <4>4. CASE Ramdisk(fd[Tester]) # r
        BY <1>1, <4>1, <4>2, <4>4
      <4>5. CASE Ramdisk(fd[Tester]) = r
        <5>1. driver = "lab03_seek"
          BY <1>0, <1>1, <1>2, <2>2, <4>5 DEF Ramdisk
        <5>2. data'[r] = w
          BY <1>1, <4>1, <4>2
        <5> QED
          BY <4>3, <4>5, <5>1, <5>2
      <4> QED
        BY <4>4, <4>5
    <3> QED
      BY <1>7, <3>1, <3>2 DEF ReadLeave
  <2> QED
    BY <1>0, <2>1, <2>3, <2>4, Bystander
<1>8. CASE \E o \in Offsets, w \in Whences : Lseek(p, o, w)
  <2>1. /\ UNCHANGED <<arguments, fd, data, call, message>> /\ fd[p] # None /\ FileAlone'
        /\ \E n : f_pos' = [f_pos EXCEPT ![fd[p]] = n]
    BY <1>0, <1>1, <1>8 DEF Lseek, Seek, Idle, FileAlone
  <2>3. fd[Tester] # None => f_pos'[fd[Tester]] = f_pos[fd[Tester]]
    BY <1>0, <1>1, <1>2, <2>1
  <2> QED
    BY <1>0, <2>1, <2>3, Bystander
<1> QED
  BY <1>3, <1>4, <1>5, <1>6, <1>7, <1>8 DEF Other

\* A step of seek_test leaves the other processes' files alone.
LEMMA TesterAlone ==
  ASSUME IInv, TestInv, TestWrites \/ TestReads
  PROVE  FileAlone'
<1>1. CASE Open(Tester)
  <2>1. PICK f \in Files : ~InUse(f) /\ fd' = [fd EXCEPT ![Tester] = f]
    BY <1>1 DEF Open, OpenShared, OpenPrivate, OpenedAt
  <2> QED
    BY <2>1, SeekAssumption DEF FileAlone, InUse, Procs, IInv, TypeOK
<1>2. CASE fd' = fd
  BY <1>2 DEF TestInv, FileAlone
<1>3. CASE Release(Tester)
  BY <1>3 DEF Release, FileAlone, Procs, IInv, TypeOK
<1> QED
  BY <1>1, <1>2, <1>3 DEF TestWrites, TestReads, Lseek, Seek, AtFile, Enter, WriteLeave, ReadLeave, Leave

LEMMA TesterSeeks ==
  ASSUME IInv, InRange(position), fd[Tester] # None, Lseek(Tester, position, "SEEK_SET")
  PROVE  /\ UNCHANGED <<arguments, fd, data, call, message>>
         /\ f_pos'[fd[Tester]] = position
<1>1. Target(fd[Tester], position, "SEEK_SET") = position
  BY DEF Target
<1>2. /\ UNCHANGED <<arguments, fd, data, call, message>>
      /\ f_pos' = [f_pos EXCEPT ![fd[Tester]] = position]
  BY <1>1 DEF Lseek, Seek
<1>3. fd[Tester] \in Files
  BY DEF IInv, TypeOK, Procs
<1> QED
  BY <1>2, <1>3 DEF IInv, TypeOK

LEMMA TesterEnters ==
  ASSUME IInv, NEW op, AtFile(Tester, op, length)
  PROVE  /\ UNCHANGED <<arguments, fd, f_pos, data, message>>
         /\ LET pos == f_pos[fd[Tester]]
            IN  call'[Tester] = [op |-> op, pos |-> pos, todo |-> BytesToDo(pos, length)]
  BY DEF AtFile, Enter, IInv, TypeOK, Procs

\* A write of seek_test puts the message at the position it entered with, whole.
LEMMA TesterWrites ==
  ASSUME IInv, WriteLeave(Tester)
  PROVE  /\ UNCHANGED <<arguments, fd, message>>
         /\ fd[Tester] \in Files /\ call[Tester] # None
         /\ f_pos'[fd[Tester]] = call[Tester].pos + call[Tester].todo
         /\ \A i \in Places :
              data'[Ramdisk(fd[Tester])][i] =
                IF i \in call[Tester].pos..call[Tester].pos + call[Tester].todo - 1
                THEN i - call[Tester].pos + 1 ELSE data[Ramdisk(fd[Tester])][i]
<1>1. /\ call[Tester] # None /\ Tester \in Procs
      /\ \E n \in Copied(Tester) : Leave(Tester, n)
  BY DEF WriteLeave, In, Procs
<1>2. fd[Tester] \in Files
  BY <1>1 DEF IInv, TypeOK, CallsHaveFile
<1>3. Leave(Tester, call[Tester].todo)
  BY <1>1 DEF Copied
<1>4. f_pos'[fd[Tester]] = call[Tester].pos + call[Tester].todo
  BY <1>1, <1>2, <1>3 DEF Leave, IInv, TypeOK, CallsHaveFile
<1> DEFINE r == Ramdisk(fd[Tester])
           w == [i \in Places |->
                  IF i \notin call[Tester].pos..call[Tester].pos + call[Tester].todo - 1 THEN data[r][i]
                  ELSE i - call[Tester].pos + 1]
<1>5. r \in Ramdisks /\ data' = [data EXCEPT ![r] = w]
  BY <1>2 DEF WriteLeave, Ramdisk, Ramdisks, IInv, TypeOK
<1>6. data'[r] = w
  BY <1>5 DEF IInv, TypeOK
<1> QED
  BY <1>1, <1>2, <1>3, <1>4, <1>6 DEF Leave, WriteLeave

LEMMA TesterReads ==
  ASSUME IInv, ReadLeave(Tester)
  PROVE  /\ UNCHANGED <<arguments, fd, data>>
         /\ message' = [i \in 1..call[Tester].todo |->
                          data[Ramdisk(fd[Tester])][call[Tester].pos + i - 1]]
<1>1. PICK n \in Copied(Tester) :
        /\ Leave(Tester, n) /\ UNCHANGED data
        /\ message' = [i \in 1..n |-> data[Ramdisk(fd[Tester])][call[Tester].pos + i - 1]]
  BY DEF ReadLeave
<1>2. n = call[Tester].todo
  BY <1>1 DEF Copied
<1> QED
  BY <1>1, <1>2 DEF Leave

\* What stands at the position is not disturbed by a step that does not touch it.
LEMMA WrittenKept ==
  ASSUME IInv, InRange(position), Written, UNCHANGED <<arguments, fd>>,
         \A i \in 1..Fits : LET j == position + i - 1
                            IN  data'[Ramdisk(fd[Tester])][j] = data[Ramdisk(fd[Tester])][j]
  PROVE  Written'
<1>1. Fits' = Fits /\ Ramdisk(fd[Tester])' = Ramdisk(fd[Tester])
  BY DEF Fits, BytesToDo, arguments, Ramdisk
<1>2. position' = position /\ driver' = driver
  BY DEF arguments
<1> QED
  BY <1>1, <1>2 DEF Written, Right

LEMMA TesterProgress ==
  ASSUME IInv, InRange(position), Progress, TestWrites \/ TestReads
  PROVE  Progress'
<1>0. /\ Tester \in Procs /\ None \notin Files /\ step \in 0..10
      /\ position \in Places /\ position \in Nat /\ Fits \in Nat /\ Fits \in 0..ramdisk_size - position
      /\ ramdisk_size \in Nat /\ Fits = BytesToDo(position, length)
  BY FitsThere, SeekAssumption DEF Procs, IInv, TypeOK, Fits
<1>f. UNCHANGED arguments => Fits' = Fits /\ position' = position /\ driver' = driver
  BY DEF Fits, BytesToDo, arguments
<1>1. CASE Advance(0) /\ Open(Tester)
  <2>1. step' = 1 /\ fd'[Tester] # None
    <3>1. PICK f \in Files : fd' = [fd EXCEPT ![Tester] = f]
      BY <1>1 DEF Open, OpenShared, OpenPrivate, OpenedAt
    <3> QED
      BY <1>0, <1>1, <3>1 DEF IInv, TypeOK, Advance
  <2> QED
    BY <2>1 DEF Progress
<1>2. CASE Advance(1) /\ Lseek(Tester, position, "SEEK_SET")
  <2>1. step' = 2 /\ fd[Tester] # None
    BY <1>2 DEF Progress, Advance
  <2>2. f_pos'[fd'[Tester]] = position' /\ fd' = fd
    BY <1>2, <1>f, <2>1, TesterSeeks
  <2> QED
    BY <2>1, <2>2 DEF Progress
<1>3. CASE Advance(2) /\ AtFile(Tester, "write", length)
  <2>1. step' = 3 /\ fd[Tester] # None /\ f_pos[fd[Tester]] = position
    BY <1>3 DEF Progress, Advance
  <2>2. /\ UNCHANGED <<arguments, fd>>
        /\ call'[Tester] = [op |-> "write", pos |-> position, todo |-> Fits]
    BY <1>0, <1>3, <2>1, TesterEnters
  <2> QED
    BY <1>f, <2>1, <2>2 DEF Progress
<1>4. CASE Advance(3) /\ WriteLeave(Tester)
  <2>1. /\ step' = 4 /\ fd[Tester] # None
        /\ call[Tester] = [op |-> "write", pos |-> position, todo |-> Fits]
    BY <1>4 DEF Progress, Advance
  <2>2. /\ UNCHANGED <<arguments, fd>> /\ f_pos'[fd[Tester]] = position + Fits
        /\ \A i \in Places : i \in position..position + Fits - 1 =>
             data'[Ramdisk(fd[Tester])][i] = i - position + 1
    BY <1>4, <2>1, TesterWrites
  <2>3. ASSUME NEW i \in 1..Fits PROVE data'[Ramdisk(fd[Tester])][position + i - 1] = i
    <3>1. position + i - 1 \in Places /\ position + i - 1 \in position..position + Fits - 1
          /\ (position + i - 1) - position + 1 = i
      BY <1>0 DEF Places
    <3> QED
      BY <2>2, <3>1
  <2>4. Written'
    BY <1>f, <2>2, <2>3 DEF Written, Right, Ramdisk, arguments
  <2> QED
    BY <1>f, <2>1, <2>2, <2>4 DEF Progress
<1>5. CASE Advance(4) /\ AtFile(Tester, "write", length)
  <2>1. step' = 5 /\ fd[Tester] # None /\ f_pos[fd[Tester]] = position + Fits /\ Written
    BY <1>5 DEF Progress, Advance
  <2>2. /\ UNCHANGED <<arguments, fd, data>>
        /\ call'[Tester] = [op |-> "write", pos |-> position + Fits,
                            todo |-> BytesToDo(position + Fits, length)]
    BY <1>5, <2>1, TesterEnters
  <2>3. call'[Tester] # None /\ call'[Tester].pos = position + Fits
    <3>1. call'[Tester].pos = position + Fits /\ call'[Tester].op = "write"
      BY <2>2
    <3>2. call'[Tester] # None
      BY <2>2 DEF None
    <3> QED
      BY <3>1, <3>2
  <2>4. Written'
    BY <2>1, <2>2, WrittenKept
  <2> QED
    BY <1>f, <2>1, <2>2, <2>3, <2>4 DEF Progress
<1>6. CASE Advance(5) /\ WriteLeave(Tester)
  <2>1. step' = 6 /\ fd[Tester] # None /\ call[Tester].pos = position + Fits /\ Written
    BY <1>6 DEF Progress, Advance
  <2>2. /\ UNCHANGED <<arguments, fd>>
        /\ \A i \in Places :
             i \notin position + Fits..position + Fits + call[Tester].todo - 1 =>
               data'[Ramdisk(fd[Tester])][i] = data[Ramdisk(fd[Tester])][i]
    BY <1>6, <2>1, TesterWrites
  <2>3. ASSUME NEW i \in 1..Fits
        PROVE  LET j == position + i - 1
               IN  data'[Ramdisk(fd[Tester])][j] = data[Ramdisk(fd[Tester])][j]
    <3>1. position + i - 1 \in Places /\ position + i - 1 < position + Fits
      BY <1>0 DEF Places
    <3> QED
      BY <1>0, <2>2, <3>1
  <2>4. Written'
    BY <2>1, <2>2, <2>3, WrittenKept
  <2> QED
    BY <1>f, <2>1, <2>2, <2>4 DEF Progress
<1>7. CASE Advance(6) /\ Lseek(Tester, position, "SEEK_SET")
  <2>1. step' = 7 /\ fd[Tester] # None /\ Written
    BY <1>7 DEF Progress, Advance
  <2>2. /\ f_pos'[fd'[Tester]] = position' /\ UNCHANGED <<arguments, fd, data>>
    BY <1>7, <1>f, <2>1, TesterSeeks
  <2>3. Written'
    BY <2>1, <2>2, WrittenKept
  <2> QED
    BY <2>1, <2>2, <2>3 DEF Progress
<1>8. CASE Advance(7) /\ AtFile(Tester, "read", length)
  <2>1. step' = 8 /\ fd[Tester] # None /\ f_pos[fd[Tester]] = position /\ Written
    BY <1>8 DEF Progress, Advance
  <2>2. /\ UNCHANGED <<arguments, fd, data>>
        /\ call'[Tester] = [op |-> "read", pos |-> position, todo |-> Fits]
    BY <1>0, <1>8, <2>1, TesterEnters
  <2>3. Written'
    BY <2>1, <2>2, WrittenKept
  <2> QED
    BY <1>f, <2>1, <2>2, <2>3 DEF Progress
<1>9. CASE Advance(8) /\ ReadLeave(Tester)
  <2>1. /\ step' = 9 /\ fd[Tester] # None /\ Written
        /\ call[Tester] = [op |-> "read", pos |-> position, todo |-> Fits]
    BY <1>9 DEF Progress, Advance
  <2>2. /\ UNCHANGED <<arguments, fd>>
        /\ message' = [i \in 1..Fits |-> data[Ramdisk(fd[Tester])][position + i - 1]]
    BY <1>9, <2>1, TesterReads
  <2>3. Len(message') = Fits /\ DOMAIN message' = 1..Fits
    BY <1>0, <2>2
  <2>4. ASSUME NEW i \in DOMAIN message' PROVE Right(message'[i], i)
    <3>1. i \in 1..Fits /\ message'[i] = data[Ramdisk(fd[Tester])][position + i - 1]
      BY <2>2, <2>3
    <3> QED
      BY <2>1, <3>1 DEF Written
  <2>5. Fits' = Fits /\ driver' = driver
    BY <1>f, <2>2
  <2>6. \A i \in DOMAIN message' : Right(message[i], i)'
    BY <2>4, <2>5 DEF Right
  <2>7. fd'[Tester] # None
    BY <2>1, <2>2
  <2> QED
    BY <2>1, <2>3, <2>5, <2>6, <2>7 DEF Progress
<1>10. CASE Advance(9) /\ Release(Tester)
  <2>1. /\ step' = 10 /\ Len(message) = Fits /\ \A i \in DOMAIN message : Right(message[i], i)
    BY <1>10 DEF Progress, Advance
  <2>2. UNCHANGED <<arguments, message>>
    BY <1>10 DEF Release
  <2> QED
    BY <1>f, <2>1, <2>2 DEF Progress, Right
<1> QED
  BY <1>1, <1>2, <1>3, <1>4, <1>5, <1>6, <1>7, <1>8, <1>9, <1>10 DEF TestWrites, TestReads

LEMMA TestInvariance == Spec => [](IInv /\ TestInv)
<1>1. Init => IInv /\ TestInv
  <2> SUFFICES ASSUME Init PROVE TestInv
    BY InitOK
  <2>1. step = 0 /\ fd[Tester] = None
    BY DEF Init, Procs
  <2> QED
    BY <2>1 DEF TestInv, FileAlone, Progress
<1>2. IInv /\ TestInv /\ [Next]_vars => (IInv /\ TestInv)'
  <2> SUFFICES ASSUME IInv, TestInv, [Next]_vars PROVE TestInv'
    BY StepOK
  <2>1. CASE TestWrites \/ TestReads
    <3>1. InRange(position)' => InRange(position)
      BY <2>1, ArgumentsKept DEF Next, arguments, InRange
    <3> QED
      BY <2>1, <3>1, TesterAlone, TesterProgress DEF TestInv
  <2>2. CASE \E p \in Others : Other(p)
    BY <2>2, OthersAside
  <2>3. CASE UNCHANGED vars
    BY <2>3 DEF vars, TestInv, FileAlone, Progress, Written, Right, Fits, BytesToDo, Ramdisk, InRange
  <2> QED
    BY <2>1, <2>2, <2>3 DEF Next
<1> QED
  BY <1>1, <1>2, PTL DEF Spec

\* seek_test reads back, in order, as much of its message as fits at its position, whatever
\* the other processes open, share, read, write and seek meanwhile; only what they write to
\* lab03's shared ramdisk may stand in its place (lab03/seek/seek_test.c:55-77).
THEOREM ReadsBack == Spec => []MessageReadBack
<1>1. IInv /\ TestInv => MessageReadBack
  <2> SUFFICES ASSUME IInv, TestInv, step > 8, InRange(position)
               PROVE  /\ Len(message) = BytesToDo(position, length)
                      /\ \A i \in DOMAIN message :
                           message[i] = i \/ (driver = "lab03_seek" /\ message[i] = Theirs)
    BY DEF MessageReadBack
  <2> QED
    BY DEF TestInv, Progress, Fits, Right
<1> QED
  BY <1>1, TestInvariance, PTL

=============================================================================
