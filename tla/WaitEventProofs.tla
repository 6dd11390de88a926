-------------------------- MODULE WaitEventProofs --------------------------
(***************************************************************************)
(* For any number of processes, with signals and failing copies: no write  *)
(* goes unnoticed, and a wake-up is lost only to a signal.                 *)
(***************************************************************************)
EXTENDS WaitEvent, SequenceTheorems, TLAPS

PCs == Reading \cup {"closed", "open", "announce", "wake"}

Types == /\ data_ready \in {0, 1} /\ queue \in Seq(Procs)
         /\ interruptible \subseteq Procs /\ pc \in [Procs -> PCs]

Distinct(line) == \A i, j \in DOMAIN line : line[i] = line[j] => i = j

\* Who can be woken is in the line, and between Prepare and what follows Test.
InLine == \A p \in interruptible :
            p \in ToSet(queue) /\ pc[p] \in {"test", "asleep", "finish", "abort"}

WaitInv == Types /\ Distinct(queue) /\ InLine

-----------------------------------------------------------------------------
(* Lines.                                                                  *)

\* Whoever leaves the line leaves it once, and the others stay.
LEMMA Removal ==
  ASSUME NEW line \in Seq(Procs), Distinct(line), NEW k \in DOMAIN line
  PROVE  /\ RemoveAt(line, k) \in Seq(Procs)
         /\ Distinct(RemoveAt(line, k))
         /\ ToSet(RemoveAt(line, k)) = ToSet(line) \ {line[k]}
<1> DEFINE n == Len(line)
           rest == RemoveAt(line, k)
<1>1. /\ n \in Nat /\ k \in 1..n /\ DOMAIN line = 1..n
      /\ \A i \in 1..n : line[i] \in Procs
  OBVIOUS
<1>2. /\ rest \in Seq(Procs) /\ Len(rest) = n - 1
      /\ \A i \in 1..n - 1 : rest[i] = IF i < k THEN line[i] ELSE line[i + 1]
  <2> DEFINE before == SubSeq(line, 1, k - 1)
             after == SubSeq(line, k + 1, n)
  <2>1. /\ before \in Seq(Procs) /\ Len(before) = k - 1
        /\ \A i \in 1..k - 1 : before[i] = line[i]
    BY <1>1, SubSeqProperties
  <2>2. /\ after \in Seq(Procs) /\ Len(after) = n - k
        /\ \A i \in 1..n - k : after[i] = line[i + k]
    BY <1>1, SubSeqProperties
  <2>3. rest = before \o after
    BY DEF RemoveAt
  <2> HIDE DEF before, after, rest, n
  <2>4. /\ rest \in Seq(Procs) /\ Len(rest) = Len(before) + Len(after)
        /\ \A i \in 1..Len(before) + Len(after) :
             rest[i] = IF i <= Len(before) THEN before[i] ELSE after[i - Len(before)]
    BY <2>1, <2>2, <2>3, ConcatProperties, Zenon
  <2>5. ASSUME NEW i \in 1..n - 1
        PROVE  rest[i] = IF i < k THEN line[i] ELSE line[i + 1]
    <3>1. CASE i < k
      BY <3>1, <1>1, <2>1, <2>4
    <3>2. CASE i >= k
      <4> DEFINE j == i - (k - 1)
      <4>1. j \in 1..n - k /\ j + k = i + 1
        BY <3>2, <1>1
      <4>2. after[j] = line[i + 1]
        BY <4>1, <2>2
      <4> QED
        BY <3>2, <4>2, <1>1, <2>1, <2>2, <2>4
    <3> QED
      BY <1>1, <3>1, <3>2
  <2> QED
    BY <1>1, <2>1, <2>2, <2>4, <2>5
<1> HIDE DEF rest, n
<1>3. DOMAIN rest = 1..n - 1
  BY <1>1, <1>2
<1>4. ASSUME NEW i \in 1..n - 1, NEW j \in 1..n - 1, rest[i] = rest[j]
      PROVE  i = j
  <2> DEFINE Was(m) == IF m < k THEN m ELSE m + 1
  <2>1. Was(i) \in 1..n /\ Was(j) \in 1..n /\ line[Was(i)] = line[Was(j)]
    BY <1>1, <1>2, <1>4
  <2>2. Was(i) = Was(j)
    BY <2>1, <1>1 DEF Distinct
  <2> QED
    BY <2>2, <1>1
<1>5. ToSet(rest) \subseteq ToSet(line) \ {line[k]}
  BY <1>1, <1>2, <1>3, SMTT(30) DEF ToSet, Distinct
<1>6. ASSUME NEW i \in 1..n, i # k
      PROVE  line[i] \in ToSet(rest)
  <2>1. CASE i < k
    BY <2>1, <1>1, <1>2, <1>3 DEF ToSet
  <2>2. CASE i > k
    <3>1. i - 1 \in 1..n - 1 /\ rest[i - 1] = line[i]
      BY <2>2, <1>1, <1>2
    <3> QED
      BY <3>1, <1>3 DEF ToSet
  <2> QED
    BY <1>6, <1>1, <2>1, <2>2
<1>7. ToSet(line) \ {line[k]} \subseteq ToSet(rest)
  BY <1>1, <1>6 DEF ToSet
<1> QED
  BY <1>2, <1>3, <1>4, <1>5, <1>7 DEF rest, Distinct

\* The same for Without, also of a process that is not in the line.
LEMMA Leaves ==
  ASSUME WaitInv, NEW p
  PROVE  /\ Without(p) \in Seq(Procs) /\ Distinct(Without(p))
         /\ ToSet(Without(p)) = ToSet(queue) \ {p}
<1>1. CASE p \in ToSet(queue)
  <2>1. At(p) \in DOMAIN queue /\ queue[At(p)] = p
    BY <1>1 DEF At, ToSet
  <2> QED
    BY <1>1, <2>1, Removal DEF WaitInv, Types, Without
<1>2. CASE p \notin ToSet(queue)
  BY <1>2 DEF WaitInv, Types, Without
<1> QED
  BY <1>1, <1>2

\* And who joins it joins it once.
LEMMA Joins ==
  ASSUME WaitInv, NEW p \in Procs, p \notin ToSet(queue)
  PROVE  /\ Append(queue, p) \in Seq(Procs) /\ Distinct(Append(queue, p))
         /\ ToSet(Append(queue, p)) = ToSet(queue) \cup {p}
<1> DEFINE n == Len(queue)
           line == Append(queue, p)
<1>1. /\ queue \in Seq(Procs) /\ n \in Nat /\ DOMAIN queue = 1..n
      /\ \A i \in 1..n : queue[i] # p
  BY DEF WaitInv, Types, ToSet
<1>2. /\ line \in Seq(Procs) /\ DOMAIN line = 1..n + 1 /\ line[n + 1] = p
      /\ \A i \in 1..n : line[i] = queue[i]
  BY <1>1
<1> HIDE DEF line, n
<1>3. Distinct(line)
  BY <1>1, <1>2 DEF WaitInv, Distinct
<1>4. ToSet(line) = ToSet(queue) \cup {p}
  BY <1>1, <1>2 DEF ToSet
<1> QED
  BY <1>2, <1>3, <1>4 DEF line

-----------------------------------------------------------------------------
(* The line is sound in every state.                                       *)

LEMMA WaitInit == Init => WaitInv
  BY DEF Init, WaitInv, Types, Distinct, InLine, PCs, Reading

\* A step that leaves the line alone moves nobody who can be woken elsewhere.
LEMMA WaitKeeps ==
  ASSUME WaitInv, NEW p \in Procs, NEW to \in PCs, data_ready' \in {0, 1},
         queue' = queue, interruptible' \subseteq interruptible,
         pc' = [pc EXCEPT ![p] = to],
         p \in interruptible' => to \in {"test", "asleep", "finish", "abort"}
  PROVE  WaitInv'
  BY DEF WaitInv, Types, Distinct, InLine

\* Waking takes one process at most, and it was in the line.
LEMMA WaitWakes ==
  ASSUME WaitInv, WakeOne, NEW p \in Procs, NEW to \in PCs, data_ready' = data_ready,
         pc' = [pc EXCEPT ![p] = to], p \notin interruptible
  PROVE  WaitInv'
<1>1. CASE UNCHANGED waiting
  BY <1>1, WaitKeeps DEF WaitInv, Types, waiting
<1>2. CASE \E q \in Procs : /\ First(q) /\ queue' = Without(q)
                            /\ interruptible' = interruptible \ {q}
  <2>1. PICK q \in Procs : /\ queue' = Without(q)
                           /\ interruptible' = interruptible \ {q}
    BY <1>2
  <2>2. /\ queue' \in Seq(Procs) /\ Distinct(queue')
        /\ ToSet(queue') = ToSet(queue) \ {q}
    BY <2>1, Leaves
  <2>3. Types'
    BY <2>1, <2>2 DEF WaitInv, Types
  <2>4. InLine'
    BY <2>1, <2>2 DEF WaitInv, Types, InLine
  <2> QED
    BY <2>2, <2>3, <2>4 DEF WaitInv
<1> QED
  BY <1>1, <1>2 DEF WakeOne

\* Who leaves by itself can no longer be woken.
LEMMA WaitLeaves ==
  ASSUME WaitInv, NEW p \in Procs, data_ready' = data_ready,
         queue' = Without(p), interruptible' = interruptible \ {p},
         pc' = [pc EXCEPT ![p] = "signal"]
  PROVE  WaitInv'
<1>1. /\ queue' \in Seq(Procs) /\ Distinct(queue')
      /\ ToSet(queue') = ToSet(queue) \ {p}
  BY Leaves
<1>2. Types'
  BY <1>1 DEF WaitInv, Types, PCs, Reading
<1>3. InLine'
  BY <1>1 DEF WaitInv, Types, InLine
<1> QED
  BY <1>1, <1>2, <1>3 DEF WaitInv

LEMMA WaitPrepare ==
  ASSUME WaitInv, NEW p \in Procs, Prepare(p)
  PROVE  WaitInv'
<1>1. /\ queue' \in Seq(Procs) /\ Distinct(queue')
      /\ ToSet(queue') = ToSet(queue) \cup {p}
  <2>1. CASE p \in ToSet(queue)
    BY <2>1 DEF Prepare, WaitInv, Types
  <2>2. CASE p \notin ToSet(queue)
    BY <2>2, Joins DEF Prepare
  <2> QED
    BY <2>1, <2>2
<1>2. Types'
  BY <1>1 DEF Prepare, Goes, WaitInv, Types, PCs, Reading
<1>3. InLine'
  BY <1>1 DEF Prepare, Goes, WaitInv, Types, InLine
<1> QED
  BY <1>1, <1>2, <1>3 DEF WaitInv

LEMMA WaitAbort ==
  ASSUME WaitInv, NEW p \in Procs, Abort(p)
  PROVE  WaitInv'
<1> USE DEF Abort, Goes
<1>1. CASE p \in ToSet(queue)
  BY <1>1, WaitLeaves
<1>2. CASE p \notin ToSet(queue)
  <2>1. p \notin interruptible
    BY <1>2 DEF WaitInv, InLine
  <2> QED
    BY <1>2, <2>1, WaitWakes DEF PCs, Reading
<1> QED
  BY <1>1, <1>2

LEMMA WaitSignal ==
  ASSUME WaitInv, NEW p \in Procs, Signal(p)
  PROVE  WaitInv'
  BY DEF Signal, WaitInv, Types, Distinct, InLine

\* The steps of calls that have nothing to do with the line.
LEMMA WaitOthers ==
  ASSUME WaitInv, NEW p \in Procs,
         \/ Open(p) \/ Close(p) \/ Read(p) \/ Resume(p) \/ Test(p)
         \/ Interrupted(p) \/ NotInterrupted(p) \/ Clear(p) \/ Announce(p)
         \/ \E n \in Lengths : Write(p, n) \/ ReadCopy(p, n)
  PROVE  WaitInv'
<1>1. PICK from, to \in PCs :
        /\ pc[p] = from /\ pc' = [pc EXCEPT ![p] = to]
        /\ from = "test" \/ from \notin {"test", "asleep", "finish", "abort"}
           \/ p \notin interruptible
        /\ from = "test" => to \in {"asleep", "finish", "abort"}
  BY DEF Open, Close, Read, Resume, Test, Interrupted, NotInterrupted, Clear,
         Announce, Write, ReadCopy, Goes, PCs, Reading
<1>2. UNCHANGED waiting /\ data_ready' \in {0, 1}
  BY DEF Open, Close, Read, Resume, Test, Interrupted, NotInterrupted, Clear,
         Announce, Write, ReadCopy, WaitInv, Types
<1>3. p \in interruptible => to \in {"test", "asleep", "finish", "abort"}
  BY <1>1 DEF WaitInv, InLine
<1> QED
  BY <1>1, <1>2, <1>3, WaitKeeps DEF waiting

LEMMA WaitStep == WaitInv /\ [Next]_vars => WaitInv'
<1> SUFFICES ASSUME WaitInv, [Next]_vars PROVE WaitInv'
  OBVIOUS
<1>1. ASSUME NEW p \in Procs, Call(p) \/ Signal(p) \/ Continue(p)
      PROVE  WaitInv'
  <2>1. CASE Finish(p)
    BY <2>1, WaitLeaves DEF Finish, Goes
  <2>2. CASE Wake(p)
    <3>1. p \notin interruptible
      BY <2>2 DEF Wake, Goes, WaitInv, InLine
    <3> QED
      BY <2>2, <3>1, WaitWakes DEF Wake, Goes, PCs
  <2> QED
    BY <1>1, <2>1, <2>2, WaitPrepare, WaitAbort, WaitSignal, WaitOthers DEF Call, Continue
<1>2. CASE UNCHANGED vars
  BY <1>2 DEF vars, waiting, WaitInv, Types, Distinct, InLine
<1> QED
  BY <1>1, <1>2 DEF Next

-----------------------------------------------------------------------------
(* No write goes unnoticed.                                                *)

LEMMA NoticedStep == WaitInv /\ NothingMissed /\ [Next]_vars => NothingMissed'
<1> SUFFICES ASSUME WaitInv, NothingMissed, [Next]_vars, news', data_ready' = 0
             PROVE  \E p \in Procs : pc'[p] = "copy"
  BY DEF NothingMissed
<1> USE DEF WaitInv, Types
<1>1. ASSUME NEW p \in Procs, Call(p) \/ Signal(p) \/ Continue(p)
      PROVE  \E q \in Procs : pc'[q] = "copy"
  <2>1. CASE Clear(p)
    BY <2>1 DEF Clear, Goes
  <2>2. CASE Announce(p) \/ \E n \in Lengths : ReadCopy(p, n)
    BY <2>2 DEF Announce, ReadCopy
  <2>3. CASE /\ ~Clear(p) /\ ~Announce(p)
             /\ ~\E n \in Lengths : ReadCopy(p, n)
    <3>1. news' = news /\ data_ready' = data_ready
      BY <1>1, <2>3 DEF Call, Continue, Open, Close, Read, Write, Signal, Prepare, Test,
           Resume, Finish, Abort, Interrupted, NotInterrupted, Wake, ghosts
    <3>2. PICK q \in Procs : pc[q] = "copy"
      BY <3>1 DEF NothingMissed
    <3>3. pc'[q] = "copy"
      BY <1>1, <2>3, <3>2 DEF Call, Continue, Open, Close, Read, Write, Signal, Prepare,
           Test, Resume, Finish, Abort, Interrupted, NotInterrupted, Wake, Goes
    <3> QED
      BY <3>3
  <2> QED
    BY <2>1, <2>2, <2>3
<1>2. CASE UNCHANGED vars
  BY <1>2 DEF vars, ghosts, NothingMissed
<1> QED
  BY <1>1, <1>2 DEF Next

\* While no read has begun to copy since the last write, data_ready is up or a
\* reader that took it down is about to copy: with any number of processes, a
\* signal at any point and in any interleaving.
THEOREM Noticed == Spec => []NothingMissed
<1>1. Init => NothingMissed
  BY DEF Init, NothingMissed
<1> QED
  BY <1>1, WaitInit, WaitStep, NoticedStep, PTL DEF Spec

-----------------------------------------------------------------------------
(* A wake-up is lost only to a signal.                                     *)

\* A step of p from a place that is not on the way leaves the others on it.
LEMMA OthersStay ==
  ASSUME WaitInv, NEW p \in Procs, NEW q \in Procs, p # q, OnTheWay(q),
         pc'[q] = pc[q], interruptible' \subseteq interruptible \cup {p},
         ToSet(queue') \subseteq ToSet(queue) \cup {p}
  PROVE  OnTheWay(q)'
  BY DEF OnTheWay

\* When somebody sleeps, WakeOne puts somebody on the way.
LEMMA WokenIsOnTheWay ==
  ASSUME WaitInv, WakeOne, NEW p \in Procs, p \notin interruptible,
         NEW to \in PCs, pc' = [pc EXCEPT ![p] = to],
         \E s \in Procs : Asleep(s)
  PROVE  \E q \in Procs : OnTheWay(q)'
<1>1. ToSet(queue) \cap interruptible # {}
  BY DEF WaitInv, InLine, Asleep
<1>2. PICK q \in Procs : /\ q \in interruptible /\ queue' = Without(q)
                         /\ interruptible' = interruptible \ {q}
  BY <1>1 DEF WakeOne, First
<1>3. q \notin ToSet(queue') /\ q \notin interruptible'
  BY <1>2, Leaves
<1>4. pc'[q] \in {"test", "asleep", "finish", "abort"}
  BY <1>2 DEF WaitInv, Types, InLine
<1> QED
  BY <1>3, <1>4 DEF OnTheWay

\* Nobody sleeps after a step who did not before, but by Test.
LEMMA SleptBefore ==
  ASSUME WaitInv, NEW p \in Procs, NEW to \in PCs, to # "asleep",
         pc' = [pc EXCEPT ![p] = to],
         interruptible' \subseteq interruptible \cup {p},
         \E s \in Procs : Asleep(s)'
  PROVE  \E s \in Procs : Asleep(s)
  BY DEF WaitInv, Types, Asleep

\* A step that is on the way, or was not before, and leaves data_ready alone.
LEMMA StaysOnTheWay ==
  ASSUME WaitInv, NoLostWakeup, NEW p \in Procs, NEW to \in PCs, to # "asleep",
         pc' = [pc EXCEPT ![p] = to],
         interruptible' \subseteq interruptible \cup {p},
         ToSet(queue') \subseteq ToSet(queue) \cup {p},
         data_ready' = data_ready, given_up' = given_up,
         OnTheWay(p) => OnTheWay(p)'
  PROVE  NoLostWakeup'
<1> SUFFICES ASSUME data_ready = 1, \E s \in Procs : Asleep(s)', ~given_up
             PROVE  \E q \in Procs : OnTheWay(q)'
  BY DEF NoLostWakeup
<1>1. PICK q \in Procs : OnTheWay(q)
  BY SleptBefore DEF NoLostWakeup
<1>2. CASE q # p
  <2>1. pc'[q] = pc[q]
    BY <1>2 DEF WaitInv, Types
  <2> QED
    BY <1>1, <1>2, <2>1, OthersStay
<1>3. CASE q = p
  BY <1>1, <1>3
<1> QED
  BY <1>2, <1>3

LEMMA WakeUpStep == WaitInv /\ NoLostWakeup /\ [Next]_vars => NoLostWakeup'
<1> SUFFICES ASSUME WaitInv, NoLostWakeup, [Next]_vars PROVE NoLostWakeup'
  OBVIOUS
<1> USE DEF Goes, ghosts
<1>1. ASSUME NEW p \in Procs, Call(p) \/ Signal(p) \/ Continue(p)
      PROVE  NoLostWakeup'
  <2>1. CASE Open(p) \/ Close(p) \/ \E n \in Lengths : Write(p, n)
    <3>1. PICK to \in {"open", "closed", "announce"} : pc' = [pc EXCEPT ![p] = to]
      BY <2>1 DEF Open, Close, Write
    <3>2. ~OnTheWay(p) /\ UNCHANGED <<waiting, data_ready, given_up>>
      BY <2>1 DEF Open, Close, Write, OnTheWay
    <3> QED
      BY <3>1, <3>2, StaysOnTheWay DEF waiting, PCs
  <2>2. CASE Read(p) \/ Prepare(p) \/ Resume(p) \/ Finish(p) \/ NotInterrupted(p)
    <3>1. PICK to \in {"signal", "prepare", "test", "clear"} :
            pc' = [pc EXCEPT ![p] = to]
      BY <2>2 DEF Read, Prepare, Resume, Finish, NotInterrupted
    <3>2. OnTheWay(p)'
      BY <3>1 DEF OnTheWay, WaitInv, Types
    <3>3. /\ interruptible' \subseteq interruptible \cup {p}
          /\ data_ready' = data_ready /\ given_up' = given_up
      BY <2>2 DEF Read, Prepare, Resume, Finish, NotInterrupted, waiting
    <3>4. ToSet(queue') \subseteq ToSet(queue) \cup {p}
      <4>1. CASE Prepare(p)
        BY <4>1, Joins DEF Prepare
      <4>2. CASE Finish(p)
        BY <4>2, Leaves DEF Finish
      <4> QED
        BY <2>2, <4>1, <4>2 DEF Read, Resume, NotInterrupted, waiting
    <3> QED
      BY <3>1, <3>2, <3>3, <3>4, StaysOnTheWay DEF PCs, Reading
  <2>3. CASE Test(p)
    <3>1. CASE data_ready = 1
      <4>1. pc' = [pc EXCEPT ![p] = "finish"] /\ UNCHANGED waiting
        BY <2>3, <3>1 DEF Test
      <4>2. OnTheWay(p)'
        BY <4>1 DEF OnTheWay, WaitInv, Types
      <4> QED
        BY <2>3, <4>1, <4>2, StaysOnTheWay DEF Test, waiting, PCs, Reading
    <3>2. CASE data_ready # 1
      BY <2>3, <3>2 DEF Test, NoLostWakeup
    <3> QED
      BY <3>1, <3>2
  <2>4. CASE Abort(p)
    <3>1. pc' = [pc EXCEPT ![p] = "signal"] /\ pc'[p] = "signal"
      BY <2>4 DEF Abort, WaitInv, Types
    <3> QED
      BY <3>1 DEF NoLostWakeup, OnTheWay
  <2>5. CASE Wake(p)
    <3>1. p \notin interruptible /\ interruptible' \subseteq interruptible
      BY <2>5 DEF Wake, WakeOne, waiting, WaitInv, InLine
    <3>2. pc' = [pc EXCEPT ![p] = "open"] /\ WakeOne
      BY <2>5 DEF Wake
    <3>3. (\E s \in Procs : Asleep(s)') => \E s \in Procs : Asleep(s)
      BY <3>1, <3>2, SleptBefore DEF PCs
    <3> QED
      BY <3>1, <3>2, <3>3, WokenIsOnTheWay DEF NoLostWakeup, PCs
  <2>6. CASE Signal(p)
    <3>1. \A q \in Procs : OnTheWay(q) => OnTheWay(q)'
      BY <2>6 DEF Signal, OnTheWay
    <3>2. \A q \in Procs : Asleep(q)' => Asleep(q)
      BY <2>6 DEF Signal, Asleep
    <3> QED
      BY <2>6, <3>1, <3>2 DEF Signal, NoLostWakeup
  <2>7. CASE Interrupted(p)
    <3>1. data_ready # 0 => given_up'
      BY <2>7, Zenon DEF Interrupted
    <3>2. data_ready' = data_ready
      BY <2>7 DEF Interrupted
    <3> QED
      BY <3>1, <3>2 DEF NoLostWakeup
  <2>8. CASE Clear(p)
    BY <2>8 DEF Clear, NoLostWakeup
  <2>9. CASE \E n \in Lengths : ReadCopy(p, n)
    <3>1. pc' = [pc EXCEPT ![p] = "open"] /\ ~OnTheWay(p)
          /\ UNCHANGED <<waiting, data_ready, given_up>>
      BY <2>9 DEF ReadCopy, OnTheWay
    <3> QED
      BY <3>1, StaysOnTheWay DEF waiting, PCs
  <2>10. CASE Announce(p)
    <3>1. pc'[p] = "wake"
      BY <2>10 DEF Announce, WaitInv, Types
    <3> QED
      BY <3>1 DEF NoLostWakeup, OnTheWay
  <2> QED
    BY <1>1, <2>1, <2>2, <2>3, <2>4, <2>5, <2>6, <2>7, <2>8, <2>9, <2>10 DEF Call, Continue
<1>2. CASE UNCHANGED vars
  BY <1>2 DEF vars, waiting, NoLostWakeup, Asleep, OnTheWay
<1> QED
  BY <1>1, <1>2 DEF Next

\* Nobody sleeps beside data that nobody is on the way to take, unless a reader
\* that was woken for it returned because of a signal.
THEOREM WakeUpsKept == Spec => []NoLostWakeup
<1>1. Init => NoLostWakeup
  BY DEF Init, NoLostWakeup
<1> QED
  BY <1>1, WaitInit, WaitStep, WakeUpStep, PTL DEF Spec

-----------------------------------------------------------------------------
(* No file stands past the end of the ramdisk.                             *)

\* What is left to type when the line is.
Positions == /\ pending \subseteq Procs /\ f_pos \in [Procs -> 0..ramdisk_size]
             /\ news \in BOOLEAN /\ given_up \in BOOLEAN

\* A copy ends where the ramdisk ends or before.
LEMMA CopiesFit ==
  ASSUME NEW p \in Procs, f_pos \in [Procs -> 0..ramdisk_size], NEW lbuf \in Lengths,
         NEW n \in Copied(p, lbuf)
  PROVE  [f_pos EXCEPT ![p] = @ + n] \in [Procs -> 0..ramdisk_size]
<1>1. f_pos[p] \in 0..ramdisk_size /\ ramdisk_size \in Nat /\ lbuf \in Nat
  BY DeviceAssumption
<1>2. n \in Nat /\ n <= ramdisk_size - f_pos[p]
  BY <1>1 DEF Copied
<1> QED
  BY <1>1, <1>2

LEMMA PositionsStep == Positions /\ WaitInv /\ [Next]_vars => Positions'
<1> SUFFICES ASSUME Positions, WaitInv, [Next]_vars PROVE Positions'
  OBVIOUS
<1> USE DEF Positions, ghosts
<1>1. ASSUME NEW p \in Procs, Call(p) \/ Signal(p) \/ Continue(p)
      PROVE  Positions'
  <2>1. CASE Open(p)
    BY <2>1, DeviceAssumption DEF Open
  <2>2. CASE \E n \in Lengths : Write(p, n)
    BY <2>2, CopiesFit DEF Write
  <2>3. CASE \E n \in Lengths : ReadCopy(p, n)
    <3>1. f_pos' \in [Procs -> 0..ramdisk_size]
      BY <2>3, CopiesFit DEF ReadCopy
    <3>2. pending' \subseteq Procs /\ news' \in BOOLEAN /\ given_up' = given_up
      BY <2>3 DEF ReadCopy
    <3> QED
      BY <3>1, <3>2
  <2>4. CASE Signal(p)
    BY <2>4 DEF Signal
  <2>5. CASE Interrupted(p)
    <3>1. given_up' \in BOOLEAN
      BY <2>5, Zenon DEF Interrupted
    <3> QED
      BY <2>5, <3>1 DEF Interrupted
  <2>6. CASE Announce(p)
    BY <2>6 DEF Announce
  <2>7. CASE UNCHANGED <<pending, f_pos, ghosts>>
    BY <2>7
  <2> QED
    BY <1>1, <2>1, <2>2, <2>3, <2>4, <2>5, <2>6, <2>7
       DEF Call, Continue, Close, Read, Prepare, Test, Resume, Finish, Abort,
           NotInterrupted, Clear, Wake
<1>2. CASE UNCHANGED vars
  BY <1>2 DEF vars
<1> QED
  BY <1>1, <1>2 DEF Next

\* Whatever lengths are asked for and whichever copies fail, no file is moved past
\* the end of the ramdisk, the line holds processes, and a process is in one place.
THEOREM TypeCorrect == Spec => []TypeOK
<1>1. Init => Positions
  <2>1. 0 \in 0..ramdisk_size
    BY DeviceAssumption
  <2> QED
    BY <2>1 DEF Init, Positions
<1>2. WaitInv /\ Positions => TypeOK
  BY DEF WaitInv, Types, Positions, TypeOK, PCs
<1> QED
  BY <1>1, <1>2, WaitInit, WaitStep, PositionsStep, PTL DEF Spec
==============================================================================
