------------------------------ MODULE WaitEvent ------------------------------
(***************************************************************************)
(* The character device of lab03/wait: a read sleeps until a write has     *)
(* raised data_ready, and each write wakes one sleeper.  The wait queue is *)
(* the kernel's, modelled as wait_event_interruptible_exclusive and        *)
(* wake_up_interruptible use it.  Processes interleave everywhere.  What   *)
(* the ramdisk contains is left out; where a file stands in it is not.     *)
(***************************************************************************)
EXTENDS Integers, Sequences, SequencesExt

CONSTANTS
  Procs,           \* the processes; each opens the device once at a time
  ramdisk_size,
  Lengths,         \* how many bytes they read and write
  Signals,         \* can a signal come to a reader
  CopyMayFail      \* can a user buffer turn out to be invalid

ASSUME DeviceAssumption ==
  /\ ramdisk_size \in Nat /\ Lengths \subseteq Nat
  /\ {Signals, CopyMayFail} \subseteq BOOLEAN

VARIABLES
  data_ready,
  queue,           \* wq: the exclusive waiters, first come first woken
  interruptible,   \* who is in the state TASK_INTERRUPTIBLE
  pending,         \* who has a signal pending
  pc, f_pos,       \* each process: where it is, where its file stands
  news,            \* ghost: no read has begun to copy since the last write
  given_up         \* ghost: after it, a reader left data_ready as it found it

vars == <<data_ready, queue, interruptible, pending, pc, f_pos, news, given_up>>
waiting == <<queue, interruptible>>
ghosts == <<news, given_up>>

Init == /\ data_ready = 0 /\ queue = <<>> /\ interruptible = {} /\ pending = {}
        /\ pc = [p \in Procs |-> "closed"] /\ f_pos = [p \in Procs |-> 0]
        /\ news = FALSE /\ given_up = FALSE

Goes(p, from, to) == pc[p] = from /\ pc' = [pc EXCEPT ![p] = to]

Open(p) == /\ Goes(p, "closed", "open")
           /\ f_pos' = [f_pos EXCEPT ![p] = 0]
           /\ UNCHANGED <<data_ready, waiting, pending, ghosts>>

Close(p) == /\ Goes(p, "open", "closed")
            /\ UNCHANGED <<data_ready, waiting, pending, f_pos, ghosts>>

-----------------------------------------------------------------------------
(* The kernel's wait queue.                                                *)

\* prepare_to_wait_exclusive: get in line unless there already, and be asleep
\* for whoever wakes.
Prepare(p) ==
  /\ Goes(p, "prepare", "test")
  /\ queue' = IF p \in ToSet(queue) THEN queue ELSE Append(queue, p)
  /\ interruptible' = interruptible \cup {p}
  /\ UNCHANGED <<data_ready, pending, f_pos, ghosts>>

\* The condition is tested again.  If it is false, wait, or with a signal
\* pending stop waiting.
Test(p) ==
  /\ Goes(p, "test", IF data_ready # 0 THEN "finish"
                     ELSE IF p \in pending THEN "abort" ELSE "asleep")
  /\ UNCHANGED <<data_ready, waiting, pending, f_pos, ghosts>>

\* schedule() returns to a process that was made runnable.
Resume(p) ==
  /\ p \notin interruptible
  /\ Goes(p, "asleep", "prepare")
  /\ UNCHANGED <<data_ready, waiting, pending, f_pos, ghosts>>

At(p) == CHOOSE i \in DOMAIN queue : queue[i] = p
Without(p) == IF p \in ToSet(queue) THEN RemoveAt(queue, At(p)) ELSE queue

\* finish_wait.
Finish(p) ==
  /\ Goes(p, "finish", "signal")
  /\ queue' = Without(p) /\ interruptible' = interruptible \ {p}
  /\ UNCHANGED <<data_ready, pending, f_pos, ghosts>>

\* Wake the first in line that can be woken, and take it out of the line.
First(p) == /\ p \in ToSet(queue) \cap interruptible
            /\ \A i \in 1..At(p) - 1 : queue[i] \notin interruptible
WakeOne == \/ /\ ToSet(queue) \cap interruptible = {}
              /\ UNCHANGED waiting
           \/ \E p \in Procs : /\ First(p)
                               /\ queue' = Without(p)
                               /\ interruptible' = interruptible \ {p}

\* abort_exclusive_wait: whoever was woken and does not want it wakes the next.
Abort(p) ==
  /\ Goes(p, "abort", "signal")
  /\ IF p \in ToSet(queue)
     THEN queue' = Without(p) /\ interruptible' = interruptible \ {p}
     ELSE WakeOne
  /\ UNCHANGED <<data_ready, pending, f_pos, ghosts>>

\* A signal comes to a process in a read.
Signal(p) ==
  /\ Signals /\ pc[p] \notin {"closed", "open", "announce", "wake"}
  /\ p \notin pending
  /\ pending' = pending \cup {p} /\ interruptible' = interruptible \ {p}
  /\ UNCHANGED <<data_ready, queue, pc, f_pos, ghosts>>

-----------------------------------------------------------------------------
(* read.                                                                   *)

\* How many bytes are copied: up to the end of the ramdisk, or fewer when the
\* user buffer is invalid.
Copied(p, lbuf) ==
  LET maxbytes == ramdisk_size - f_pos[p]
      bytes_to_do == IF maxbytes > lbuf THEN lbuf ELSE maxbytes
  IN  {n \in 0..bytes_to_do : CopyMayFail \/ n = bytes_to_do}

\* Without data_ready, wait.
Read(p) ==
  /\ Goes(p, "open", IF data_ready # 0 THEN "signal" ELSE "prepare")
  /\ UNCHANGED <<data_ready, waiting, pending, f_pos, ghosts>>

\* With a signal pending, return; data_ready stays.  (The mutant has cleared it.)
InterruptedClears(p) ==
  /\ p \in pending
  /\ Goes(p, "signal", "open")
  /\ pending' = pending \ {p}
  /\ data_ready' = 0
  /\ given_up' = (given_up \/ data_ready # 0)
  /\ UNCHANGED <<waiting, f_pos, news>>
Interrupted(p) ==
  /\ p \in pending
  /\ Goes(p, "signal", "open")
  /\ pending' = pending \ {p}
  /\ given_up' = (given_up \/ data_ready # 0)
  /\ UNCHANGED <<data_ready, waiting, f_pos, news>>
NotInterrupted(p) ==
  /\ p \notin pending
  /\ Goes(p, "signal", "clear")
  /\ UNCHANGED <<data_ready, waiting, pending, f_pos, ghosts>>

Clear(p) ==
  /\ Goes(p, "clear", "copy")
  /\ data_ready' = 0
  /\ UNCHANGED <<waiting, pending, f_pos, ghosts>>

ReadCopy(p, lbuf) ==
  /\ Goes(p, "copy", "open")
  /\ \E n \in Copied(p, lbuf) : f_pos' = [f_pos EXCEPT ![p] = @ + n]
  /\ pending' = pending \ {p}
  /\ news' = FALSE
  /\ UNCHANGED <<data_ready, waiting, given_up>>

-----------------------------------------------------------------------------
(* write.  It announces data even when it found no room for any.           *)

\* (The mutant does not stop at the end of the ramdisk.)
WritePastEnd(p, lbuf) ==
  /\ Goes(p, "open", "announce")
  /\ f_pos' = [f_pos EXCEPT ![p] = @ + lbuf]
  /\ UNCHANGED <<data_ready, waiting, pending, ghosts>>
Write(p, lbuf) ==
  /\ Goes(p, "open", "announce")
  /\ \E n \in Copied(p, lbuf) : f_pos' = [f_pos EXCEPT ![p] = @ + n]
  /\ UNCHANGED <<data_ready, waiting, pending, ghosts>>

\* (The mutant wakes nobody when data_ready was raised already.)
AnnounceOnce(p) ==
  /\ Goes(p, "announce", IF data_ready = 0 THEN "wake" ELSE "open")
  /\ data_ready' = 1 /\ news' = TRUE /\ given_up' = FALSE
  /\ UNCHANGED <<waiting, pending, f_pos>>
Announce(p) ==
  /\ Goes(p, "announce", "wake")
  /\ data_ready' = 1 /\ news' = TRUE /\ given_up' = FALSE
  /\ UNCHANGED <<waiting, pending, f_pos>>

Wake(p) ==
  /\ Goes(p, "wake", "open")
  /\ WakeOne
  /\ UNCHANGED <<data_ready, pending, f_pos, ghosts>>

-----------------------------------------------------------------------------

\* What a process in a call does next.
Continue(p) ==
  \/ Prepare(p) \/ Test(p) \/ Resume(p) \/ Finish(p) \/ Abort(p)
  \/ Interrupted(p) \/ NotInterrupted(p) \/ Clear(p)
  \/ (\E n \in Lengths : ReadCopy(p, n)) \/ Announce(p) \/ Wake(p)
Call(p) == Open(p) \/ Close(p) \/ Read(p) \/ \E n \in Lengths : Write(p, n)

Next == \E p \in Procs : Call(p) \/ Signal(p) \/ Continue(p)

Spec == Init /\ [][Next]_vars

\* A call that was begun goes on; nobody has to begin one.
FairSpec == Spec /\ \A p \in Procs : WF_vars(Continue(p))

-----------------------------------------------------------------------------
(* Properties.                                                             *)

Reading == {"prepare", "test", "asleep", "finish", "abort", "signal", "clear", "copy"}

\* Types; no file stands past the end of the ramdisk (lab_miscdev.h:70, 87).
TypeOK ==
  /\ data_ready \in {0, 1} /\ queue \in Seq(Procs)
  /\ interruptible \subseteq Procs /\ pending \subseteq Procs
  /\ pc \in [Procs -> Reading \cup {"closed", "open", "announce", "wake"}]
  /\ f_pos \in [Procs -> 0..ramdisk_size]
  /\ {news, given_up} \subseteq BOOLEAN

\* No write goes unnoticed: while no read has begun since it, data_ready is up or
\* a reader that took it down is about to copy (wait_event.c:74-75, 85).
NothingMissed ==
  news /\ data_ready = 0 => \E p \in Procs : pc[p] = "copy"

Asleep(p) == pc[p] = "asleep" /\ p \in interruptible

\* Somebody will wake a sleeper or take the data: a writer, one that was woken or
\* has not gone to sleep, one that found data_ready up.
OnTheWay(p) ==
  \/ pc[p] \in {"wake", "prepare", "test", "finish", "signal", "clear"}
  \/ pc[p] = "asleep" /\ p \notin interruptible
  \/ pc[p] = "abort" /\ p \notin ToSet(queue)

\* "wait_event(), 1 sleeper wakes up": nobody sleeps beside data that nobody is
\* on the way to take, unless a reader left it there for a signal
\* (wait_event.c:20, 69-74, 85-86).
NoLostWakeup ==
  data_ready = 1 /\ (\E p \in Procs : Asleep(p)) =>
    given_up \/ \E p \in Procs : OnTheWay(p)

\* So while someone sleeps the data is taken some day (wait_event.c:31).
DataTaken ==
  data_ready = 1 /\ (\E p \in Procs : Asleep(p)) ~> data_ready = 0 \/ given_up
=============================================================================
