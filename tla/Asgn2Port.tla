----------------------------- MODULE Asgn2Port -----------------------------
(***************************************************************************)
(* The producing side of the asgn2 driver: the interrupt handler (top      *)
(* half) that assembles bytes from half bytes read off the gpio pins, the  *)
(* circular buffer it stores them in, and the tasklet (bottom half) that   *)
(* copies them to the list of pages.  A step is one or a few consecutive   *)
(* loads and stores of the C function that no other activity can observe   *)
(* apart.                                                                  *)
(*                                                                         *)
(* Where the code runs.  The handler never runs concurrently with itself,  *)
(* nor does the tasklet.  An interrupt is either Nested (it arrives on the *)
(* CPU the tasklet runs or waits on, so the tasklet stands still until the *)
(* handler returns) or Remote (on another CPU: both advance).  Without SMP *)
(* spin_lock compiles to nothing and every interrupt is nested.            *)
(***************************************************************************)
EXTENDS Integers, Sequences, Folds, Functions

CONSTANTS
  BUFFER_CAPACITY, MAX_SESSIONS, PAGE_SIZE,
  Frames,          \* the physical pages alloc_page can hand out
  NoPage,          \* the value of `curr` when it names no page
  PinLevels,       \* sets of high data pins the handler may find
  SMP,             \* is the kernel built for several CPUs
  Arrivals,        \* which of Nested and Remote can happen
  AllocMayFail,    \* can kmalloc or alloc_page return NULL
  MaxBytes         \* bound: how many bytes the port delivers

Nested == "nested"
Remote == "remote"
DataPins == {7, 17, 22, 24}
Byte == 0..255

ASSUME SizeAssumption == /\ BUFFER_CAPACITY \in Nat \ {0}
                         /\ MAX_SESSIONS \in Nat \ {0}
                         /\ PAGE_SIZE \in Nat \ {0}
ASSUME PinAssumption == PinLevels \subseteq SUBSET DataPins
ASSUME FrameAssumption == NoPage \notin Frames
ASSUME BuildAssumption == /\ SMP \in BOOLEAN
                          /\ AllocMayFail \in BOOLEAN
                          /\ Arrivals \subseteq {Nested, Remote}
                          /\ ~SMP => Arrivals \subseteq {Nested}
ASSUME BoundAssumption == MaxBytes \in Nat

VARIABLES
  toggle,          \* 1: the next interrupt carries the high half byte
  top_full_byte,   \* the byte under assembly
  cbuf,            \* the circular buffer: head, count, buffer
  sessions,        \* the session tracker: head, count, sizes
  write_offset,    \* sessions.write_offset
  lock,            \* "free", or the context that holds the spin lock
  irq,             \* the handler's program counter and locals
  tasklet,         \* the tasklet's program counter, locals, scheduled bit
  mem_list,        \* the linked list of pages, oldest first
  page,            \* the content of every frame
  num_pages, data_size,
  received,        \* ghost: bytes delivered so far (bounded by MaxBytes)
  accepted,        \* ghost: the bytes stored in the buffer, in order
  taken,           \* ghost: the bytes removed from the buffer, in order
  copied,          \* ghost: the bytes written to pages, in order
  ends             \* ghost: Len(accepted) at each end of session

assembly == <<toggle, top_full_byte, received>>
ghosts   == <<accepted, taken, ends>>
store    == <<mem_list, page, num_pages, data_size, write_offset, copied>>
portVars == <<assembly, cbuf, sessions, lock, irq, tasklet, store, ghosts>>

IdleIrq == [pc |-> "idle", at |-> Nested, cbuf_end |-> 0, session_end |-> 0,
            count |-> 0]
IdleTasklet(scheduled) ==
  [pc |-> "idle", sched |-> scheduled, byte |-> 0, begin_offset |-> 0,
   curr |-> NoPage, count |-> 0]

PortInit ==
  /\ toggle = 1 /\ top_full_byte = 0
  /\ cbuf = [head |-> 0, count |-> 0,
             buffer |-> [i \in 0..BUFFER_CAPACITY - 1 |-> 0]]
  /\ sessions = [head |-> 0, count |-> 0,
                 sizes |-> [i \in 0..MAX_SESSIONS - 1 |-> 0]]
  /\ write_offset = 0
  /\ lock = "free"
  /\ irq = IdleIrq /\ tasklet = IdleTasklet(FALSE)
  /\ mem_list = <<>> /\ num_pages = 0 /\ data_size = 0
  /\ page = [f \in Frames |-> [i \in 0..PAGE_SIZE - 1 |-> 0]]
  /\ received = 0
  /\ accepted = <<>> /\ taken = <<>> /\ copied = <<>> /\ ends = <<>>

-----------------------------------------------------------------------------
(* The spin lock and the scheduler.                                        *)

CanLock == SMP => lock = "free"
Acquire(ctx) == lock' = IF SMP THEN ctx ELSE lock
Release == lock' = "free"

TaskletMayRun == irq.pc = "idle" \/ irq.at = Remote

\* C's remainder has the sign of the dividend.
CMod(a, b) == IF a >= 0 THEN a % b ELSE -((-a) % b)

-----------------------------------------------------------------------------
(* The top half.                                                           *)

\* read_half_byte: each data pin that is high sets one bit.
HalfByte(pins) == (IF 7 \in pins THEN 1 ELSE 0) + (IF 17 \in pins THEN 2 ELSE 0)
                + (IF 22 \in pins THEN 4 ELSE 0) + (IF 24 \in pins THEN 8 ELSE 0)

\* An interrupt with the high half byte.
FirstHalf(pins) ==
  /\ irq.pc = "idle" /\ toggle = 1 /\ received < MaxBytes
  /\ toggle' = 0
  /\ top_full_byte' = (HalfByte(pins) * 16) % 256
  /\ UNCHANGED <<received, cbuf, sessions, lock, irq, tasklet, store, ghosts>>

\* Where the next byte goes, and which session it counts for.
ForgetsHead == cbuf.count % BUFFER_CAPACITY           \* a mutant of CbufEnd
CbufEnd == (cbuf.head + cbuf.count) % BUFFER_CAPACITY
SessionEnd == CMod(sessions.head + sessions.count, MAX_SESSIONS)

\* An interrupt with the low half byte, up to spin_lock: both indices are
\* computed here, before the lock is held.
SecondHalf(pins, at) ==
  /\ irq.pc = "idle" /\ toggle = 0
  /\ toggle' = 1
  /\ top_full_byte' = top_full_byte + HalfByte(pins)
  /\ received' = received + 1
  /\ irq' = [irq EXCEPT
       !.pc = "lock", !.at = at,
       !.cbuf_end = CbufEnd, !.session_end = SessionEnd]
  /\ UNCHANGED <<cbuf, sessions, lock, tasklet, store, ghosts>>

IrqLock ==
  /\ irq.pc = "lock" /\ CanLock
  /\ Acquire("irq")
  /\ irq' = [irq EXCEPT !.pc = "body"]
  /\ UNCHANGED <<assembly, cbuf, sessions, tasklet, store, ghosts>>

\* A NUL ends the session: sessions.count++ is a load ...
IrqNul ==
  /\ irq.pc = "body" /\ top_full_byte = 0
  /\ irq' = [irq EXCEPT !.pc = "count", !.count = sessions.count]
  /\ UNCHANGED <<assembly, cbuf, sessions, lock, tasklet, store, ghosts>>

\* ... and a store.  (The mutant loses the increment.)
IrqCountLost ==
  /\ irq.pc = "count"
  /\ ends' = Append(ends, Len(accepted))
  /\ irq' = [irq EXCEPT !.pc = "unlock"]
  /\ UNCHANGED <<assembly, cbuf, sessions, lock, tasklet, store, accepted, taken>>
IrqCount ==
  /\ irq.pc = "count"
  /\ sessions' = [sessions EXCEPT !.count = irq.count + 1]
  /\ ends' = Append(ends, Len(accepted))
  /\ irq' = [irq EXCEPT !.pc = "unlock"]
  /\ UNCHANGED <<assembly, cbuf, lock, tasklet, store, accepted, taken>>

FullTooLate == cbuf.count > BUFFER_CAPACITY          \* a mutant of Full
Full == cbuf.count >= BUFFER_CAPACITY

\* The buffer is full: return at once, lock held, tasklet not scheduled.
\* (The mutant counts the byte for its session before it finds the buffer full.)
IrqDropCounted ==
  /\ irq.pc = "body" /\ top_full_byte # 0
  /\ Full
  /\ sessions' = [sessions EXCEPT
       !.sizes[irq.session_end] = sessions.sizes[irq.session_end] + 1]
  /\ irq' = IdleIrq
  /\ UNCHANGED <<assembly, cbuf, lock, tasklet, store, ghosts>>
IrqDrop ==
  /\ irq.pc = "body" /\ top_full_byte # 0
  /\ Full
  /\ irq' = IdleIrq
  /\ UNCHANGED <<assembly, cbuf, sessions, lock, tasklet, store, ghosts>>

IrqStore ==
  /\ irq.pc = "body" /\ top_full_byte # 0
  /\ ~Full
  /\ cbuf' = [cbuf EXCEPT !.buffer[irq.cbuf_end] = top_full_byte,
                          !.count = cbuf.count + 1]
  /\ sessions' = [sessions EXCEPT
       !.sizes[irq.session_end] = sessions.sizes[irq.session_end] + 1]
  /\ accepted' = Append(accepted, top_full_byte)
  /\ irq' = [irq EXCEPT !.pc = "unlock"]
  /\ UNCHANGED <<assembly, lock, tasklet, store, taken, ends>>

\* spin_unlock, tasklet_schedule, return.  (The mutant takes a running tasklet
\* for one that will see the byte.)
IrqUnlockUnlessRunning ==
  /\ irq.pc = "unlock"
  /\ Release
  /\ tasklet' = [tasklet EXCEPT !.sched = @ \/ tasklet.pc = "idle"]
  /\ irq' = IdleIrq
  /\ UNCHANGED <<assembly, cbuf, sessions, store, ghosts>>
IrqUnlock ==
  /\ irq.pc = "unlock"
  /\ Release
  /\ tasklet' = [tasklet EXCEPT !.sched = TRUE]
  /\ irq' = IdleIrq
  /\ UNCHANGED <<assembly, cbuf, sessions, store, ghosts>>

-----------------------------------------------------------------------------
(* The bottom half.                                                        *)

\* The softirq picks the tasklet: its scheduled bit is cleared first, so an
\* interrupt during the run schedules another run.
TaskletStart ==
  /\ TaskletMayRun /\ tasklet.pc = "idle" /\ tasklet.sched
  /\ tasklet' = [tasklet EXCEPT !.pc = "lock", !.sched = FALSE]
  /\ UNCHANGED <<assembly, cbuf, sessions, lock, irq, store, ghosts>>

\* (A mutant: the tasklet forgets the lock.)
TaskletNoLock ==
  /\ TaskletMayRun /\ tasklet.pc = "lock"
  /\ tasklet' = [tasklet EXCEPT !.pc = "test"]
  /\ UNCHANGED <<assembly, cbuf, sessions, lock, irq, store, ghosts>>
TaskletLock ==
  /\ TaskletMayRun /\ tasklet.pc = "lock" /\ CanLock
  /\ Acquire("tasklet")
  /\ tasklet' = [tasklet EXCEPT !.pc = "test"]
  /\ UNCHANGED <<assembly, cbuf, sessions, irq, store, ghosts>>

\* while (cbuf.count != 0)
TaskletTest ==
  /\ TaskletMayRun /\ tasklet.pc = "test"
  /\ tasklet' = [tasklet EXCEPT
       !.pc = IF cbuf.count # 0 THEN "take" ELSE "unlock",
       !.count = cbuf.count]
  /\ UNCHANGED <<assembly, cbuf, sessions, lock, irq, store, ghosts>>

\* Read the byte and advance head.  (The mutant advances first.)
TaskletTakeNext ==
  /\ TaskletMayRun /\ tasklet.pc = "take"
  /\ cbuf' = [cbuf EXCEPT !.head = (cbuf.head + 1) % BUFFER_CAPACITY]
  /\ taken' = Append(taken, cbuf'.buffer[cbuf'.head])
  /\ tasklet' = [tasklet EXCEPT !.pc = "dec", !.byte = cbuf'.buffer[cbuf'.head]]
  /\ UNCHANGED <<assembly, sessions, lock, irq, store, accepted, ends>>
TaskletTake ==
  /\ TaskletMayRun /\ tasklet.pc = "take"
  /\ cbuf' = [cbuf EXCEPT !.head = (cbuf.head + 1) % BUFFER_CAPACITY]
  /\ taken' = Append(taken, cbuf.buffer[cbuf.head])
  /\ tasklet' = [tasklet EXCEPT !.pc = "dec", !.byte = cbuf.buffer[cbuf.head]]
  /\ UNCHANGED <<assembly, sessions, lock, irq, store, accepted, ends>>

\* cbuf.count--: the compiler may reuse the value the loop test loaded or
\* load it again.  Then the page to write to is chosen: the first of the
\* list, unless a new one is due.
TaskletDec ==
  /\ TaskletMayRun /\ tasklet.pc = "dec"
  /\ \E loaded \in {tasklet.count, cbuf.count} :
       cbuf' = [cbuf EXCEPT !.count = loaded - 1]
  /\ tasklet' = [tasklet EXCEPT
       !.pc = IF write_offset = 0 THEN "alloc" ELSE "store",
       !.begin_offset = write_offset,
       !.curr = IF write_offset = 0 \/ mem_list = <<>> THEN NoPage
                                                       ELSE Head(mem_list),
       !.count = 0]
  /\ UNCHANGED <<assembly, sessions, lock, irq, store, ghosts>>

\* kmalloc and alloc_page succeed; the page keeps whatever it contained.
TaskletAlloc(f) ==
  /\ TaskletMayRun /\ tasklet.pc = "alloc"
  /\ \A i \in DOMAIN mem_list : mem_list[i] # f
  /\ mem_list' = Append(mem_list, f)
  /\ num_pages' = num_pages + 1
  /\ tasklet' = [tasklet EXCEPT !.pc = "store", !.curr = f]
  /\ UNCHANGED <<assembly, cbuf, sessions, lock, irq, page, data_size,
                 write_offset, copied, ghosts>>

\* One of them fails: return with the lock held; the byte is lost.
TaskletAllocFail ==
  /\ TaskletMayRun /\ tasklet.pc = "alloc" /\ AllocMayFail
  /\ tasklet' = IdleTasklet(tasklet.sched)
  /\ UNCHANGED <<assembly, cbuf, sessions, lock, irq, store, ghosts>>

\* memcpy to the page, data_size, write_offset; back to the loop test.  (The
\* mutant moves the offset before it copies.)
TaskletStoreAfter ==
  /\ TaskletMayRun /\ tasklet.pc = "store" /\ tasklet.curr # NoPage
  /\ write_offset' = (write_offset + 1) % PAGE_SIZE
  /\ page' = [page EXCEPT ![tasklet.curr][write_offset'] = tasklet.byte]
  /\ data_size' = data_size + 1
  /\ copied' = Append(copied, tasklet.byte)
  /\ tasklet' = [IdleTasklet(tasklet.sched) EXCEPT !.pc = "test"]
  /\ UNCHANGED <<assembly, cbuf, sessions, lock, irq, mem_list, num_pages,
                 ghosts>>
TaskletStore ==
  /\ TaskletMayRun /\ tasklet.pc = "store" /\ tasklet.curr # NoPage
  /\ page' = [page EXCEPT ![tasklet.curr][tasklet.begin_offset] = tasklet.byte]
  /\ data_size' = data_size + 1
  /\ write_offset' = (write_offset + 1) % PAGE_SIZE
  /\ copied' = Append(copied, tasklet.byte)
  /\ tasklet' = [IdleTasklet(tasklet.sched) EXCEPT !.pc = "test"]
  /\ UNCHANGED <<assembly, cbuf, sessions, lock, irq, mem_list, num_pages,
                 ghosts>>

TaskletUnlock ==
  /\ TaskletMayRun /\ tasklet.pc = "unlock"
  /\ Release
  /\ tasklet' = [tasklet EXCEPT !.pc = "wake"]
  /\ UNCHANGED <<assembly, cbuf, sessions, irq, store, ghosts>>

\* wake_up_interruptible; the readers are modelled in Asgn2.  (The mutant clears
\* the scheduled bit at the end of the run.)
TaskletWakeClears ==
  /\ TaskletMayRun /\ tasklet.pc = "wake"
  /\ tasklet' = IdleTasklet(FALSE)
  /\ UNCHANGED <<assembly, cbuf, sessions, lock, irq, store, ghosts>>
TaskletWake ==
  /\ TaskletMayRun /\ tasklet.pc = "wake"
  /\ tasklet' = IdleTasklet(tasklet.sched)
  /\ UNCHANGED <<assembly, cbuf, sessions, lock, irq, store, ghosts>>

-----------------------------------------------------------------------------

IrqArrives == \E pins \in PinLevels :
                FirstHalf(pins) \/ \E at \in Arrivals : SecondHalf(pins, at)
IrqContinues == \/ IrqLock \/ IrqNul \/ IrqCount
                \/ IrqDrop \/ IrqStore \/ IrqUnlock
TaskletStep == \/ TaskletStart \/ TaskletLock \/ TaskletTest \/ TaskletTake
               \/ TaskletDec \/ (\E f \in Frames : TaskletAlloc(f))
               \/ TaskletAllocFail \/ TaskletStore
               \/ TaskletUnlock \/ TaskletWake

PortNext == IrqArrives \/ IrqContinues \/ TaskletStep

PortSpec == PortInit /\ [][PortNext]_portVars

\* A handler that can advance is not stopped by anything, and a scheduled
\* softirq runs; interrupts themselves need not arrive.
FairPortSpec == PortSpec /\ WF_portVars(IrqContinues) /\ WF_portVars(TaskletStep)

-----------------------------------------------------------------------------
(* Type correctness.                                                       *)

IrqPc == {"idle", "lock", "body", "count", "unlock"}
TaskletPc == {"idle", "lock", "test", "take", "dec", "alloc", "store",
              "unlock", "wake"}

AssemblyType == /\ toggle \in {0, 1} /\ top_full_byte \in Byte
                /\ toggle = 0 => top_full_byte <= 240
                /\ received \in Nat
RingType == cbuf \in [head : 0..BUFFER_CAPACITY - 1, count : 0..BUFFER_CAPACITY,
                      buffer : [0..BUFFER_CAPACITY - 1 -> Byte]]
SessionType == sessions \in [head : 0..MAX_SESSIONS - 1, count : Nat,
                             sizes : [0..MAX_SESSIONS - 1 -> Nat]]
IrqType == irq \in [pc : IrqPc, at : {Nested, Remote},
                    cbuf_end : 0..BUFFER_CAPACITY - 1,
                    session_end : 0..MAX_SESSIONS - 1, count : Nat]
TaskletType ==
  /\ tasklet \in [pc : TaskletPc, sched : BOOLEAN, byte : Byte,
                  begin_offset : 0..PAGE_SIZE - 1, curr : Frames \cup {NoPage},
                  count : 0..BUFFER_CAPACITY]
  /\ tasklet.pc = "store" => tasklet.curr # NoPage
StoreType == /\ mem_list \in Seq(Frames) /\ num_pages \in Nat
             /\ page \in [Frames -> [0..PAGE_SIZE - 1 -> Byte]]
             /\ data_size \in Nat /\ write_offset \in 0..PAGE_SIZE - 1
GhostType == /\ accepted \in Seq(Byte) /\ taken \in Seq(Byte)
             /\ copied \in Seq(Byte) /\ ends \in Seq(Nat)

\* Every variable has its type; the two array indices stay inside the arrays
\* and the count inside the capacity (asgn.c:71-75), and a byte is only
\* written through a page that exists (asgn.c:146).
TypeOK == /\ AssemblyType /\ RingType /\ SessionType
          /\ lock \in {"free", "irq", "tasklet"}
          /\ IrqType /\ TaskletType /\ StoreType /\ GhostType

-----------------------------------------------------------------------------
(* What the two halves must keep true together.                            *)

IrqCritical == irq.pc \in {"body", "count", "unlock"}
TaskletCritical == tasklet.pc \in {"test", "take", "dec", "alloc", "store", "unlock"}

\* On a kernel for several CPUs the handler and the tasklet are never both
\* between their spin_lock and spin_unlock (asgn.c:116-152, 182-199), even
\* after an early return that leaves the lock held.
MutualExclusion == SMP => ~(IrqCritical /\ TaskletCritical)

\* How many bytes are still waiting: between the advance of head and the
\* decrement of count (asgn.c:121-122) count is one too high.
RingCount == IF tasklet.pc = "dec" THEN cbuf.count - 1 ELSE cbuf.count
Waiting == [i \in 1..RingCount |->
              cbuf.buffer[(cbuf.head + i - 1) % BUFFER_CAPACITY]]

\* The circular buffer is a first-in first-out queue: what the handler stored
\* is what the tasklet removed followed by what waits in the buffer
\* (asgn.c:120-122, 167, 195-196).
FifoOrder == accepted = taken \o Waiting

\* No byte is lost or counted twice, whatever its place in the buffer: the
\* two read-modify-writes of cbuf.count (asgn.c:122, 196) never overlap.
BytesCounted == Len(accepted) = Len(taken) + RingCount

\* The byte the tasklet has removed and not yet written, or has lost by
\* returning from a failed allocation with the lock held.
InHand == IF \/ tasklet.pc \in {"dec", "alloc", "store"}
             \/ lock = "tasklet" /\ tasklet.pc \in {"idle", "lock"}
          THEN 1 ELSE 0

\* The sizes the handler promises to readers (asgn.c:197) add up to the data
\* the tasklet has stored (asgn.c:148) and the bytes on their way.
SizesMatchData ==
  FoldFunction(+, 0, sessions.sizes) = data_size + RingCount + InHand

\* While the table has not wrapped, each closed session's size is the number
\* of bytes accepted between its delimiters; bytes dropped when the buffer is
\* full are in no session (asgn.c:168, 184-198).
SessionFraming ==
  Len(ends) < MAX_SESSIONS =>
    \A k \in 1..Len(ends) :
      sessions.sizes[k - 1] = ends[k] - (IF k = 1 THEN 0 ELSE ends[k - 1])

\* As long as one page holds everything, byte i accepted from the port ends up
\* as byte i of that page (asgn.c:119-149 with 164-206).
StoredInOrder ==
  Len(copied) <= PAGE_SIZE =>
    \A i \in 1..Len(copied) : page[Head(mem_list)][i - 1] = accepted[i]

\* A byte in the buffer always has somebody who will come for it: the tasklet
\* is scheduled or under way, or the handler is about to schedule it.  The
\* drop path schedules nothing (asgn.c:189-192) and the tasklet may have
\* found the buffer empty just before the byte came (asgn.c:119).
NoStrandedByte ==
  cbuf.count # 0 => \/ tasklet.sched
                    \/ tasklet.pc \notin {"idle", "wake"}
                    \/ irq.pc = "unlock"

\* "While something in cbuf, copy to page list" (asgn.c:118).
EventuallyDrained == cbuf.count # 0 ~> cbuf.count = 0

\* The buffer implements the bounded queue.
Fifo == INSTANCE BoundedFifo WITH Capacity <- BUFFER_CAPACITY, Bytes <- Byte,
                                  queue <- Waiting, out <- taken
ImplementsFifo == Fifo!FifoSpec
=============================================================================
