-------------------------- MODULE Asgn2PortProofs --------------------------
(***************************************************************************)
(* Proofs about Asgn2Port, for every size of the buffer, of the session    *)
(* table and of a page, every set of frames and any number of bytes.       *)
(***************************************************************************)
EXTENDS Asgn2Port, TLAPS, FiniteSetTheorems, WellFoundedInduction

-----------------------------------------------------------------------------
(* Arithmetic of the ring.                                                 *)

\* A remainder is an index of the array.
LEMMA ModInRange ==
  ASSUME NEW a \in Int, NEW n \in Nat \ {0}
  PROVE  a % n \in 0..n - 1
  OBVIOUS

\* One turn at most: the remainder is the number itself or one turn less.
OneTurn(a, n) == IF a < n THEN a ELSE a - n

LEMMA ModOneTurn ==
  ASSUME NEW n \in Nat \ {0}, NEW a \in 0..2 * n - 1
  PROVE  a % n = OneTurn(a, n)
  BY DEF OneTurn

\* The session index the handler computes is inside the table while the count
\* is not negative (asgn.c:168).
LEMMA CModInRange ==
  ASSUME NEW a \in Nat, NEW n \in Nat \ {0}
  PROVE  CMod(a, n) \in 0..n - 1
  BY ModInRange DEF CMod

\* A half byte has four bits (gpio.c:102-114).
LEMMA HalfByteRange ==
  ASSUME NEW pins \in PinLevels
  PROVE  HalfByte(pins) \in 0..15
  BY DEF HalfByte

-----------------------------------------------------------------------------
(* Type correctness.                                                       *)

\* The count the loop test loaded is one the decrement may safely lower: the
\* handler can only have raised cbuf.count since (asgn.c:119-122).
LoadedCount == tasklet.pc \in {"take", "dec"} =>
                 1 <= tasklet.count /\ tasklet.count <= cbuf.count

\* There is a first page as soon as the offset is not that of a new page
\* (asgn.c:124-144).
FirstPage == write_offset # 0 \/ tasklet.pc = "store" => mem_list # <<>>

TypeInv == TypeOK /\ LoadedCount /\ FirstPage

LEMMA TypeInit == PortInit => TypeInv
<1> SUFFICES ASSUME PortInit PROVE TypeInv
  OBVIOUS
<1> USE SizeAssumption DEF PortInit
<1>1. RingType /\ SessionType
  BY DEF RingType, SessionType, Byte
<1>2. IrqType /\ TaskletType /\ LoadedCount
  BY DEF IrqType, TaskletType, LoadedCount, IdleIrq, IdleTasklet, IrqPc, TaskletPc,
         Byte, Nested
<1>3. StoreType /\ GhostType /\ AssemblyType /\ FirstPage
  BY DEF StoreType, GhostType, AssemblyType, FirstPage, IdleTasklet, Byte
<1> QED BY <1>1, <1>2, <1>3 DEF TypeInv, TypeOK

\* The handler's steps.
LEMMA TypeIrq ==
  ASSUME TypeInv, IrqArrives \/ IrqContinues
  PROVE  TypeInv'
<1> USE DEF TypeInv, TypeOK, assembly, store, ghosts
<1>1. ASSUME NEW pins \in PinLevels, FirstHalf(pins)
      PROVE  TypeInv'
  <2>1. AssemblyType'
    <3>1. HalfByte(pins) \in 0..15
      BY HalfByteRange
    <3> QED BY <1>1, <3>1 DEF FirstHalf, AssemblyType, Byte
  <2> QED BY <1>1, <2>1 DEF FirstHalf, RingType, SessionType, IrqType,
                            TaskletType, StoreType, GhostType, LoadedCount, FirstPage
<1>2. ASSUME NEW pins \in PinLevels, NEW at \in Arrivals, SecondHalf(pins, at)
      PROVE  TypeInv'
  <2>1. AssemblyType'
    <3>1. HalfByte(pins) \in 0..15
      BY HalfByteRange
    <3> QED BY <1>2, <3>1 DEF SecondHalf, AssemblyType, Byte
  <2>2. IrqType'
    <3>1. CbufEnd \in 0..BUFFER_CAPACITY - 1
      BY SizeAssumption DEF CbufEnd, RingType
    <3>2. SessionEnd \in 0..MAX_SESSIONS - 1
      <4>1. sessions.head + sessions.count \in Nat
        BY SizeAssumption DEF SessionType
      <4> QED BY <4>1, SizeAssumption, CModInRange DEF SessionEnd
    <3>3. at \in {Nested, Remote}
      BY BuildAssumption
    <3> QED BY <1>2, <3>1, <3>2, <3>3 DEF SecondHalf, IrqType, IrqPc
  <2> QED BY <1>2, <2>1, <2>2 DEF SecondHalf, RingType, SessionType,
                                  TaskletType, StoreType, GhostType, LoadedCount, FirstPage
<1>3. CASE IrqLock
  <2>1. IrqType' /\ lock' \in {"free", "irq", "tasklet"}
    BY <1>3 DEF IrqLock, IrqType, IrqPc, Acquire
  <2> QED BY <1>3, <2>1 DEF IrqLock, AssemblyType, RingType, SessionType,
                            TaskletType, StoreType, GhostType, LoadedCount, FirstPage
<1>4. CASE IrqNul
  <2>1. IrqType'
    BY <1>4 DEF IrqNul, IrqType, IrqPc, SessionType
  <2> QED BY <1>4, <2>1 DEF IrqNul, AssemblyType, RingType, SessionType,
                            TaskletType, StoreType, GhostType, LoadedCount, FirstPage
<1>5. CASE IrqCount
  <2>1. IrqType' /\ SessionType' /\ GhostType'
    <3>1. IrqType'
      BY <1>5 DEF IrqCount, IrqType, IrqPc
    <3>2. SessionType'
      BY <1>5, SMTT(30) DEF IrqCount, IrqType, SessionType
    <3>3. GhostType'
      <4>1. Len(accepted) \in Nat
        BY DEF GhostType
      <4> QED BY <1>5, <4>1 DEF IrqCount, GhostType
    <3> QED BY <3>1, <3>2, <3>3
  <2> QED BY <1>5, <2>1 DEF IrqCount, AssemblyType, RingType, TaskletType,
                            StoreType, LoadedCount, FirstPage
<1>6. CASE IrqDrop
  <2>1. IrqType'
    BY <1>6, SizeAssumption DEF IrqDrop, IdleIrq, IrqType, IrqPc, Nested
  <2> QED BY <1>6, <2>1 DEF IrqDrop, AssemblyType, RingType, SessionType,
                            TaskletType, StoreType, GhostType, LoadedCount, FirstPage
<1>7. CASE IrqStore
  <2>1. RingType' /\ cbuf'.count = cbuf.count + 1
    <3>1. cbuf' = [cbuf EXCEPT !.buffer[irq.cbuf_end] = top_full_byte,
                               !.count = cbuf.count + 1]
      BY <1>7 DEF IrqStore
    <3>2. cbuf.count + 1 \in 0..BUFFER_CAPACITY
      BY <1>7, SizeAssumption DEF IrqStore, Full, RingType
    <3>3. [cbuf.buffer EXCEPT ![irq.cbuf_end] = top_full_byte]
            \in [0..BUFFER_CAPACITY - 1 -> Byte]
      BY DEF RingType, IrqType, AssemblyType
    <3> QED BY <3>1, <3>2, <3>3 DEF RingType
  <2>2. SessionType'
    <3>1. sessions' = [sessions EXCEPT !.sizes[irq.session_end]
                         = sessions.sizes[irq.session_end] + 1]
      BY <1>7 DEF IrqStore
    <3>2. [sessions.sizes EXCEPT ![irq.session_end]
              = sessions.sizes[irq.session_end] + 1]
            \in [0..MAX_SESSIONS - 1 -> Nat]
      <4>1. /\ sessions.sizes \in [0..MAX_SESSIONS - 1 -> Nat]
            /\ irq.session_end \in 0..MAX_SESSIONS - 1
        BY DEF SessionType, IrqType
      <4>2. sessions.sizes[irq.session_end] \in Nat
        BY <4>1, SizeAssumption
      <4> QED BY <4>1, <4>2
    <3>3. sessions' = [sessions EXCEPT !.sizes =
             [sessions.sizes EXCEPT ![irq.session_end]
                = sessions.sizes[irq.session_end] + 1]]
      BY <3>1
    <3> QED BY <3>2, <3>3 DEF SessionType
  <2>3. IrqType' /\ GhostType'
    <3>1. IrqType'
      BY <1>7 DEF IrqStore, IrqType, IrqPc
    <3>2. GhostType'
      BY <1>7 DEF IrqStore, GhostType, AssemblyType
    <3> QED BY <3>1, <3>2
  <2>4. TaskletType' /\ LoadedCount'
    BY <1>7, <2>1 DEF IrqStore, TaskletType, LoadedCount, RingType
  <2> QED BY <1>7, <2>1, <2>2, <2>3, <2>4 DEF IrqStore, AssemblyType, StoreType, FirstPage
<1>8. CASE IrqUnlock
  <2>1. IrqType' /\ TaskletType' /\ LoadedCount' /\ FirstPage' /\ lock' = "free"
    <3>1. IrqType'
      BY <1>8, SizeAssumption DEF IrqUnlock, IdleIrq, IrqType, IrqPc, Nested
    <3>2. TaskletType' /\ LoadedCount' /\ FirstPage'
      BY <1>8 DEF IrqUnlock, TaskletType, LoadedCount, FirstPage
    <3> QED BY <1>8, <3>1, <3>2 DEF IrqUnlock, Release
  <2> QED BY <1>8, <2>1 DEF IrqUnlock, AssemblyType, RingType, SessionType,
                            StoreType, GhostType
<1> QED BY <1>1, <1>2, <1>3, <1>4, <1>5, <1>6, <1>7, <1>8
        DEF IrqArrives, IrqContinues

\* The tasklet's steps.
LEMMA TypeTasklet ==
  ASSUME TypeInv, TaskletStep
  PROVE  TypeInv'
<1> USE DEF TypeInv, TypeOK, assembly, store, ghosts
<1>1. CASE TaskletStart
  <2>1. TaskletType' /\ LoadedCount'
    BY <1>1 DEF TaskletStart, TaskletType, TaskletPc, LoadedCount
  <2>0. FirstPage'
    BY <1>1 DEF TaskletStart, FirstPage, TaskletType, StoreType
  <2> QED BY <1>1, <2>0, <2>1 DEF TaskletStart, AssemblyType, RingType, SessionType,
                            IrqType, StoreType, GhostType
<1>2. CASE TaskletLock
  <2>1. TaskletType' /\ LoadedCount' /\ lock' \in {"free", "irq", "tasklet"}
    BY <1>2 DEF TaskletLock, TaskletType, TaskletPc, LoadedCount, Acquire
  <2>0. FirstPage'
    BY <1>2 DEF TaskletLock, FirstPage, TaskletType, StoreType
  <2> QED BY <1>2, <2>0, <2>1 DEF TaskletLock, AssemblyType, RingType, SessionType,
                            IrqType, StoreType, GhostType
<1>3. CASE TaskletTest
  <2>1. TaskletType' /\ LoadedCount'
    <3>1. cbuf.count \in 0..BUFFER_CAPACITY
      BY DEF RingType
    <3>2. tasklet'.count = cbuf.count /\ cbuf' = cbuf
          /\ tasklet'.pc \in {"take", "unlock"}
          /\ (tasklet'.pc = "take" => cbuf.count # 0)
      BY <1>3 DEF TaskletTest, TaskletType
    <3>3. TaskletType'
      BY <1>3, <3>1, <3>2 DEF TaskletTest, TaskletType, TaskletPc
    <3> QED BY <3>1, <3>2, <3>3, SizeAssumption DEF LoadedCount
  <2>0. FirstPage'
    BY <1>3 DEF TaskletTest, FirstPage, TaskletType, StoreType
  <2> QED BY <1>3, <2>0, <2>1 DEF TaskletTest, AssemblyType, RingType, SessionType,
                            IrqType, StoreType, GhostType
<1>4. CASE TaskletTake
  <2>1. RingType' /\ cbuf'.count = cbuf.count
    <3>1. cbuf.head + 1 \in Nat
      BY SizeAssumption DEF RingType
    <3>2. (cbuf.head + 1) % BUFFER_CAPACITY \in 0..BUFFER_CAPACITY - 1
      BY <3>1, SizeAssumption
    <3> QED BY <1>4, <3>2 DEF TaskletTake, RingType
  <2>2. cbuf.buffer[cbuf.head] \in Byte
    BY DEF RingType
  <2>3. TaskletType' /\ LoadedCount' /\ GhostType'
    <3>1. TaskletType'
      BY <1>4, <2>2 DEF TaskletTake, TaskletType, TaskletPc
    <3>2. LoadedCount'
      BY <1>4, <2>1 DEF TaskletTake, TaskletType, LoadedCount
    <3>3. GhostType'
      BY <1>4, <2>2 DEF TaskletTake, GhostType
    <3> QED BY <3>1, <3>2, <3>3
  <2>0. FirstPage'
    BY <1>4 DEF TaskletTake, FirstPage, TaskletType, StoreType
  <2> QED BY <1>4, <2>0, <2>1, <2>3 DEF TaskletTake, AssemblyType, SessionType, IrqType,
                                  StoreType
<1>5. CASE TaskletDec
  <2>1. RingType'
    <3>1. PICK loaded \in {tasklet.count, cbuf.count} :
               cbuf' = [cbuf EXCEPT !.count = loaded - 1]
      BY <1>5 DEF TaskletDec
    <3>2. loaded - 1 \in 0..BUFFER_CAPACITY
      BY <1>5, SizeAssumption DEF TaskletDec, LoadedCount, TaskletType, RingType
    <3> QED BY <3>1, <3>2 DEF RingType
  <2>2. TaskletType' /\ LoadedCount'
    <3>1. mem_list # <<>> => Head(mem_list) \in Frames
      BY DEF StoreType
    <3>2. write_offset # 0 => mem_list # <<>>
      BY DEF FirstPage
    <3>3. CASE write_offset = 0
      <4>1. tasklet' = [tasklet EXCEPT !.pc = "alloc", !.begin_offset = 0,
                                       !.curr = NoPage, !.count = 0]
        BY <1>5, <3>3 DEF TaskletDec
      <4>2. 0 \in 0..PAGE_SIZE - 1 /\ 0 \in 0..BUFFER_CAPACITY
        BY SizeAssumption
      <4>3. TaskletType'
        BY <4>1, <4>2 DEF TaskletType, TaskletPc
      <4> QED BY <4>1, <4>3 DEF TaskletType, LoadedCount
    <3>4. CASE write_offset # 0
      <4>1. tasklet' = [tasklet EXCEPT !.pc = "store", !.begin_offset = write_offset,
                                       !.curr = Head(mem_list), !.count = 0]
        BY <1>5, <3>2, <3>4 DEF TaskletDec
      <4>2. /\ write_offset \in 0..PAGE_SIZE - 1
            /\ Head(mem_list) \in Frames /\ Head(mem_list) # NoPage
        BY <3>1, <3>2, <3>4, FrameAssumption DEF StoreType
      <4>3. 0 \in 0..BUFFER_CAPACITY
        BY SizeAssumption
      <4>4. TaskletType'
        BY <4>1, <4>2, <4>3 DEF TaskletType, TaskletPc
      <4> QED BY <4>1, <4>4 DEF TaskletType, LoadedCount
    <3> QED BY <3>3, <3>4
  <2>0. FirstPage'
    BY <1>5 DEF TaskletDec, FirstPage, TaskletType, StoreType
  <2> QED BY <1>5, <2>0, <2>1, <2>2 DEF TaskletDec, AssemblyType, SessionType, IrqType,
                                  StoreType, GhostType
<1>6. ASSUME NEW f \in Frames, TaskletAlloc(f)
      PROVE  TypeInv'
  <2>1. TaskletType' /\ LoadedCount'
    BY <1>6, FrameAssumption DEF TaskletAlloc, TaskletType, TaskletPc, LoadedCount
  <2>2. StoreType'
    BY <1>6 DEF TaskletAlloc, StoreType
  <2>0. FirstPage'
    BY <1>6 DEF TaskletAlloc, FirstPage, TaskletType, StoreType
  <2> QED BY <1>6, <2>0, <2>1, <2>2 DEF TaskletAlloc, AssemblyType, RingType, SessionType,
                                  IrqType, GhostType
<1>7. CASE TaskletAllocFail
  <2>1. TaskletType' /\ LoadedCount'
    BY <1>7, SizeAssumption DEF TaskletAllocFail, IdleTasklet, TaskletType, TaskletPc,
                                LoadedCount, Byte
  <2>0. FirstPage'
    BY <1>7 DEF TaskletAllocFail, FirstPage, TaskletType, StoreType, IdleTasklet
  <2> QED BY <1>7, <2>0, <2>1 DEF TaskletAllocFail, AssemblyType, RingType, SessionType,
                            IrqType, StoreType, GhostType
<1>8. CASE TaskletStore
  <2>1. TaskletType' /\ LoadedCount'
    BY <1>8, SizeAssumption DEF TaskletStore, IdleTasklet, TaskletType, TaskletPc,
                                LoadedCount, Byte
  <2>2. StoreType'
    <3>1. write_offset + 1 \in Nat
      BY DEF StoreType
    <3>2. (write_offset + 1) % PAGE_SIZE \in 0..PAGE_SIZE - 1
      BY <3>1, SizeAssumption
    <3>3. page' \in [Frames -> [0..PAGE_SIZE - 1 -> Byte]]
      BY <1>8 DEF TaskletStore, StoreType, TaskletType
    <3> QED BY <1>8, <3>2, <3>3 DEF TaskletStore, StoreType
  <2>3. GhostType'
    BY <1>8 DEF TaskletStore, GhostType, TaskletType
  <2>0. FirstPage'
    BY <1>8 DEF TaskletStore, FirstPage, TaskletType, StoreType, IdleTasklet
  <2> QED BY <1>8, <2>0, <2>1, <2>2, <2>3 DEF TaskletStore, AssemblyType, RingType,
                                        SessionType, IrqType
<1>9. CASE TaskletUnlock
  <2>1. TaskletType' /\ LoadedCount' /\ lock' = "free"
    BY <1>9 DEF TaskletUnlock, TaskletType, TaskletPc, LoadedCount, Release
  <2>0. FirstPage'
    BY <1>9 DEF TaskletUnlock, FirstPage, TaskletType, StoreType
  <2> QED BY <1>9, <2>0, <2>1 DEF TaskletUnlock, AssemblyType, RingType, SessionType,
                            IrqType, StoreType, GhostType
<1>10. CASE TaskletWake
  <2>1. TaskletType' /\ LoadedCount'
    BY <1>10, SizeAssumption DEF TaskletWake, IdleTasklet, TaskletType, TaskletPc,
                                 LoadedCount, Byte
  <2>0. FirstPage'
    BY <1>10 DEF TaskletWake, FirstPage, TaskletType, StoreType, IdleTasklet
  <2> QED BY <1>10, <2>0, <2>1 DEF TaskletWake, AssemblyType, RingType, SessionType,
                             IrqType, StoreType, GhostType
<1> QED BY <1>1, <1>2, <1>3, <1>4, <1>5, <1>6, <1>7, <1>8, <1>9, <1>10
        DEF TaskletStep

LEMMA TypeStep == TypeInv /\ [PortNext]_portVars => TypeInv'
<1> SUFFICES ASSUME TypeInv, [PortNext]_portVars
             PROVE  TypeInv'
  OBVIOUS
<1>1. CASE UNCHANGED portVars
  BY <1>1, SMTT(30) DEF TypeInv, TypeOK, AssemblyType, RingType, SessionType, IrqType,
              TaskletType, StoreType, GhostType, LoadedCount, FirstPage, portVars, assembly,
              store, ghosts
<1> QED BY <1>1, TypeIrq, TypeTasklet DEF PortNext

LEMMA TypeAlways == PortSpec => []TypeInv
  BY TypeInit, TypeStep, PTL DEF PortSpec

\* On every kernel, with or without a working lock, the indices stay inside the
\* arrays, the count inside the capacity, and a byte is only written through
\* a page that exists (asgn.c:109-206).
THEOREM TypeCorrect == PortSpec => []TypeOK
<1>1. TypeInv => TypeOK
  BY DEF TypeInv
<1> QED BY <1>1, TypeAlways, PTL
-----------------------------------------------------------------------------
(* Mutual exclusion and the count of waiting bytes, on an SMP kernel.      *)

\* Whoever is between spin_lock and spin_unlock holds the lock.  The converse
\* does not hold: the early returns leave it held by nobody's code.
Holds == /\ IrqCritical => lock = "irq"
         /\ TaskletCritical => lock = "tasklet"

\* Nobody moves the count between the loop test and the decrement.
ExactCount == tasklet.pc \in {"take", "dec"} => tasklet.count = cbuf.count

LockInv == TypeInv /\ (SMP => Holds /\ ExactCount /\ BytesCounted)

LEMMA LockInit == PortInit => LockInv
<1> SUFFICES ASSUME PortInit PROVE LockInv
  OBVIOUS
<1>1. TypeInv
  BY TypeInit
<1>2. Holds /\ ExactCount
  BY DEF PortInit, Holds, ExactCount, IrqCritical, TaskletCritical, IdleIrq, IdleTasklet
<1>3. BytesCounted
  BY DEF PortInit, BytesCounted, RingCount, IdleTasklet
<1> QED BY <1>1, <1>2, <1>3 DEF LockInv

\* A step that leaves alone what the three facts speak of.
LEMMA LockKept ==
  ASSUME SMP, Holds, ExactCount, BytesCounted,
         cbuf' = cbuf, accepted' = accepted, taken' = taken,
         tasklet'.pc = tasklet.pc, tasklet'.count = tasklet.count,
         IrqCritical' => lock' = "irq",
         TaskletCritical => lock' = "tasklet"
  PROVE  Holds' /\ ExactCount' /\ BytesCounted'
  BY DEF Holds, ExactCount, BytesCounted, RingCount, TaskletCritical

LEMMA LockIrq ==
  ASSUME LockInv, SMP, IrqArrives \/ IrqContinues
  PROVE  Holds' /\ ExactCount' /\ BytesCounted'
<1> USE DEF LockInv, TypeInv, TypeOK, assembly, store, ghosts
<1>1. ASSUME NEW pins \in PinLevels, FirstHalf(pins)
      PROVE  Holds' /\ ExactCount' /\ BytesCounted'
  BY <1>1, LockKept DEF FirstHalf, Holds, IrqCritical
<1>2. ASSUME NEW pins \in PinLevels, NEW at \in Arrivals, SecondHalf(pins, at)
      PROVE  Holds' /\ ExactCount' /\ BytesCounted'
  <2>1. ~IrqCritical'
    BY <1>2 DEF SecondHalf, IrqCritical, IrqType
  <2> QED BY <1>2, <2>1, LockKept DEF SecondHalf, Holds
<1>3. CASE IrqLock
  <2>1. lock' = "irq" /\ ~TaskletCritical
    BY <1>3 DEF IrqLock, CanLock, Acquire, Holds
  <2> QED BY <1>3, <2>1, LockKept DEF IrqLock
<1>4. CASE IrqNul
  <2>1. IrqCritical
    BY <1>4 DEF IrqNul, IrqCritical
  <2> QED BY <1>4, <2>1, LockKept DEF IrqNul, Holds
<1>5. CASE IrqCount
  <2>1. IrqCritical
    BY <1>5 DEF IrqCount, IrqCritical
  <2> QED BY <1>5, <2>1, LockKept DEF IrqCount, Holds
<1>6. CASE IrqDrop
  <2>1. IrqCritical /\ ~IrqCritical'
    BY <1>6 DEF IrqDrop, IrqCritical, IdleIrq
  <2> QED BY <1>6, <2>1, LockKept DEF IrqDrop, Holds
<1>7. CASE IrqStore
  <2>1. lock = "irq" /\ ~TaskletCritical /\ IrqCritical
    BY <1>7 DEF IrqStore, IrqCritical, Holds
  <2>2. cbuf'.count = cbuf.count + 1
    BY <1>7 DEF IrqStore, RingType
  <2>3. Len(accepted') = Len(accepted) + 1 /\ Len(accepted) \in Nat /\ Len(taken) \in Nat
    BY <1>7 DEF IrqStore, GhostType
  <2>4. cbuf.count \in Nat
    BY SizeAssumption DEF RingType
  <2>5. BytesCounted'
    BY <1>7, <2>1, <2>2, <2>3, <2>4
       DEF IrqStore, BytesCounted, RingCount, TaskletCritical
  <2> QED BY <1>7, <2>1, <2>5 DEF IrqStore, Holds, ExactCount, TaskletCritical
<1>8. CASE IrqUnlock
  <2>1. IrqCritical /\ ~IrqCritical' /\ ~TaskletCritical
    BY <1>8 DEF IrqUnlock, IrqCritical, IdleIrq, Holds
  <2>2. tasklet'.pc = tasklet.pc /\ tasklet'.count = tasklet.count
    BY <1>8 DEF IrqUnlock, TaskletType
  <2> QED BY <1>8, <2>1, <2>2, LockKept DEF IrqUnlock
<1> QED BY <1>1, <1>2, <1>3, <1>4, <1>5, <1>6, <1>7, <1>8
        DEF IrqArrives, IrqContinues

LEMMA LockTasklet ==
  ASSUME LockInv, SMP, TaskletStep
  PROVE  Holds' /\ ExactCount' /\ BytesCounted'
<1> USE DEF LockInv, TypeInv, TypeOK, assembly, store, ghosts
<1> DEFINE Moves == {"idle", "lock", "test", "alloc", "store", "unlock", "wake"}
\* A step among the places of the tasklet where it is not at the count.
<1>0. ASSUME tasklet.pc \in Moves, tasklet'.pc \in Moves,
             cbuf' = cbuf, accepted' = accepted, taken' = taken, irq' = irq,
             IrqCritical => lock' = "irq",
             TaskletCritical' => lock' = "tasklet"
      PROVE  Holds' /\ ExactCount' /\ BytesCounted'
  BY <1>0 DEF Holds, ExactCount, BytesCounted, RingCount, IrqCritical
<1>1. CASE TaskletStart
  <2>1. tasklet.pc \in Moves /\ tasklet'.pc = "lock"
    BY <1>1 DEF TaskletStart, TaskletType
  <2> QED BY <1>1, <1>0, <2>1 DEF TaskletStart, Holds, TaskletCritical
<1>2. CASE TaskletLock
  <2>1. tasklet.pc \in Moves /\ tasklet'.pc = "test"
    BY <1>2 DEF TaskletLock, TaskletType
  <2>2. lock' = "tasklet" /\ ~IrqCritical
    BY <1>2 DEF TaskletLock, CanLock, Acquire, Holds
  <2> QED BY <1>2, <1>0, <2>1, <2>2 DEF TaskletLock
<1>3. CASE TaskletTest
  <2>1. /\ tasklet.pc = "test" /\ tasklet'.pc \in {"take", "unlock"}
        /\ tasklet'.count = cbuf.count
    BY <1>3 DEF TaskletTest, TaskletType
  <2>2. lock = "tasklet" /\ lock' = lock
    BY <1>3 DEF TaskletTest, Holds, TaskletCritical
  <2> QED BY <1>3, <2>1, <2>2 DEF TaskletTest, Holds, ExactCount, BytesCounted,
                                  RingCount, IrqCritical, TaskletCritical
<1>4. CASE TaskletTake
  <2>1. tasklet.pc = "take" /\ tasklet'.pc = "dec" /\ tasklet'.count = tasklet.count
    BY <1>4 DEF TaskletTake, TaskletType
  <2>2. cbuf'.count = cbuf.count /\ cbuf.count \in Nat
    BY <1>4, SizeAssumption DEF TaskletTake, RingType
  <2>3. Len(taken') = Len(taken) + 1 /\ Len(taken) \in Nat
    BY <1>4 DEF TaskletTake, GhostType
  <2>4. BytesCounted'
    BY <1>4, <2>1, <2>2, <2>3 DEF TaskletTake, BytesCounted, RingCount
  <2> QED BY <1>4, <2>1, <2>2, <2>4
          DEF TaskletTake, Holds, ExactCount, IrqCritical, TaskletCritical
<1>5. CASE TaskletDec
  <2>1. tasklet.pc = "dec" /\ tasklet'.pc \in {"alloc", "store"}
    BY <1>5 DEF TaskletDec, TaskletType
  <2>2. cbuf'.count = cbuf.count - 1
    <3>1. PICK loaded \in {tasklet.count, cbuf.count} :
               cbuf' = [cbuf EXCEPT !.count = loaded - 1]
      BY <1>5 DEF TaskletDec
    <3>2. loaded = cbuf.count
      BY <2>1 DEF ExactCount
    <3> QED BY <3>1, <3>2 DEF RingType
  <2>3. BytesCounted'
    BY <1>5, <2>1, <2>2 DEF TaskletDec, BytesCounted, RingCount
  <2> QED BY <1>5, <2>1, <2>3
          DEF TaskletDec, Holds, ExactCount, IrqCritical, TaskletCritical
<1>6. ASSUME NEW f \in Frames, TaskletAlloc(f)
      PROVE  Holds' /\ ExactCount' /\ BytesCounted'
  <2>1. tasklet.pc = "alloc" /\ tasklet'.pc = "store"
    BY <1>6 DEF TaskletAlloc, TaskletType
  <2> QED BY <1>6, <1>0, <2>1 DEF TaskletAlloc, Holds, TaskletCritical
<1>7. CASE TaskletAllocFail
  <2>1. tasklet.pc = "alloc" /\ tasklet'.pc = "idle"
    BY <1>7 DEF TaskletAllocFail, IdleTasklet
  <2> QED BY <1>7, <1>0, <2>1 DEF TaskletAllocFail, Holds, TaskletCritical
<1>8. CASE TaskletStore
  <2>1. tasklet.pc = "store" /\ tasklet'.pc = "test"
    BY <1>8 DEF TaskletStore, IdleTasklet
  <2> QED BY <1>8, <1>0, <2>1 DEF TaskletStore, Holds, TaskletCritical
<1>9. CASE TaskletUnlock
  <2>1. tasklet.pc = "unlock" /\ tasklet'.pc = "wake"
    BY <1>9 DEF TaskletUnlock, TaskletType
  <2>2. ~IrqCritical
    BY <2>1 DEF Holds, TaskletCritical
  <2> QED BY <1>9, <1>0, <2>1, <2>2 DEF TaskletUnlock, TaskletCritical
<1>10. CASE TaskletWake
  <2>1. tasklet.pc = "wake" /\ tasklet'.pc = "idle"
    BY <1>10 DEF TaskletWake, IdleTasklet
  <2> QED BY <1>10, <1>0, <2>1 DEF TaskletWake, Holds, TaskletCritical
<1> QED BY <1>1, <1>2, <1>3, <1>4, <1>5, <1>6, <1>7, <1>8, <1>9, <1>10
        DEF TaskletStep

LEMMA LockStep == LockInv /\ [PortNext]_portVars => LockInv'
<1> SUFFICES ASSUME LockInv, [PortNext]_portVars
             PROVE  LockInv'
  OBVIOUS
<1>1. TypeInv'
  BY TypeStep DEF LockInv
<1>2. ASSUME SMP, UNCHANGED portVars
      PROVE  Holds' /\ ExactCount' /\ BytesCounted'
  BY <1>2 DEF LockInv, Holds, ExactCount, BytesCounted, RingCount, IrqCritical,
              TaskletCritical, portVars, ghosts
<1>3. ASSUME SMP, PortNext
      PROVE  Holds' /\ ExactCount' /\ BytesCounted'
  BY <1>3, LockIrq, LockTasklet DEF PortNext
<1> QED BY <1>1, <1>2, <1>3 DEF LockInv

LEMMA LockAlways == PortSpec => []LockInv
  BY LockInit, LockStep, PTL DEF PortSpec

\* Wherever the interrupt arrives, the handler and the tasklet are never both
\* inside their critical sections, early returns included (asgn.c:116-152,
\* 182-199).
THEOREM Exclusion == PortSpec => []MutualExclusion
<1>1. LockInv => MutualExclusion
  BY DEF LockInv, Holds, MutualExclusion
<1> QED BY <1>1, LockAlways, PTL

\* On an SMP kernel the count never loses or invents a byte (asgn.c:122, 196).
THEOREM CountedBytes == SMP => (PortSpec => []BytesCounted)
<1> SUFFICES ASSUME SMP PROVE PortSpec => []BytesCounted
  OBVIOUS
<1>1. LockInv => BytesCounted
  BY DEF LockInv
<1> QED BY <1>1, LockAlways, PTL
-----------------------------------------------------------------------------
(* The bytes that wait, and who comes for them.                            *)

\* Once the tasklet has found the buffer empty, a byte in it was stored since: the handler
\* that stored it has scheduled the tasklet again or is about to (asgn.c:119, 152, 202).
ComesFor == {"lock", "test", "take", "dec", "alloc", "store"}
AwaitInv == cbuf.count # 0 =>
              tasklet.sched = TRUE \/ tasklet.pc \in ComesFor \/ irq.pc = "unlock"

\* Nothing is said of an empty buffer; while it is not empty, a step that neither stops
\* coming for it nor leaves the end of the handler keeps the claim.
LEMMA AwaitKept ==
  ASSUME TypeInv, AwaitInv, cbuf'.count = cbuf.count, tasklet'.sched = tasklet.sched,
         tasklet.pc \in ComesFor => tasklet'.pc \in ComesFor,
         irq.pc = "unlock" => irq'.pc = "unlock"
  PROVE  AwaitInv'
BY DEF AwaitInv

LEMMA AwaitStep == ~AllocMayFail /\ TypeInv /\ AwaitInv /\ [PortNext]_portVars => AwaitInv'
<1> SUFFICES ASSUME ~AllocMayFail, TypeInv, AwaitInv, [PortNext]_portVars PROVE AwaitInv'
  OBVIOUS
<1> USE DEF TypeInv, TypeOK, IrqType, TaskletType, RingType
<1>1. ASSUME NEW pins \in PinLevels, FirstHalf(pins)
      PROVE  AwaitInv'
  BY <1>1, AwaitKept DEF FirstHalf
<1>2. ASSUME NEW pins \in PinLevels, NEW at \in Arrivals, SecondHalf(pins, at)
      PROVE  AwaitInv'
  BY <1>2, AwaitKept DEF SecondHalf
<1>3. CASE IrqLock
  BY <1>3, AwaitKept DEF IrqLock
<1>4. CASE IrqNul
  BY <1>4, AwaitKept DEF IrqNul
<1>5. CASE IrqCount
  BY <1>5 DEF IrqCount, AwaitInv
<1>6. CASE IrqDrop
  BY <1>6, AwaitKept DEF IrqDrop
<1>7. CASE IrqStore
  BY <1>7 DEF IrqStore, AwaitInv
<1>8. CASE IrqUnlock
  BY <1>8 DEF IrqUnlock, AwaitInv
<1>9. CASE TaskletStart
  <2>1. tasklet'.pc \in ComesFor
    BY <1>9 DEF TaskletStart, ComesFor
  <2> QED BY <2>1 DEF AwaitInv
<1>10. CASE TaskletLock
  <2>1. tasklet'.pc \in ComesFor
    BY <1>10 DEF TaskletLock, ComesFor
  <2> QED BY <2>1 DEF AwaitInv
<1>11. CASE TaskletTest
  <2>1. cbuf' = cbuf /\ (cbuf.count # 0 => tasklet'.pc \in ComesFor)
    BY <1>11 DEF TaskletTest, ComesFor
  <2> QED BY <2>1 DEF AwaitInv
<1>12. CASE TaskletTake
  <2>1. tasklet'.pc \in ComesFor
    BY <1>12 DEF TaskletTake, ComesFor
  <2> QED BY <2>1 DEF AwaitInv
<1>13. CASE TaskletDec
  <2>1. tasklet'.pc \in ComesFor
    BY <1>13 DEF TaskletDec, ComesFor
  <2> QED BY <2>1 DEF AwaitInv
<1>14. ASSUME NEW f \in Frames, TaskletAlloc(f)
       PROVE  AwaitInv'
  <2>1. tasklet'.pc \in ComesFor
    BY <1>14 DEF TaskletAlloc, ComesFor
  <2> QED BY <2>1 DEF AwaitInv
<1>15. CASE TaskletAllocFail
  BY <1>15 DEF TaskletAllocFail
<1>16. CASE TaskletStore
  <2>1. tasklet'.pc \in ComesFor
    BY <1>16 DEF TaskletStore, IdleTasklet, ComesFor
  <2> QED BY <2>1 DEF AwaitInv
<1>17. CASE TaskletUnlock
  <2>1. tasklet.pc \notin ComesFor
    BY <1>17 DEF TaskletUnlock, ComesFor
  <2> QED BY <1>17, <2>1, AwaitKept DEF TaskletUnlock
<1>18. CASE TaskletWake
  <2>1. tasklet.pc \notin ComesFor
    BY <1>18 DEF TaskletWake, ComesFor
  <2> QED BY <1>18, <2>1, AwaitKept DEF TaskletWake, IdleTasklet
<1>19. CASE UNCHANGED portVars
  BY <1>19, AwaitKept DEF portVars
<1> QED BY <1>1, <1>2, <1>3, <1>4, <1>5, <1>6, <1>7, <1>8, <1>9, <1>10, <1>11, <1>12,
           <1>13, <1>14, <1>15, <1>16, <1>17, <1>18, <1>19
        DEF PortNext, IrqArrives, IrqContinues, TaskletStep

\* On one CPU, while allocations succeed and wherever the interrupt arrives, a byte in the
\* buffer has somebody on the way who does come for it: the drop path that schedules nothing
\* finds the tasklet on its way already (asgn.c:119, 189-192).  On an SMP kernel that path
\* also keeps the lock (asgn.c:191), and the tasklet on its way may wait for it for ever.
THEOREM SomebodyComes == ~SMP /\ ~AllocMayFail => (PortSpec => []NoStrandedByte)
<1> SUFFICES ASSUME ~SMP, ~AllocMayFail PROVE PortSpec => []NoStrandedByte
  OBVIOUS
<1>1. PortInit => AwaitInv
  BY DEF PortInit, AwaitInv
<1>2. TypeInv /\ AwaitInv /\ [PortNext]_portVars => (TypeInv /\ AwaitInv)'
  BY TypeStep, AwaitStep
<1>3. AwaitInv => NoStrandedByte
  <2>1. "idle" \notin ComesFor /\ "wake" \notin ComesFor
    BY DEF ComesFor
  <2> QED BY <2>1 DEF AwaitInv, NoStrandedByte
<1> QED BY <1>1, <1>2, <1>3, TypeInit, PTL DEF PortSpec

-----------------------------------------------------------------------------
(* The sizes of sessions.                                                  *)

\* How many bytes were accepted before the k-th end of session, or so far; each size is
\* the difference of two such numbers, also that of the open session and, 0, of those to
\* come.
Upto(list, n, k) == IF k = 0 THEN 0 ELSE IF k <= Len(list) THEN list[k] ELSE n
Framed(sizes, list, n) ==
  Len(list) < MAX_SESSIONS =>
    \A j \in 0..MAX_SESSIONS - 1 : sizes[j] = Upto(list, n, j + 1) - Upto(list, n, j)

\* In the port, where no reader takes sessions away: the handler counts each byte for the
\* session it belongs to although it chose the place before it had the lock
\* (asgn.c:168, 182, 197).
FrameInv == /\ sessions.head = 0 /\ sessions.count = Len(ends)
            /\ irq.pc \in {"lock", "body"} => irq.session_end = SessionEnd
            /\ irq.pc = "count" => irq.count = sessions.count
            /\ Framed(sessions.sizes, ends, Len(accepted))

\* One byte more for the open session.
LEMMA ByteFramed ==
  ASSUME NEW sizes \in [0..MAX_SESSIONS - 1 -> Nat], NEW list \in Seq(Nat), NEW n \in Nat,
         Framed(sizes, list, n), NEW at \in 0..MAX_SESSIONS - 1,
         Len(list) < MAX_SESSIONS => at = Len(list)
  PROVE  Framed([sizes EXCEPT ![at] = sizes[at] + 1], list, n + 1)
<1> DEFINE next == [sizes EXCEPT ![at] = sizes[at] + 1]
<1> SUFFICES ASSUME Len(list) < MAX_SESSIONS, NEW j \in 0..MAX_SESSIONS - 1
             PROVE  next[j] = Upto(list, n + 1, j + 1) - Upto(list, n + 1, j)
  BY DEF Framed
<1>1. at = Len(list) /\ Len(list) \in Nat /\ j \in Nat
  BY SizeAssumption
<1>2. sizes[j] = Upto(list, n, j + 1) - Upto(list, n, j)
  BY DEF Framed
<1>3. next[j] = IF j = at THEN sizes[j] + 1 ELSE sizes[j]
  OBVIOUS
<1> HIDE DEF next
<1>4. CASE j < Len(list)
  <2>1. /\ Upto(list, n + 1, j + 1) = Upto(list, n, j + 1)
        /\ Upto(list, n + 1, j) = Upto(list, n, j)
    BY <1>1, <1>4 DEF Upto
  <2> QED BY <1>1, <1>2, <1>3, <1>4, <2>1
<1>5. CASE j = Len(list)
  <2>1. /\ Upto(list, n + 1, j + 1) = n + 1 /\ Upto(list, n, j + 1) = n
        /\ Upto(list, n + 1, j) = Upto(list, n, j) /\ Upto(list, n, j) \in Nat
    BY <1>1, <1>5 DEF Upto
  <2> QED BY <1>1, <1>2, <1>3, <1>5, <2>1
<1>6. CASE j > Len(list)
  <2>1. /\ Upto(list, n + 1, j + 1) = n + 1 /\ Upto(list, n, j + 1) = n
        /\ Upto(list, n + 1, j) = n + 1 /\ Upto(list, n, j) = n
    BY <1>1, <1>6 DEF Upto
  <2> QED BY <1>1, <1>2, <1>3, <1>6, <2>1
<1> QED BY <1>1, <1>4, <1>5, <1>6

\* The open session ends.
LEMMA EndFramed ==
  ASSUME NEW sizes, NEW list \in Seq(Nat), NEW n \in Nat, Framed(sizes, list, n)
  PROVE  Framed(sizes, Append(list, n), n)
<1> DEFINE next == Append(list, n)
<1>1. Len(next) = Len(list) + 1 /\ Len(list) \in Nat
  OBVIOUS
<1>2. ASSUME NEW k \in Nat PROVE Upto(next, n, k) = Upto(list, n, k)
  <2>1. CASE k = 0
    BY <2>1 DEF Upto
  <2>2. CASE k # 0 /\ k <= Len(list)
    <3>1. next[k] = list[k]
      BY <2>2
    <3> QED BY <1>1, <2>2, <3>1 DEF Upto
  <2>3. CASE k = Len(list) + 1
    <3>1. next[k] = n
      BY <2>3
    <3> QED BY <1>1, <2>3, <3>1 DEF Upto
  <2>4. CASE k > Len(list) + 1
    BY <1>1, <2>4 DEF Upto
  <2> QED BY <1>1, <2>1, <2>2, <2>3, <2>4
<1> HIDE DEF next
<1> SUFFICES ASSUME Len(next) < MAX_SESSIONS, NEW j \in 0..MAX_SESSIONS - 1
             PROVE  sizes[j] = Upto(next, n, j + 1) - Upto(next, n, j)
  BY DEF Framed, next
<1>3. j \in Nat /\ j + 1 \in Nat
  BY SizeAssumption
<1>4. sizes[j] = Upto(list, n, j + 1) - Upto(list, n, j)
  BY <1>1, SizeAssumption DEF Framed
<1> QED BY <1>2, <1>3, <1>4

LEMMA FrameInit == PortInit => FrameInv
<1> SUFFICES ASSUME PortInit PROVE FrameInv
  OBVIOUS
<1>1. Len(<<>>) = 0
  OBVIOUS
<1>2. Framed([i \in 0..MAX_SESSIONS - 1 |-> 0], <<>>, 0)
  BY <1>1 DEF Framed, Upto
<1> QED BY <1>1, <1>2 DEF PortInit, FrameInv, IdleIrq

LEMMA FrameStep == TypeInv /\ FrameInv /\ [PortNext]_portVars => FrameInv'
<1> SUFFICES ASSUME TypeInv, FrameInv, [PortNext]_portVars PROVE FrameInv'
  OBVIOUS
<1> USE DEF TypeInv, TypeOK, IrqType, SessionType, GhostType
\* A step that leaves the sessions alone.
<1>0. ASSUME UNCHANGED <<sessions, accepted, ends>>,
             irq'.pc \in {"lock", "body"} => irq'.session_end = SessionEnd,
             irq'.pc = "count" => irq'.count = sessions.count
      PROVE  FrameInv'
  BY <1>0 DEF FrameInv, SessionEnd
<1>1. ASSUME NEW pins \in PinLevels, FirstHalf(pins)
      PROVE  FrameInv'
  BY <1>0, <1>1 DEF FirstHalf, ghosts, FrameInv
<1>2. ASSUME NEW pins \in PinLevels, NEW at \in Arrivals, SecondHalf(pins, at)
      PROVE  FrameInv'
  BY <1>0, <1>2 DEF SecondHalf, ghosts, FrameInv
<1>3. CASE IrqLock
  BY <1>0, <1>3 DEF IrqLock, ghosts, FrameInv
<1>4. CASE IrqNul
  BY <1>0, <1>4 DEF IrqNul, ghosts, FrameInv
<1>5. CASE IrqCount
  <2>1. /\ sessions' = [sessions EXCEPT !.count = irq.count + 1]
        /\ ends' = Append(ends, Len(accepted)) /\ accepted' = accepted
        /\ irq'.pc = "unlock" /\ irq.count = Len(ends)
    BY <1>5 DEF IrqCount, FrameInv
  <2>2. Len(accepted) \in Nat /\ ends \in Seq(Nat) /\ Len(ends') = Len(ends) + 1
    BY <2>1
  <2>3. Framed(sessions.sizes, ends', Len(accepted'))
    BY <2>1, <2>2, EndFramed DEF FrameInv
  <2>4. sessions'.head = 0 /\ sessions'.count = Len(ends') /\ sessions'.sizes = sessions.sizes
    BY <2>1, <2>2 DEF FrameInv
  <2> QED BY <2>1, <2>3, <2>4 DEF FrameInv
<1>6. CASE IrqDrop
  BY <1>0, <1>6 DEF IrqDrop, IdleIrq, ghosts
<1>7. CASE IrqStore
  <2> DEFINE at == irq.session_end
             sizes == sessions.sizes
             next == [sizes EXCEPT ![at] = sizes[at] + 1]
  <2>1. /\ sessions' = [sessions EXCEPT !.sizes = next]
        /\ accepted' = Append(accepted, top_full_byte) /\ ends' = ends
        /\ irq'.pc = "unlock" /\ irq.pc = "body"
    BY <1>7 DEF IrqStore
  <2>2. /\ Len(accepted) \in Nat /\ Len(accepted') = Len(accepted) + 1
        /\ ends \in Seq(Nat) /\ Len(ends) \in Nat
    BY <2>1
  <2>3. at \in 0..MAX_SESSIONS - 1 /\ sizes \in [0..MAX_SESSIONS - 1 -> Nat]
    OBVIOUS
  <2>4. Len(ends) < MAX_SESSIONS => at = Len(ends)
    <3>1. at = CMod(0 + Len(ends), MAX_SESSIONS)
      BY <2>1 DEF FrameInv, SessionEnd
    <3>2. at = Len(ends) % MAX_SESSIONS
      BY <2>2, <3>1 DEF CMod
    <3>3. Len(ends) < MAX_SESSIONS => Len(ends) % MAX_SESSIONS = Len(ends)
      <4> SUFFICES ASSUME Len(ends) < MAX_SESSIONS
                   PROVE  Len(ends) % MAX_SESSIONS = Len(ends)
        OBVIOUS
      <4>1. Len(ends) \in 0..2 * MAX_SESSIONS - 1
        BY <2>2, SizeAssumption
      <4> QED BY <4>1, ModOneTurn, SizeAssumption DEF OneTurn
    <3> QED BY <3>2, <3>3
  <2> HIDE DEF at, sizes
  <2>5. Framed(next, ends, Len(accepted) + 1)
    BY <2>2, <2>3, <2>4, ByteFramed DEF FrameInv, sizes
  <2> HIDE DEF next
  <2>6. sessions'.head = 0 /\ sessions'.count = Len(ends) /\ sessions'.sizes = next
    BY <2>1 DEF FrameInv
  <2> QED BY <2>1, <2>2, <2>5, <2>6 DEF FrameInv
<1>8. CASE IrqUnlock
  BY <1>0, <1>8 DEF IrqUnlock, IdleIrq, ghosts
<1>9. CASE TaskletStep
  <2>1. UNCHANGED <<sessions, accepted, ends, irq>>
    BY <1>9 DEF TaskletStep, TaskletStart, TaskletLock, TaskletTest, TaskletTake,
                TaskletDec, TaskletAlloc, TaskletAllocFail, TaskletStore,
                TaskletUnlock, TaskletWake, ghosts
  <2> QED BY <1>0, <2>1 DEF FrameInv
<1>10. CASE UNCHANGED portVars
  BY <1>0, <1>10 DEF portVars, ghosts, FrameInv
<1> QED BY <1>1, <1>2, <1>3, <1>4, <1>5, <1>6, <1>7, <1>8, <1>9, <1>10
        DEF PortNext, IrqArrives, IrqContinues

\* Until the table wraps, the size of every closed session is the number of bytes that were
\* accepted between its delimiters, on every kernel, wherever the interrupt arrives and
\* whatever the buffer drops (asgn.c:168, 184-198).
THEOREM SessionsFramed == PortSpec => []SessionFraming
<1>1. TypeInv /\ FrameInv /\ [PortNext]_portVars => (TypeInv /\ FrameInv)'
  BY TypeStep, FrameStep
<1>2. TypeInv /\ FrameInv => SessionFraming
  <2> SUFFICES ASSUME TypeInv, FrameInv, Len(ends) < MAX_SESSIONS, NEW k \in 1..Len(ends)
               PROVE  sessions.sizes[k - 1] =
                        ends[k] - (IF k = 1 THEN 0 ELSE ends[k - 1])
    BY DEF SessionFraming
  <2>1. k - 1 \in 0..MAX_SESSIONS - 1 /\ (k - 1) + 1 = k /\ Len(ends) \in Nat
    BY SizeAssumption DEF TypeInv, TypeOK, GhostType
  <2>2. sessions.sizes[k - 1] =
          Upto(ends, Len(accepted), (k - 1) + 1) - Upto(ends, Len(accepted), k - 1)
    BY <2>1 DEF FrameInv, Framed
  <2> QED BY <2>1, <2>2 DEF Upto
<1> QED BY <1>1, <1>2, TypeInit, FrameInit, PTL DEF PortSpec

-----------------------------------------------------------------------------
(* Sums over an array.                                                     *)

\* Induction over the numbers, said of a set: one that has 0, and with each number the next,
\* has them all.
LEMMA NatInd ==
  ASSUME NEW S, S \subseteq Nat, 0 \in S, \A n \in S : n + 1 \in S
  PROVE  S = Nat
<1> SUFFICES ASSUME Nat \ S # {} PROVE FALSE
  OBVIOUS
<1> DEFINE R == OpToRel(<, Nat)
<1>1. PICK m \in Nat \ S : \A y \in Nat \ S : ~ (<<y, m>> \in R)
  <2>1. IsWellFoundedOn(R, Nat)
    BY NatLessThanWellFounded
  <2> HIDE DEF R
  <2> QED BY <2>1, WFMin
<1>2. m # 0 /\ m - 1 \in Nat /\ m - 1 < m
  OBVIOUS
<1>3. <<m - 1, m>> \in R
  BY <1>2 DEF OpToRel
<1>4. m - 1 \in S
  BY <1>1, <1>2, <1>3
<1>5. (m - 1) + 1 = m
  OBVIOUS
<1> QED BY <1>4, <1>5

\* FoldFunction takes away one argument at a time, always the same one of the same set.
OneOf(s) == CHOOSE x \in s : TRUE
RunningSum(g, f, D) ==
  g = [s \in D |-> IF s = {} THEN 0 ELSE f[OneOf(s)] + g[s \ {OneOf(s)}]]

\* The operator the model uses.
Total(f) == FoldFunction(+, 0, f)

LEMMA FoldIsTotal ==
  ASSUME NEW f
  PROVE  Total(f) = (CHOOSE g : RunningSum(g, f, SUBSET DOMAIN f))[DOMAIN f]
  BY DEF Total, FoldFunction, FoldFunctionOnSet, MapThenFoldSet, RunningSum, OneOf

LEMMA OneOfIn == ASSUME NEW s, s # {} PROVE OneOf(s) \in s
  BY DEF OneOf

\* The subsets of S with at most n elements.
AtMost(S, n) == {s \in SUBSET S : Cardinality(s) <= n}

LEMMA OneLess ==
  ASSUME NEW S, IsFiniteSet(S), NEW s \in SUBSET S, s # {}
  PROVE  /\ Cardinality(s) \in Nat \ {0} 
         /\ s \ {OneOf(s)} \in SUBSET S
         /\ Cardinality(s \ {OneOf(s)}) = Cardinality(s) - 1
<1>1. IsFiniteSet(s) /\ Cardinality(s) \in Nat /\ Cardinality(s) # 0
  BY FS_Subset, FS_CardinalityType, FS_EmptySet
<1>2. Cardinality(s \ {OneOf(s)}) = Cardinality(s) - 1
  BY <1>1, OneOfIn, FS_RemoveElement
<1> QED BY <1>1, <1>2

\* The recursive definition defines a function.
LEMMA RunningSumExists ==
  ASSUME NEW f, NEW S, IsFiniteSet(S)
  PROVE  \E g : RunningSum(g, f, SUBSET S)
<1> DEFINE N == {n \in Nat : \E g : RunningSum(g, f, AtMost(S, n))}
<1>1. 0 \in N
  <2> DEFINE g == [s \in AtMost(S, 0) |-> 0]
  <2>1. \A s \in AtMost(S, 0) : s = {}
    BY FS_Subset, FS_EmptySet, FS_CardinalityType DEF AtMost
  <2>2. RunningSum(g, f, AtMost(S, 0))
    BY <2>1 DEF RunningSum
  <2> QED BY <2>2
<1>2. ASSUME NEW n \in N PROVE n + 1 \in N
  <2>1. PICK g : RunningSum(g, f, AtMost(S, n))
    BY <1>2
  <2> DEFINE h == [s \in AtMost(S, n + 1) |-> 
                    IF s = {} THEN 0 ELSE f[OneOf(s)] + g[s \ {OneOf(s)}]]
  <2>2. ASSUME NEW s \in AtMost(S, n + 1), s # {}
        PROVE  s \ {OneOf(s)} \in AtMost(S, n) /\ AtMost(S, n) \subseteq AtMost(S, n + 1)
    <3>1. Cardinality(s \ {OneOf(s)}) <= n
      BY <2>2, OneLess DEF AtMost
    <3>2. AtMost(S, n) \subseteq AtMost(S, n + 1)
      <4>1. \A t \in SUBSET S : Cardinality(t) \in Nat
        BY FS_Subset, FS_CardinalityType
      <4> QED BY <4>1 DEF AtMost
    <3> QED BY <2>2, <3>1, <3>2, OneLess DEF AtMost
  <2>3. ASSUME NEW s \in AtMost(S, n + 1), s # {}
        PROVE  g[s \ {OneOf(s)}] = h[s \ {OneOf(s)}]
    <3> DEFINE t == s \ {OneOf(s)}
    <3>1. t \in AtMost(S, n) /\ t \in AtMost(S, n + 1)
      BY <2>2, <2>3
    <3>2. g[t] = IF t = {} THEN 0 ELSE f[OneOf(t)] + g[t \ {OneOf(t)}]
      <4> HIDE DEF t
      <4> QED BY <2>1, <3>1 DEF RunningSum
    <3>3. h[t] = IF t = {} THEN 0 ELSE f[OneOf(t)] + g[t \ {OneOf(t)}]
      <4> HIDE DEF t
      <4> QED BY <3>1
    <3> QED BY <3>2, <3>3
  <2>4. RunningSum(h, f, AtMost(S, n + 1))
    <3>1. \A s \in AtMost(S, n + 1) : 
            (IF s = {} THEN 0 ELSE f[OneOf(s)] + g[s \ {OneOf(s)}])
            = (IF s = {} THEN 0 ELSE f[OneOf(s)] + h[s \ {OneOf(s)}])
      <4> HIDE DEF h
      <4> QED BY <2>3
    <3>2. h = [s \in AtMost(S, n + 1) |-> 
                    IF s = {} THEN 0 ELSE f[OneOf(s)] + g[s \ {OneOf(s)}]]
      OBVIOUS
    <3> HIDE DEF h
    <3> QED BY <3>1, <3>2, Zenon DEF RunningSum
  <2> HIDE DEF h
  <2> QED BY <2>4
<1>3. N = Nat
  <2> HIDE DEF N
  <2>1. N \subseteq Nat
    BY DEF N
  <2> QED BY <1>1, <1>2, <2>1, NatInd
<1>4. Cardinality(S) \in N
  BY <1>3, FS_CardinalityType
<1>5. AtMost(S, Cardinality(S)) = SUBSET S
  BY FS_Subset DEF AtMost
<1> QED BY <1>4, <1>5

\* What is used of it.
AddsUp(g, S, f) ==
  /\ g[{}] = 0
  /\ \A s \in SUBSET S : s # {} => g[s] = f[OneOf(s)] + g[s \ {OneOf(s)}]

\* The sum of a function is built up one argument at a time.
LEMMA SumUnfolds ==
  ASSUME NEW S, IsFiniteSet(S), NEW f, DOMAIN f = S
  PROVE  \E g : Total(f) = g[S] /\ AddsUp(g, S, f)
<1> DEFINE g == CHOOSE g : RunningSum(g, f, SUBSET S)
<1>1. RunningSum(g, f, SUBSET S)
  BY RunningSumExists
<1>2. Total(f) = g[S]
  BY FoldIsTotal
<1> HIDE DEF g
<1>3. ASSUME NEW s \in SUBSET S
      PROVE  g[s] = IF s = {} THEN 0 ELSE f[OneOf(s)] + g[s \ {OneOf(s)}]
  BY <1>1 DEF RunningSum
<1>4. {} \in SUBSET S
  OBVIOUS
<1> QED BY <1>2, <1>3, <1>4 DEF AddsUp

\* OneOf more at i is one more in total.
LEMMA SumMore ==
  ASSUME NEW S, IsFiniteSet(S), NEW i \in S,
         NEW f, DOMAIN f = S, \A x \in S : f[x] \in Nat,
         NEW h, DOMAIN h = S, \A x \in S : h[x] = f[x] + (IF x = i THEN 1 ELSE 0)
  PROVE  /\ Total(f) \in Nat
         /\ Total(h) = Total(f) + 1
<1> DEFINE More(s) == IF i \in s THEN 1 ELSE 0
<1>1. PICK a : Total(f) = a[S] /\ AddsUp(a, S, f)
  BY SumUnfolds
<1>2. PICK b : Total(h) = b[S] /\ AddsUp(b, S, h)
  BY SumUnfolds
<1> DEFINE N == {n \in Nat : \A s \in SUBSET S : Cardinality(s) = n =>
                               a[s] \in Nat /\ b[s] = a[s] + More(s)}
<1>3. 0 \in N
  <2>1. ASSUME NEW s \in SUBSET S, Cardinality(s) = 0
        PROVE  a[s] \in Nat /\ b[s] = a[s] + More(s)
    <3>1. s = {}
      BY <2>1, FS_Subset, FS_EmptySet
    <3>2. a[s] = 0 /\ b[s] = 0
      BY <1>1, <1>2, <3>1 DEF AddsUp
    <3> QED BY <3>1, <3>2
  <2> QED BY <2>1
<1>4. ASSUME NEW n \in N PROVE n + 1 \in N
  <2>1. ASSUME NEW s \in SUBSET S, Cardinality(s) = n + 1
        PROVE  a[s] \in Nat /\ b[s] = a[s] + More(s)
    <3> DEFINE x == OneOf(s)
               t == s \ {x}
    <3>1. n \in Nat /\ s # {}
      <4>1. n \in Nat
        OBVIOUS
      <4> HIDE DEF N
      <4> QED BY <4>1, <2>1, FS_EmptySet
    <3>2. x \in s /\ x \in S /\ t \in SUBSET S /\ Cardinality(t) = n
      BY <2>1, <3>1, OneLess, OneOfIn
    <3>3. a[s] = f[x] + a[t] /\ b[s] = h[x] + b[t]
      BY <1>1, <1>2, <3>1 DEF AddsUp
    <3>4. a[t] \in Nat /\ b[t] = a[t] + More(t)
      BY <3>2
    <3>5. More(s) = More(t) + (IF x = i THEN 1 ELSE 0)
      <4>1. x \in s
        BY <3>2
      <4> HIDE DEF x
      <4> QED BY <4>1
    <3>6. f[x] \in Nat /\ h[x] = f[x] + (IF x = i THEN 1 ELSE 0)
      BY <3>2
    <3> HIDE DEF x, t, More
    <3>7. More(t) \in Nat
      BY DEF More
    <3> QED BY <3>3, <3>4, <3>5, <3>6, <3>7
  <2> QED BY <2>1
<1>5. N = Nat
  <2> HIDE DEF N
  <2>1. N \subseteq Nat
    BY DEF N
  <2> QED BY <1>3, <1>4, <2>1, NatInd
<1>6. Cardinality(S) \in N
  BY <1>5, FS_CardinalityType
<1> QED BY <1>1, <1>2, <1>6

LEMMA SumOneMore ==
  ASSUME NEW S, IsFiniteSet(S), NEW f \in [S -> Nat], NEW i \in S
  PROVE  /\ Total(f) \in Nat
         /\ Total([f EXCEPT ![i] = f[i] + 1]) = Total(f) + 1
<1> DEFINE h == [f EXCEPT ![i] = f[i] + 1]
<1>1. /\ DOMAIN f = S /\ \A x \in S : f[x] \in Nat
      /\ DOMAIN h = S /\ \A x \in S : h[x] = f[x] + (IF x = i THEN 1 ELSE 0)
  OBVIOUS
<1> HIDE DEF h
<1>2. Total(f) \in Nat /\ Total(h) = Total(f) + 1
  BY <1>1, SumMore
<1> QED BY <1>2 DEF h

\* The total of a function that is nowhere positive.
LEMMA SumOfZeros ==
  ASSUME NEW S, IsFiniteSet(S)
  PROVE  Total([i \in S |-> 0]) = 0
<1> DEFINE f == [i \in S |-> 0]
<1>0. DOMAIN f = S /\ \A i \in S : f[i] = 0
  OBVIOUS
<1> HIDE DEF f
<1>1. PICK a : Total(f) = a[S] /\ AddsUp(a, S, f)
  BY <1>0, SumUnfolds
<1> DEFINE N == {n \in Nat : \A s \in SUBSET S : Cardinality(s) = n => a[s] = 0}
<1>4. 0 \in N
  <2>1. ASSUME NEW s \in SUBSET S, Cardinality(s) = 0 PROVE a[s] = 0
    <3>1. s = {}
      BY <2>1, FS_Subset, FS_EmptySet
    <3> QED BY <1>1, <3>1 DEF AddsUp
  <2> QED BY <2>1
<1>5. ASSUME NEW n \in N PROVE n + 1 \in N
  <2>1. ASSUME NEW s \in SUBSET S, Cardinality(s) = n + 1 PROVE a[s] = 0
    <3> DEFINE x == OneOf(s)
               t == s \ {x}
    <3>1. n \in Nat /\ s # {}
      BY <2>1, FS_EmptySet
    <3>2. x \in S /\ t \in SUBSET S /\ Cardinality(t) = n
      BY <2>1, <3>1, OneLess, OneOfIn
    <3>3. a[s] = f[x] + a[t]
      BY <1>1, <3>1 DEF AddsUp
    <3>4. a[t] = 0
      BY <3>2
    <3> HIDE DEF x, t
    <3> QED BY <1>0, <3>2, <3>3, <3>4
  <2> QED BY <2>1
<1>6. N = Nat
  <2> HIDE DEF N
  <2>1. N \subseteq Nat
    BY DEF N
  <2> QED BY <1>4, <1>5, <2>1, NatInd
<1>7. Cardinality(S) \in N
  BY <1>6, FS_CardinalityType
<1> QED BY <1>1, <1>7 DEF f

-----------------------------------------------------------------------------
(* The sizes of sessions and the data.                                     *)

\* The lock is not the tasklet's while it wakes the readers.
SizesInv == SMP => /\ Total(sessions.sizes) = data_size + RingCount + InHand
                   /\ tasklet.pc = "wake" => lock # "tasklet"

LEMMA SumInTwo ==
  ASSUME NEW a \in Int, NEW b \in Int, NEW c \in Int
  PROVE  a + b + c = a + (b + c)
  OBVIOUS

\* A step of neither side's accounts.
LEMMA SizesKept ==
  ASSUME SMP, SizesInv, sessions'.sizes = sessions.sizes, data_size' = data_size,
         RingCount' + InHand' = RingCount + InHand, RingCount \in Int, RingCount' \in Int,
         tasklet'.pc = "wake" => lock' # "tasklet", LockInv
  PROVE  SizesInv'
<1>1. InHand \in Int /\ InHand' \in Int /\ data_size \in Int
  BY DEF InHand, LockInv, TypeInv, TypeOK, StoreType
<1>2. Total(sessions'.sizes) = Total(sessions.sizes)
  OBVIOUS
<1>3. Total(sessions.sizes) = data_size + RingCount + InHand
  BY DEF SizesInv
<1>4. data_size + RingCount' + InHand' = data_size + RingCount + InHand
  <2>1. data_size + (RingCount' + InHand') = data_size + (RingCount + InHand)
    OBVIOUS
  <2>2. data_size + RingCount' + InHand' = data_size + (RingCount' + InHand')
    BY <1>1, SumInTwo, Zenon
  <2>3. data_size + RingCount + InHand = data_size + (RingCount + InHand)
    BY <1>1, SumInTwo, Zenon
  <2> QED BY <2>1, <2>2, <2>3, Zenon
<1>6. data_size' + RingCount' + InHand' = data_size + RingCount + InHand
  BY <1>4, Zenon
<1>5. Total(sessions'.sizes) = data_size' + RingCount' + InHand'
  BY <1>2, <1>3, <1>6, Zenon
<1> QED BY <1>5 DEF SizesInv

\* The handler's steps.
LEMMA SizesIrq ==
  ASSUME SMP, LockInv, LockInv', SizesInv, IrqArrives \/ IrqContinues
  PROVE  SizesInv'
<1> USE DEF LockInv, assembly, store, ghosts
<1>0. TypeOK /\ Holds /\ RingCount \in Int /\ RingCount' \in Int
  BY SizeAssumption DEF TypeInv, TypeOK, RingType, RingCount
\* The handler does not move the tasklet, nor takes the lock from it.
<1>1. ASSUME sessions'.sizes = sessions.sizes, data_size' = data_size, cbuf' = cbuf,
             tasklet'.pc = tasklet.pc, lock' = lock \/ "tasklet" \notin {lock, lock'}
      PROVE  SizesInv'
  <2>1. RingCount' = RingCount /\ InHand' = InHand
    BY <1>1 DEF RingCount, InHand
  <2>2. tasklet'.pc = "wake" => lock' # "tasklet"
    BY <1>1 DEF SizesInv
  <2> QED BY <1>0, <1>1, <2>1, <2>2, SizesKept
<1>2. ASSUME NEW pins \in PinLevels, FirstHalf(pins)
      PROVE  SizesInv'
  BY <1>1, <1>2 DEF FirstHalf
<1>3. ASSUME NEW pins \in PinLevels, NEW at \in Arrivals, SecondHalf(pins, at)
      PROVE  SizesInv'
  BY <1>1, <1>3 DEF SecondHalf
<1>4. CASE IrqLock
  <2>1. lock' = "irq" /\ lock = "free"
    BY <1>4 DEF IrqLock, CanLock, Acquire
  <2> QED BY <1>1, <1>4, <2>1 DEF IrqLock
<1>5. CASE IrqNul
  BY <1>1, <1>5 DEF IrqNul
<1>6. CASE IrqCount
  <2>1. sessions'.sizes = sessions.sizes
    BY <1>0, <1>6 DEF IrqCount, TypeOK, SessionType
  <2> QED BY <1>1, <1>6, <2>1 DEF IrqCount
<1>7. CASE IrqDrop
  BY <1>1, <1>7 DEF IrqDrop
<1>8. CASE IrqStore
  <2> DEFINE at == irq.session_end
             sizes == sessions.sizes
  <2>1. /\ sessions'.sizes = [sizes EXCEPT ![at] = sizes[at] + 1]
        /\ at \in 0..MAX_SESSIONS - 1 /\ sizes \in [0..MAX_SESSIONS - 1 -> Nat]
    BY <1>0, <1>8 DEF IrqStore, TypeOK, SessionType, IrqType
  <2>2. IsFiniteSet(0..MAX_SESSIONS - 1)
    BY SizeAssumption, FS_Interval
  <2>3. Total(sessions'.sizes) = Total(sessions.sizes) + 1
    <3> HIDE DEF at, sizes
    <3>1. Total([sizes EXCEPT ![at] = sizes[at] + 1]) = Total(sizes) + 1
      BY <2>1, <2>2, SumOneMore
    <3> QED BY <2>1, <3>1 DEF sizes
  <2>4. lock = "irq" /\ lock' = lock /\ ~TaskletCritical
    BY <1>0, <1>8 DEF IrqStore, Holds, IrqCritical
  <2>5. /\ RingCount = cbuf.count /\ RingCount' = cbuf'.count /\ InHand = 0 /\ InHand' = 0
        /\ tasklet' = tasklet
    BY <1>8, <2>4 DEF IrqStore, RingCount, InHand, TaskletCritical
  <2>6. cbuf'.count = cbuf.count + 1 /\ data_size' = data_size /\ data_size \in Nat
        /\ cbuf.count \in Nat
    BY <1>0, <1>8, SizeAssumption DEF IrqStore, TypeOK, RingType, StoreType
  <2>7. Total(sessions.sizes) = data_size + cbuf.count
    BY <2>5, <2>6 DEF SizesInv
  <2> QED BY <2>3, <2>4, <2>5, <2>6, <2>7 DEF SizesInv
<1>9. CASE IrqUnlock
  <2>1. lock = "irq" /\ lock' = "free" /\ tasklet'.pc = tasklet.pc
    BY <1>0, <1>9 DEF IrqUnlock, Holds, IrqCritical, Release, TypeOK, TaskletType
  <2> QED BY <1>1, <1>9, <2>1 DEF IrqUnlock
<1> QED BY <1>2, <1>3, <1>4, <1>5, <1>6, <1>7, <1>8, <1>9
        DEF IrqArrives, IrqContinues

\* The tasklet's steps.
LEMMA SizesTasklet ==
  ASSUME SMP, LockInv, LockInv', SizesInv, TaskletStep
  PROVE  SizesInv'
<1> USE DEF LockInv, assembly, store, ghosts
<1>0. /\ TypeOK /\ TypeOK' /\ Holds /\ ExactCount
      /\ RingCount \in Int /\ RingCount' \in Int
  BY SizeAssumption DEF TypeInv, TypeOK, RingType, RingCount
\* The tasklet goes on without a byte, or with the one it has.
<1> DEFINE Without(pc, held) == pc \in {"test", "take", "unlock"}
                                \/ (pc \in {"idle", "lock", "wake"} /\ ~held)
           With(pc, held) == pc \in {"alloc", "store"} \/ (pc \in {"idle", "lock"} /\ held)
           Same(P(_, _)) == /\ P(tasklet.pc, lock = "tasklet")
                            /\ P(tasklet'.pc, lock' = "tasklet")
<1>1. ASSUME sessions'.sizes = sessions.sizes, data_size' = data_size, cbuf' = cbuf,
             Same(Without) \/ Same(With)
      PROVE  SizesInv'
  <2>1. RingCount' = RingCount /\ InHand' = InHand
    BY <1>1 DEF RingCount, InHand
  <2>2. tasklet'.pc = "wake" => lock' # "tasklet"
    BY <1>1 DEF SizesInv
  <2> QED BY <1>0, <1>1, <2>1, <2>2, SizesKept
<1>2. CASE TaskletStart
  <2>1. tasklet.pc = "idle" /\ tasklet'.pc = "lock" /\ lock' = lock
    BY <1>0, <1>2 DEF TaskletStart, TypeOK, TaskletType
  <2> QED BY <1>1, <1>2, <2>1 DEF TaskletStart
<1>3. CASE TaskletLock
  <2>1. tasklet.pc = "lock" /\ tasklet'.pc = "test" /\ lock = "free"
    BY <1>0, <1>3 DEF TaskletLock, CanLock, TypeOK, TaskletType
  <2> QED BY <1>1, <1>3, <2>1 DEF TaskletLock
<1>4. CASE TaskletTest
  <2>1. tasklet.pc = "test" /\ tasklet'.pc \in {"take", "unlock"}
    BY <1>0, <1>4 DEF TaskletTest, TypeOK, TaskletType
  <2> QED BY <1>1, <1>4, <2>1 DEF TaskletTest
<1>5. CASE TaskletTake
  <2>1. tasklet.pc = "take" /\ tasklet'.pc = "dec" /\ cbuf'.count = cbuf.count
    BY <1>0, <1>5 DEF TaskletTake, TypeOK, TaskletType, RingType
  <2>2. RingCount = cbuf.count /\ RingCount' = cbuf.count - 1 /\ cbuf.count \in Nat
    BY <1>0, <2>1, SizeAssumption DEF RingCount, TypeOK, RingType
  <2>3. InHand = 0 /\ InHand' = 1
    BY <2>1 DEF InHand
  <2>4. RingCount' + InHand' = RingCount + InHand
    BY <2>2, <2>3
  <2> QED BY <1>0, <1>5, <2>1, <2>4, SizesKept DEF TaskletTake
<1>6. CASE TaskletDec
  <2>1. tasklet.pc = "dec" /\ tasklet'.pc \in {"alloc", "store"}
    BY <1>0, <1>6 DEF TaskletDec, TypeOK, TaskletType
  <2>2. cbuf'.count = cbuf.count - 1
    <3>1. PICK loaded \in {tasklet.count, cbuf.count} :
               cbuf' = [cbuf EXCEPT !.count = loaded - 1]
      BY <1>6 DEF TaskletDec
    <3>2. loaded = cbuf.count
      BY <1>0, <2>1 DEF ExactCount
    <3> QED BY <1>0, <3>1, <3>2 DEF TypeOK, RingType
  <2>3. RingCount' = RingCount /\ InHand' = InHand
    BY <2>1, <2>2 DEF RingCount, InHand
  <2> QED BY <1>0, <1>6, <2>1, <2>3, SizesKept DEF TaskletDec
<1>7. ASSUME NEW f \in Frames, TaskletAlloc(f)
      PROVE  SizesInv'
  <2>1. tasklet.pc = "alloc" /\ tasklet'.pc = "store"
    BY <1>0, <1>7 DEF TaskletAlloc, TypeOK, TaskletType
  <2> QED BY <1>1, <1>7, <2>1 DEF TaskletAlloc
<1>8. CASE TaskletAllocFail
  <2>1. tasklet.pc = "alloc" /\ tasklet'.pc = "idle" /\ lock' = "tasklet"
    BY <1>0, <1>8 DEF TaskletAllocFail, IdleTasklet, Holds, TaskletCritical
  <2> QED BY <1>1, <1>8, <2>1 DEF TaskletAllocFail
<1>9. CASE TaskletStore
  <2>1. tasklet.pc = "store" /\ tasklet'.pc = "test" /\ cbuf' = cbuf
    BY <1>9 DEF TaskletStore, IdleTasklet
  <2>2. /\ RingCount' = RingCount /\ RingCount \in Int /\ InHand = 1 /\ InHand' = 0
        /\ data_size' = data_size + 1 /\ data_size \in Nat /\ sessions' = sessions
    BY <1>0, <1>9, <2>1 DEF TaskletStore, RingCount, InHand, TypeOK, StoreType
  <2>3. Total(sessions.sizes) = data_size + RingCount + 1
    BY <2>2 DEF SizesInv
  <2>4. Total(sessions'.sizes) = data_size' + RingCount' + InHand'
    BY <2>2, <2>3
  <2> QED BY <2>1, <2>4 DEF SizesInv
<1>10. CASE TaskletUnlock
  <2>1. tasklet.pc = "unlock" /\ tasklet'.pc = "wake" /\ lock' = "free"
    BY <1>0, <1>10 DEF TaskletUnlock, TypeOK, TaskletType, Release
  <2> QED BY <1>1, <1>10, <2>1 DEF TaskletUnlock
<1>11. CASE TaskletWake
  <2>1. tasklet.pc = "wake" /\ tasklet'.pc = "idle" /\ lock' = lock /\ lock # "tasklet"
    BY <1>11 DEF TaskletWake, IdleTasklet, SizesInv
  <2> QED BY <1>1, <1>11, <2>1 DEF TaskletWake
<1> QED BY <1>2, <1>3, <1>4, <1>5, <1>6, <1>7, <1>8, <1>9, <1>10, <1>11 DEF TaskletStep

\* On an SMP kernel, wherever the interrupt arrives, whatever the buffer drops and whichever
\* allocation fails, the sizes promised to readers add up to the data stored and the bytes on
\* their way (asgn.c:120-149, 168, 184-198).
THEOREM SizesAddUp == SMP => (PortSpec => []SizesMatchData)
<1> SUFFICES ASSUME SMP PROVE PortSpec => []SizesMatchData
  OBVIOUS
<1>1. PortInit => SizesInv
  <2> SUFFICES ASSUME PortInit PROVE SizesInv
    OBVIOUS
  <2>1. Total(sessions.sizes) = 0
    <3>1. IsFiniteSet(0..MAX_SESSIONS - 1)
      BY SizeAssumption, FS_Interval
    <3> QED BY <3>1, SumOfZeros DEF PortInit
  <2>2. data_size = 0 /\ RingCount = 0 /\ InHand = 0 /\ tasklet.pc = "idle"
    BY DEF PortInit, RingCount, InHand, IdleTasklet
  <2> QED BY <2>1, <2>2 DEF SizesInv
<1>2. LockInv /\ LockInv' /\ SizesInv /\ [PortNext]_portVars => SizesInv'
  <2> SUFFICES ASSUME LockInv, LockInv', SizesInv, [PortNext]_portVars PROVE SizesInv'
    OBVIOUS
  <2>1. CASE UNCHANGED portVars
    BY <2>1 DEF SizesInv, RingCount, InHand, portVars, store
  <2> QED BY <2>1, SizesIrq, SizesTasklet DEF PortNext
<1>3. SizesInv => SizesMatchData
  BY DEF SizesInv, SizesMatchData, Total
<1> QED BY <1>1, <1>2, <1>3, LockAlways, PTL DEF PortSpec
==============================================================================
