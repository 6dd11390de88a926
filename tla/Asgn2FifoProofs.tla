-------------------------- MODULE Asgn2FifoProofs --------------------------
(***************************************************************************)
(* The circular buffer of asgn2 is a bounded first-in first-out queue on   *)
(* an SMP kernel whose interrupt always arrives on the CPU of the tasklet. *)
(* The runs show that neither hypothesis can be dropped.                   *)
(***************************************************************************)
EXTENDS Asgn2PortProofs, SequenceTheorems

\* SMP kernel, interrupt pinned to the CPU of the tasklet.
Pinned == SMP /\ Arrivals \subseteq {Nested}

\* The slot the handler chose before it locked is still the end of the buffer:
\* the tasklet stands still while the handler runs (asgn.c:167, 195).
FreshIndex == /\ irq.at = Nested
              /\ irq.pc \in {"lock", "body"} => irq.cbuf_end = CbufEnd

RingInv == LockInv /\ FreshIndex

LEMMA RingInit == PortInit => RingInv
  BY LockInit DEF PortInit, RingInv, FreshIndex, IdleIrq

LEMMA FreshStep == Pinned /\ RingInv /\ [PortNext]_portVars => FreshIndex'
<1> SUFFICES ASSUME Pinned, RingInv, [PortNext]_portVars
             PROVE  FreshIndex'
  OBVIOUS
<1> USE DEF RingInv, LockInv, TypeInv, TypeOK, FreshIndex
<1>1. ASSUME NEW pins \in PinLevels, FirstHalf(pins)
      PROVE  FreshIndex'
  BY <1>1 DEF FirstHalf, CbufEnd
<1>2. ASSUME NEW pins \in PinLevels, NEW at \in Arrivals, SecondHalf(pins, at)
      PROVE  FreshIndex'
  <2>1. at = Nested
    BY DEF Pinned
  <2> QED BY <1>2, <2>1 DEF SecondHalf, CbufEnd, IrqType
<1>3. CASE IrqLock
  BY <1>3 DEF IrqLock, IrqType, CbufEnd
<1>4. CASE IrqNul
  BY <1>4 DEF IrqNul, IrqType
<1>5. CASE IrqCount
  BY <1>5 DEF IrqCount, IrqType
<1>6. CASE IrqDrop
  BY <1>6 DEF IrqDrop, IdleIrq
<1>7. CASE IrqStore
  BY <1>7 DEF IrqStore, IrqType
<1>8. CASE IrqUnlock
  BY <1>8 DEF IrqUnlock, IdleIrq
<1>9. CASE TaskletStep
  <2>1. irq.pc = "idle" /\ irq' = irq
    BY <1>9 DEF TaskletStep, TaskletStart, TaskletLock, TaskletTest, TaskletTake,
                TaskletDec, TaskletAlloc, TaskletAllocFail, TaskletStore,
                TaskletUnlock, TaskletWake, TaskletMayRun, Nested, Remote
  <2> QED BY <2>1
<1>10. CASE UNCHANGED portVars
  BY <1>10 DEF portVars, CbufEnd
<1> QED BY <1>1, <1>2, <1>3, <1>4, <1>5, <1>6, <1>7, <1>8, <1>9, <1>10
        DEF PortNext, IrqArrives, IrqContinues

LEMMA RingStep == Pinned /\ RingInv /\ [PortNext]_portVars => RingInv'
  BY LockStep, FreshStep DEF RingInv

-----------------------------------------------------------------------------
(* What each step does to the sequence of waiting bytes.                   *)

WaitingBytes ==
  /\ RingCount \in 0..BUFFER_CAPACITY
  /\ Waiting \in Seq(Byte)
  /\ Len(Waiting) = RingCount
  /\ \A i \in 1..RingCount :
       Waiting[i] = cbuf.buffer[(cbuf.head + i - 1) % BUFFER_CAPACITY]

LEMMA WaitingType == TypeInv => WaitingBytes
<1> SUFFICES ASSUME TypeInv PROVE WaitingBytes
  OBVIOUS
<1>1. RingCount \in 0..BUFFER_CAPACITY
  BY SizeAssumption DEF TypeInv, TypeOK, RingType, RingCount, LoadedCount, TaskletType
<1>2. ASSUME NEW i \in 1..RingCount
      PROVE  cbuf.buffer[(cbuf.head + i - 1) % BUFFER_CAPACITY] \in Byte
  <2>1. cbuf.head + i - 1 \in Nat
    BY <1>1, SizeAssumption DEF TypeInv, TypeOK, RingType
  <2>2. (cbuf.head + i - 1) % BUFFER_CAPACITY \in 0..BUFFER_CAPACITY - 1
    BY <2>1, SizeAssumption
  <2> QED BY <2>2 DEF TypeInv, TypeOK, RingType
<1>3. Waiting \in Seq(Byte) /\ Len(Waiting) = RingCount
  BY <1>1, <1>2 DEF Waiting
<1> QED BY <1>1, <1>3 DEF Waiting, WaitingBytes

\* The handler appends the byte it assembled.
LEMMA StoreAppends ==
  ASSUME Pinned, RingInv, IrqStore
  PROVE  /\ RingCount < BUFFER_CAPACITY
         /\ top_full_byte \in Byte
         /\ Waiting' = Append(Waiting, top_full_byte)
         /\ taken' = taken /\ accepted' = Append(accepted, top_full_byte)
<1> USE DEF RingInv, LockInv
<1>1. RingCount = cbuf.count /\ RingCount' = cbuf.count + 1
  <2>1. ~TaskletCritical
    BY DEF IrqStore, Holds, IrqCritical, Pinned
  <2> QED BY <2>1 DEF TaskletCritical, RingCount, IrqStore, TypeInv, TypeOK, RingType
<1>2. /\ cbuf.head \in 0..BUFFER_CAPACITY - 1 /\ cbuf.count \in 0..BUFFER_CAPACITY - 1
      /\ top_full_byte \in Byte /\ irq.cbuf_end = CbufEnd
      /\ CbufEnd \in 0..BUFFER_CAPACITY - 1
  BY SizeAssumption DEF IrqStore, Full, TypeInv, TypeOK, RingType, IrqType,
                        AssemblyType, FreshIndex
<1>3. /\ cbuf'.head = cbuf.head
      /\ cbuf'.buffer = [cbuf.buffer EXCEPT ![CbufEnd] = top_full_byte]
      /\ cbuf.buffer \in [0..BUFFER_CAPACITY - 1 -> Byte]
  BY <1>2 DEF IrqStore, TypeInv, TypeOK, RingType
<1>4. WaitingBytes'
  <2>1. TypeInv'
    BY TypeIrq DEF IrqContinues
  <2> QED BY <2>1, WaitingType, PTL
<1>0. WaitingBytes
  BY WaitingType
<1>5. Len(Waiting') = Len(Waiting) + 1 /\ Waiting' \in Seq(Byte) /\ Waiting \in Seq(Byte)
  BY <1>0, <1>1, <1>4 DEF WaitingBytes
<1>6. ASSUME NEW i \in 1..cbuf.count + 1
      PROVE  Waiting'[i] = Append(Waiting, top_full_byte)[i]
  <2>1. Waiting'[i] = cbuf'.buffer[(cbuf.head + i - 1) % BUFFER_CAPACITY]
    BY <1>1, <1>3 DEF Waiting
  <2>2. CASE i = cbuf.count + 1
    <3>1. (cbuf.head + i - 1) % BUFFER_CAPACITY = CbufEnd
      BY <1>2, <2>2, SizeAssumption DEF CbufEnd
    <3>2. Waiting'[i] = top_full_byte
      BY <1>2, <1>3, <2>1, <3>1
    <3> QED BY <3>2, <2>2, <1>1, <1>5, <1>0 DEF WaitingBytes
  <2>3. CASE i \in 1..cbuf.count
    <3>1. /\ cbuf.head + i - 1 \in 0..2 * BUFFER_CAPACITY - 1
          /\ cbuf.head + cbuf.count \in 0..2 * BUFFER_CAPACITY - 1
      BY <1>2, <2>3, SizeAssumption
    <3>2. (cbuf.head + i - 1) % BUFFER_CAPACITY # CbufEnd
      <4>0. BUFFER_CAPACITY \in Nat \ {0}
        BY SizeAssumption
      <4>1. (cbuf.head + i - 1) % BUFFER_CAPACITY
              = OneTurn(cbuf.head + i - 1, BUFFER_CAPACITY)
        BY <3>1, <4>0, ModOneTurn, Zenon
      <4>2. CbufEnd = OneTurn(cbuf.head + cbuf.count, BUFFER_CAPACITY)
        BY <3>1, <4>0, ModOneTurn, Zenon DEF CbufEnd
      <4> QED BY <4>0, <4>1, <4>2, <1>2, <2>3 DEF OneTurn
    <3>3. (cbuf.head + i - 1) % BUFFER_CAPACITY \in 0..BUFFER_CAPACITY - 1
      BY <3>1, SizeAssumption
    <3>4. Waiting'[i] = cbuf.buffer[(cbuf.head + i - 1) % BUFFER_CAPACITY]
      BY <1>3, <2>1, <3>2, <3>3
    <3>5. Waiting'[i] = Waiting[i]
      BY <1>1, <2>3, <3>4, <1>0 DEF WaitingBytes
    <3> QED BY <3>5, <2>3, <1>1, <1>2, <1>5, <1>0 DEF WaitingBytes
  <2>4. i = cbuf.count + 1 \/ i \in 1..cbuf.count
    BY <1>2, SizeAssumption
  <2> QED BY <2>2, <2>3, <2>4
<1>7. Waiting' = Append(Waiting, top_full_byte)
  <2>1. Append(Waiting, top_full_byte) \in Seq(Byte)
        /\ Len(Append(Waiting, top_full_byte)) = cbuf.count + 1
    BY <1>1, <1>2, <1>5, <1>0 DEF WaitingBytes
  <2>2. Len(Waiting') = cbuf.count + 1
    BY <1>1, <1>5, <1>0 DEF WaitingBytes
  <2> QED BY <1>5, <1>6, <2>1, <2>2, SeqEqual
<1> QED BY <1>1, <1>2, <1>7, SizeAssumption DEF IrqStore

\* The tasklet removes the oldest byte.
LEMMA TakeRemoves ==
  ASSUME Pinned, RingInv, TaskletTake
  PROVE  /\ Waiting # <<>>
         /\ Waiting' = Tail(Waiting)
         /\ taken' = Append(taken, Head(Waiting)) /\ accepted' = accepted
<1> USE DEF RingInv, LockInv
<1>1. /\ RingCount = cbuf.count /\ RingCount' = cbuf.count - 1
      /\ cbuf.count \in 1..BUFFER_CAPACITY
  BY SizeAssumption
     DEF TaskletTake, RingCount, TypeInv, TypeOK, RingType, TaskletType, LoadedCount
<1>2. cbuf.head \in 0..BUFFER_CAPACITY - 1
  BY DEF TypeInv, TypeOK, RingType
<1>3. /\ cbuf'.head = (cbuf.head + 1) % BUFFER_CAPACITY
      /\ cbuf'.buffer = cbuf.buffer
  BY DEF TaskletTake, TypeInv, TypeOK, RingType
<1>4. WaitingBytes'
  <2>1. TypeInv'
    BY TypeTasklet DEF TaskletStep
  <2> QED BY <2>1, WaitingType, PTL
<1>0. WaitingBytes
  BY WaitingType
<1>5. /\ Waiting \in Seq(Byte) /\ Len(Waiting) = cbuf.count
      /\ Waiting' \in Seq(Byte) /\ Len(Waiting') = cbuf.count - 1
  BY <1>0, <1>1, <1>4 DEF WaitingBytes
<1>6. Waiting # <<>> /\ Tail(Waiting) \in Seq(Byte) /\ Len(Tail(Waiting)) = cbuf.count - 1
      /\ Head(Waiting) = Waiting[1]
  BY <1>1, <1>5
<1>7. ASSUME NEW i \in 1..cbuf.count - 1
      PROVE  Waiting'[i] = Tail(Waiting)[i]
  <2>1. Waiting'[i] = cbuf.buffer[(cbuf'.head + i - 1) % BUFFER_CAPACITY]
    BY <1>1, <1>3 DEF Waiting
  <2>2. i + 1 \in 1..cbuf.count
    BY <1>1
  <2>3. Tail(Waiting)[i] = Waiting[i + 1]
    BY <1>5, <1>6, <2>2
  <2>4. Waiting[i + 1] = cbuf.buffer[(cbuf.head + (i + 1) - 1) % BUFFER_CAPACITY]
    BY <1>1, <2>2, <1>0 DEF WaitingBytes
  <2>5. (cbuf'.head + i - 1) % BUFFER_CAPACITY
          = (cbuf.head + (i + 1) - 1) % BUFFER_CAPACITY
    <3>1. /\ cbuf.head + 1 \in 0..2 * BUFFER_CAPACITY - 1
          /\ cbuf.head + (i + 1) - 1 \in 0..2 * BUFFER_CAPACITY - 1
      BY <1>1, <1>2, SizeAssumption
    <3>0. BUFFER_CAPACITY \in Nat \ {0}
      BY SizeAssumption
    <3>2. cbuf'.head = OneTurn(cbuf.head + 1, BUFFER_CAPACITY)
      BY <1>3, <3>0, <3>1, ModOneTurn, Zenon
    <3>3. cbuf'.head + i - 1 \in 0..2 * BUFFER_CAPACITY - 1
      BY <1>1, <1>2, <3>0, <3>2 DEF OneTurn
    <3>4. (cbuf'.head + i - 1) % BUFFER_CAPACITY
            = OneTurn(cbuf'.head + i - 1, BUFFER_CAPACITY)
      BY <3>0, <3>3, ModOneTurn, Zenon
    <3>5. (cbuf.head + (i + 1) - 1) % BUFFER_CAPACITY
            = OneTurn(cbuf.head + (i + 1) - 1, BUFFER_CAPACITY)
      BY <3>0, <3>1, ModOneTurn, Zenon
    <3> QED BY <1>1, <1>2, <3>0, <3>2, <3>4, <3>5 DEF OneTurn
  <2> QED BY <2>1, <2>3, <2>4, <2>5
<1>8. Waiting' = Tail(Waiting)
  BY <1>5, <1>6, <1>7, SeqEqual
<1>9. Head(Waiting) = cbuf.buffer[cbuf.head]
  <2>1. (cbuf.head + 1 - 1) % BUFFER_CAPACITY = cbuf.head
    BY <1>2, SizeAssumption
  <2> QED BY <1>1, <1>6, <2>1, <1>0 DEF WaitingBytes
<1> QED BY <1>6, <1>8, <1>9 DEF TaskletTake

-----------------------------------------------------------------------------
(* First in, first out.                                                    *)

\* Every other step leaves the waiting bytes and the two ghosts alone.
LEMMA OthersKeep ==
  ASSUME Pinned, RingInv, [PortNext]_portVars, ~IrqStore, ~TaskletTake
  PROVE  Waiting' = Waiting /\ taken' = taken /\ accepted' = accepted
<1> USE DEF RingInv, LockInv, TypeInv, TypeOK, assembly, store, ghosts, Waiting, RingCount
<1>1. ASSUME NEW pins \in PinLevels, FirstHalf(pins)
      PROVE  Waiting' = Waiting /\ taken' = taken /\ accepted' = accepted
  BY <1>1 DEF FirstHalf
<1>2. ASSUME NEW pins \in PinLevels, NEW at \in Arrivals, SecondHalf(pins, at)
      PROVE  Waiting' = Waiting /\ taken' = taken /\ accepted' = accepted
  BY <1>2 DEF SecondHalf
<1>3. CASE IrqLock \/ IrqNul \/ IrqCount \/ IrqDrop
  BY <1>3 DEF IrqLock, IrqNul, IrqCount, IrqDrop
<1>4. CASE IrqUnlock
  <2>1. tasklet'.pc = tasklet.pc
    BY <1>4 DEF IrqUnlock, TaskletType
  <2> QED BY <1>4, <2>1 DEF IrqUnlock
<1>5. CASE TaskletStart \/ TaskletLock \/ TaskletTest
  <2>1. tasklet.pc # "dec" /\ tasklet'.pc # "dec"
    BY <1>5 DEF TaskletStart, TaskletLock, TaskletTest, TaskletType
  <2> QED BY <1>5, <2>1 DEF TaskletStart, TaskletLock, TaskletTest
<1>6. CASE TaskletDec
  <2>1. tasklet.pc = "dec" /\ tasklet'.pc # "dec"
    BY <1>6 DEF TaskletDec, TaskletType
  <2>2. /\ cbuf'.count = cbuf.count - 1
        /\ cbuf'.head = cbuf.head /\ cbuf'.buffer = cbuf.buffer
    <3>1. PICK loaded \in {tasklet.count, cbuf.count} :
               cbuf' = [cbuf EXCEPT !.count = loaded - 1]
      BY <1>6 DEF TaskletDec
    <3>2. loaded = cbuf.count
      BY <2>1 DEF ExactCount, Pinned
    <3> QED BY <3>1, <3>2 DEF RingType
  <2> QED BY <1>6, <2>1, <2>2 DEF TaskletDec
<1>7. ASSUME NEW f \in Frames, TaskletAlloc(f)
      PROVE  Waiting' = Waiting /\ taken' = taken /\ accepted' = accepted
  <2>1. tasklet.pc # "dec" /\ tasklet'.pc # "dec"
    BY <1>7 DEF TaskletAlloc, TaskletType
  <2> QED BY <1>7, <2>1 DEF TaskletAlloc
<1>8. CASE TaskletAllocFail \/ TaskletStore
  <2>1. tasklet.pc # "dec" /\ tasklet'.pc # "dec"
    BY <1>8 DEF TaskletAllocFail, TaskletStore, IdleTasklet
  <2> QED BY <1>8, <2>1 DEF TaskletAllocFail, TaskletStore
<1>9. CASE TaskletUnlock \/ TaskletWake
  <2>1. tasklet.pc # "dec" /\ tasklet'.pc # "dec"
    BY <1>9 DEF TaskletUnlock, TaskletWake, IdleTasklet, TaskletType
  <2> QED BY <1>9, <2>1 DEF TaskletUnlock, TaskletWake
<1>10. CASE UNCHANGED portVars
  BY <1>10 DEF portVars
<1> QED BY <1>1, <1>2, <1>3, <1>4, <1>5, <1>6, <1>7, <1>8, <1>9, <1>10
        DEF PortNext, IrqArrives, IrqContinues, TaskletStep

FifoInv == RingInv /\ FifoOrder

LEMMA FifoInvInit == PortInit => FifoInv
<1> SUFFICES ASSUME PortInit PROVE FifoInv
  OBVIOUS
<1>1. Waiting = <<>>
  <2>1. RingInv
    BY RingInit
  <2>2. Waiting \in Seq(Byte) /\ Len(Waiting) = 0
    BY <2>1, WaitingType
       DEF PortInit, RingInv, LockInv, WaitingBytes, RingCount, IdleTasklet
  <2> QED BY <2>2, EmptySeq
<1>2. FifoOrder
  BY <1>1 DEF PortInit, FifoOrder
<1> QED BY <1>2, RingInit DEF FifoInv

LEMMA FifoInvStep == Pinned /\ FifoInv /\ [PortNext]_portVars => FifoInv'
<1> SUFFICES ASSUME Pinned, FifoInv, [PortNext]_portVars
             PROVE  FifoOrder'
  BY RingStep DEF FifoInv
<1>1. /\ RingInv /\ accepted = taken \o Waiting
      /\ Waiting \in Seq(Byte) /\ taken \in Seq(Byte)
  BY WaitingType DEF FifoInv, FifoOrder, RingInv, LockInv, TypeInv, TypeOK, GhostType,
                     WaitingBytes
<1>2. CASE IrqStore
  <2>1. /\ top_full_byte \in Byte /\ taken' = taken
        /\ accepted' = Append(taken \o Waiting, top_full_byte)
        /\ Waiting' = Append(Waiting, top_full_byte)
    BY <1>1, <1>2, StoreAppends
  <2>2. Append(taken \o Waiting, top_full_byte) = (taken \o Waiting) \o <<top_full_byte>>
    BY <1>1, <2>1, AppendIsConcat, ConcatProperties
  <2>3. Append(Waiting, top_full_byte) = Waiting \o <<top_full_byte>>
    BY <1>1, <2>1, AppendIsConcat
  <2>4. <<top_full_byte>> \in Seq(Byte)
    BY <2>1
  <2>5. (taken \o Waiting) \o <<top_full_byte>> = taken \o (Waiting \o <<top_full_byte>>)
    BY <1>1, <2>4, ConcatAssociative
  <2> QED BY <2>1, <2>2, <2>3, <2>5 DEF FifoOrder
<1>3. CASE TaskletTake
  <2>1. /\ Waiting # <<>> /\ Waiting' = Tail(Waiting)
        /\ taken' = Append(taken, Head(Waiting)) /\ accepted' = accepted
    BY <1>1, <1>3, TakeRemoves
  <2>2. Head(Waiting) \in Byte /\ Tail(Waiting) \in Seq(Byte)
    BY <1>1, <2>1, HeadTailProperties
  <2>3. Append(taken, Head(Waiting)) = taken \o <<Head(Waiting)>>
    BY <1>1, <2>2, AppendIsConcat
  <2>4. Waiting = <<Head(Waiting)>> \o Tail(Waiting)
    BY <1>1, <2>1, <2>2
  <2>5. <<Head(Waiting)>> \in Seq(Byte)
    BY <2>2
  <2>6. (taken \o <<Head(Waiting)>>) \o Tail(Waiting)
          = taken \o (<<Head(Waiting)>> \o Tail(Waiting))
    BY <1>1, <2>2, <2>5, ConcatAssociative
  <2> QED BY <1>1, <2>1, <2>3, <2>4, <2>6 DEF FifoOrder
<1>4. CASE ~IrqStore /\ ~TaskletTake
  BY <1>1, <1>4, OthersKeep DEF FifoOrder
<1> QED BY <1>2, <1>3, <1>4

LEMMA FifoInvAlways == Pinned => (PortSpec => []FifoInv)
<1> SUFFICES ASSUME Pinned PROVE PortSpec => []FifoInv
  OBVIOUS
<1>1. FifoInv /\ [PortNext]_portVars => FifoInv'
  BY FifoInvStep
<1> QED BY <1>1, FifoInvInit, PTL DEF PortSpec

\* What the handler stored is what the tasklet removed followed by what waits:
\* no byte is lost, duplicated, overwritten or reordered (asgn.c:119-122,
\* 167, 189-196).
THEOREM FirstInFirstOut == Pinned => (PortSpec => []FifoOrder)
<1> SUFFICES ASSUME Pinned PROVE PortSpec => []FifoOrder
  OBVIOUS
<1>1. FifoInv => FifoOrder
  BY DEF FifoInv
<1> QED BY <1>1, FifoInvAlways, PTL

\* The driver's buffer, with its indices, its lock and its two activities,
\* implements the bounded queue: storing is Put, removing is Get, every other
\* step is a stutter.
THEOREM Refinement == Pinned => (PortSpec => ImplementsFifo)
<1> SUFFICES ASSUME Pinned PROVE PortSpec => ImplementsFifo
  OBVIOUS
<1>1. PortInit => Fifo!FifoInit
  <2> SUFFICES ASSUME PortInit PROVE Fifo!FifoInit
    OBVIOUS
  <2>1. RingInv
    BY RingInit
  <2>2. Waiting \in Seq(Byte) /\ Len(Waiting) = 0
    BY <2>1, WaitingType
       DEF PortInit, RingInv, LockInv, WaitingBytes, RingCount, IdleTasklet
  <2>3. Waiting = <<>>
    BY <2>2, EmptySeq
  <2> QED BY <2>3 DEF PortInit, Fifo!FifoInit
<1>2. RingInv /\ [PortNext]_portVars => [Fifo!FifoNext]_Fifo!fifoVars
  <2> SUFFICES ASSUME RingInv, [PortNext]_portVars
               PROVE  [Fifo!FifoNext]_Fifo!fifoVars
    OBVIOUS
  <2>1. CASE IrqStore
    <3>1. Len(Waiting) = RingCount
      BY WaitingType DEF RingInv, LockInv, WaitingBytes
    <3>2. Fifo!Put(top_full_byte) /\ top_full_byte \in Byte
      BY <2>1, <3>1, StoreAppends DEF Fifo!Put
    <3> QED BY <3>2 DEF Fifo!FifoNext
  <2>2. CASE TaskletTake
    BY <2>2, TakeRemoves DEF Fifo!Get, Fifo!FifoNext
  <2>3. CASE ~IrqStore /\ ~TaskletTake
    BY <2>3, OthersKeep DEF Fifo!fifoVars
  <2> QED BY <2>1, <2>2, <2>3
<1>3. FifoInv => RingInv
  BY DEF FifoInv
<1> QED BY <1>1, <1>2, <1>3, FifoInvAlways, PTL
        DEF PortSpec, ImplementsFifo, Fifo!FifoSpec

-----------------------------------------------------------------------------
(* From the buffer to the first page.                                      *)

\* The byte that is taken and not yet stored is the last of those taken.  (After a failed
\* allocation the lock is never free again, and the tasklet takes no more.)
Holding == tasklet.pc \in {"dec", "alloc", "store"}
Settled == lock # "tasklet" \/ tasklet.pc \in {"test", "take", "unlock"}
Begins(s, t) == Len(s) <= Len(t) /\ \A i \in 1..Len(s) : t[i] = s[i]
TakenInv == /\ Settled => taken = copied
            /\ Holding => taken = Append(copied, tasklet.byte)
            /\ Begins(copied, taken)

\* Where the tasklet is in the first page.
FirstPageInv ==
  /\ Len(copied) > 0 => mem_list # <<>>
  /\ Len(copied) < PAGE_SIZE => write_offset = Len(copied)
  /\ Len(copied) = 0 /\ tasklet.pc # "store" => mem_list = <<>>
  /\ tasklet.pc \in {"alloc", "store"} => tasklet.begin_offset = write_offset
  /\ tasklet.pc = "alloc" => write_offset = 0
  /\ Len(copied) < PAGE_SIZE /\ tasklet.pc = "store" => tasklet.curr = Head(mem_list)
\* The bytes that are on it.
OnFirstPage(list, content, bytes) ==
  Len(bytes) <= PAGE_SIZE =>
    \A i \in 1..Len(bytes) : content[Head(list)][i - 1] = bytes[i]
PlacedInv == FirstPageInv /\ OnFirstPage(mem_list, page, copied)

LEMMA AppendBegins ==
  ASSUME NEW s \in Seq(Byte), NEW b \in Byte
  PROVE  Begins(s, Append(s, b)) /\ Begins(s, s)
BY DEF Begins

\* One byte more after a sequence that is a beginning.
LEMMA BeginsAppend ==
  ASSUME NEW s \in Seq(Byte), NEW t \in Seq(Byte), NEW b \in Byte, Begins(s, t)
  PROVE  Begins(s, Append(t, b))
BY DEF Begins

\* A step that takes and stores no byte.
LEMMA TakenKept ==
  ASSUME TakenInv, UNCHANGED <<taken, copied>>, tasklet'.byte = tasklet.byte \/ ~Holding',
         Settled' => Settled, Holding' => Holding
  PROVE  TakenInv'
BY DEF TakenInv

LEMMA TakenStep ==
  ASSUME SMP, LockInv, TakenInv, [PortNext]_portVars
  PROVE  TakenInv'
<1> USE DEF LockInv, TypeInv, TypeOK, IrqType, TaskletType, GhostType
<1>1. ASSUME NEW pins \in PinLevels, FirstHalf(pins)
      PROVE  TakenInv'
  BY <1>1, TakenKept DEF FirstHalf, Holding, Settled, store, ghosts
<1>2. ASSUME NEW pins \in PinLevels, NEW at \in Arrivals, SecondHalf(pins, at)
      PROVE  TakenInv'
  BY <1>2, TakenKept DEF SecondHalf, Holding, Settled, store, ghosts
<1>3. CASE IrqContinues
  <2>1. /\ UNCHANGED <<taken, copied>>
        /\ tasklet'.pc = tasklet.pc /\ tasklet'.byte = tasklet.byte
    BY <1>3 DEF IrqContinues, IrqLock, IrqNul, IrqCount, IrqDrop, IrqStore, IrqUnlock,
                store, ghosts
  <2>2. Settled' => Settled
    <3>1. lock' = lock \/ lock = "free" \/ lock = "irq"
      BY <1>3 DEF IrqContinues, IrqLock, IrqNul, IrqCount, IrqDrop, IrqStore, IrqUnlock,
                  CanLock, Holds, IrqCritical
    <3> QED BY <2>1, <3>1 DEF Settled
  <2> QED BY <2>1, <2>2, TakenKept DEF Holding
<1>4. CASE TaskletStart
  BY <1>4, TakenKept DEF TaskletStart, Holding, Settled, store, ghosts
<1>5. CASE TaskletLock
  <2>1. tasklet'.pc = "test" /\ lock = "free" /\ UNCHANGED <<taken, copied>>
    BY <1>5 DEF TaskletLock, CanLock, store, ghosts
  <2> QED BY <2>1 DEF TakenInv, Holding, Settled
<1>6. CASE TaskletTest
  BY <1>6, TakenKept DEF TaskletTest, Holding, Settled, store, ghosts
<1>7. CASE TaskletTake
  <2> DEFINE b == cbuf.buffer[cbuf.head]
  <2>1. /\ taken' = Append(taken, b) /\ tasklet'.byte = b /\ tasklet'.pc = "dec"
        /\ lock' = lock /\ copied' = copied /\ tasklet.pc = "take"
    BY <1>7 DEF TaskletTake, store
  <2>2. b \in Byte
    BY SizeAssumption DEF RingType
  <2>3. lock = "tasklet"
    BY <2>1 DEF Holds, TaskletCritical
  <2>4. taken = copied
    BY <2>1 DEF TakenInv, Settled
  <2> HIDE DEF b
  <2>5. Begins(copied, taken')
    BY <2>1, <2>2, <2>4, AppendBegins
  <2> QED BY <2>1, <2>3, <2>4, <2>5 DEF TakenInv, Holding, Settled
<1>8. CASE TaskletDec
  <2>1. tasklet.pc = "dec" /\ lock = "tasklet"
    BY <1>8 DEF TaskletDec, Holds, TaskletCritical
  <2> QED BY <1>8, <2>1, TakenKept DEF TaskletDec, Holding, Settled, store, ghosts
<1>9. ASSUME NEW f \in Frames, TaskletAlloc(f)
      PROVE  TakenInv'
  <2>1. tasklet.pc = "alloc" /\ lock = "tasklet"
    BY <1>9 DEF TaskletAlloc, Holds, TaskletCritical
  <2> QED BY <1>9, <2>1, TakenKept DEF TaskletAlloc, Holding, Settled, ghosts
<1>10. CASE TaskletAllocFail
  <2>1. tasklet.pc = "alloc" /\ lock = "tasklet"
    BY <1>10 DEF TaskletAllocFail, Holds, TaskletCritical
  <2> QED BY <1>10, <2>1, TakenKept
          DEF TaskletAllocFail, IdleTasklet, Holding, Settled, store, ghosts
<1>11. CASE TaskletStore
  <2>1. /\ copied' = Append(copied, tasklet.byte) /\ taken' = taken
        /\ tasklet'.pc = "test" /\ tasklet.pc = "store"
    BY <1>11 DEF TaskletStore, IdleTasklet, ghosts
  <2>2. taken' = copied'
    BY <2>1 DEF TakenInv, Holding
  <2>3. copied' \in Seq(Byte)
    BY <2>1
  <2>4. Begins(copied', taken')
    BY <2>2, <2>3 DEF Begins
  <2> QED BY <2>1, <2>2, <2>4 DEF TakenInv, Holding
<1>12. CASE TaskletUnlock
  <2>1. /\ tasklet.pc = "unlock" /\ tasklet'.pc = "wake" /\ UNCHANGED <<taken, copied>>
    BY <1>12 DEF TaskletUnlock, store, ghosts
  <2>2. Settled
    BY <2>1 DEF Settled
  <2> QED BY <2>1, <2>2 DEF TakenInv, Holding
<1>13. CASE TaskletWake
  BY <1>13, TakenKept DEF TaskletWake, IdleTasklet, Holding, Settled, store, ghosts
<1>14. CASE UNCHANGED portVars
  BY <1>14, TakenKept DEF portVars, Holding, Settled, store, ghosts
<1> QED BY <1>1, <1>2, <1>3, <1>4, <1>5, <1>6, <1>7, <1>8, <1>9, <1>10, <1>11, <1>12,
           <1>13, <1>14
        DEF PortNext, IrqArrives, TaskletStep

\* A step that leaves the list, the pages and the place in them alone.
LEMMA PlacedKept ==
  ASSUME TypeInv, PlacedInv, UNCHANGED <<mem_list, page, write_offset, copied>>,
         tasklet'.pc # "alloc",
         tasklet.pc = "store" \/ tasklet'.pc = "store" =>
           tasklet'.pc = tasklet.pc /\ UNCHANGED <<tasklet.begin_offset, tasklet.curr>>
  PROVE  PlacedInv'
BY DEF PlacedInv, FirstPageInv

\* The byte is stored where it belongs.
LEMMA ByteStored ==
  ASSUME TypeInv, PlacedInv, TaskletStore
  PROVE  PlacedInv'
<1> DEFINE n == Len(copied)
<1>1. /\ page' = [page EXCEPT ![tasklet.curr][tasklet.begin_offset] = tasklet.byte]
      /\ copied' = Append(copied, tasklet.byte) /\ mem_list' = mem_list
      /\ write_offset' = (write_offset + 1) % PAGE_SIZE
      /\ tasklet.pc = "store" /\ tasklet'.pc = "test"
  BY DEF TaskletStore, IdleTasklet
<1>2. /\ copied \in Seq(Byte) /\ tasklet.byte \in Byte /\ n \in Nat
      /\ page \in [Frames -> [0..PAGE_SIZE - 1 -> Byte]] /\ mem_list # <<>>
      /\ tasklet.curr \in Frames /\ tasklet.begin_offset \in 0..PAGE_SIZE - 1
      /\ tasklet.begin_offset = write_offset
  BY <1>1 DEF TypeInv, TypeOK, GhostType, StoreType, TaskletType, FirstPage,
              PlacedInv, FirstPageInv
<1>3. Len(copied') = n + 1 /\ \A i \in 1..n + 1 :
        copied'[i] = IF i = n + 1 THEN tasklet.byte ELSE copied[i]
  BY <1>1, <1>2
<1>4. n < PAGE_SIZE => write_offset = n /\ tasklet.curr = Head(mem_list)
  BY <1>1 DEF PlacedInv, FirstPageInv
<1>5. n + 1 < PAGE_SIZE => write_offset' = n + 1
  <2> SUFFICES ASSUME n + 1 < PAGE_SIZE PROVE write_offset' = n + 1
    OBVIOUS
  <2>1. n + 1 \in 0..2 * PAGE_SIZE - 1 /\ write_offset = n
    BY <1>2, <1>4, SizeAssumption
  <2>2. (n + 1) % PAGE_SIZE = n + 1
    BY <2>1, ModOneTurn, SizeAssumption DEF OneTurn
  <2> QED BY <1>1, <2>1, <2>2
<1>6. FirstPageInv'
  BY <1>1, <1>2, <1>3, <1>5 DEF FirstPageInv
<1>7. ASSUME n + 1 <= PAGE_SIZE, NEW i \in 1..n + 1
      PROVE  page'[Head(mem_list)][i - 1] = copied'[i]
  <2> DEFINE f == Head(mem_list)
             at == tasklet.begin_offset
  <2>1. tasklet.curr = f /\ at = n /\ f \in Frames /\ i \in Nat
    BY <1>2, <1>4, <1>7, SizeAssumption
  <2>2. i - 1 \in 0..PAGE_SIZE - 1
    BY <1>2, <1>7, SizeAssumption
  <2>3. page[f] \in [0..PAGE_SIZE - 1 -> Byte]
    BY <1>2, <2>1
  <2>4. page'[f] = [page[f] EXCEPT ![at] = tasklet.byte]
    BY <1>1, <1>2, <2>1
  <2>5. page'[f][i - 1] = IF i - 1 = at THEN tasklet.byte ELSE page[f][i - 1]
    BY <2>2, <2>3, <2>4
  <2>6. i # n + 1 => page[f][i - 1] = copied[i]
    <3>1. n <= PAGE_SIZE /\ (i # n + 1 => i \in 1..Len(copied))
      BY <1>2, <1>7, SizeAssumption
    <3> QED BY <3>1 DEF PlacedInv, OnFirstPage
  <2> HIDE DEF f, at, n
  <2> QED BY <1>2, <1>3, <2>1, <2>5, <2>6 DEF f
<1>8. OnFirstPage(mem_list', page', copied')
  BY <1>1, <1>3, <1>7 DEF OnFirstPage
<1> QED BY <1>6, <1>8 DEF PlacedInv

LEMMA PlacedStep ==
  ASSUME TypeInv, PlacedInv, [PortNext]_portVars
  PROVE  PlacedInv'
<1> USE DEF TypeInv, TypeOK, TaskletType
<1>1. CASE IrqArrives \/ IrqContinues \/ UNCHANGED portVars
  <2>1. UNCHANGED store
    BY <1>1 DEF IrqArrives, IrqContinues, FirstHalf, SecondHalf, IrqLock, IrqNul, IrqCount,
                IrqDrop, IrqStore, IrqUnlock, portVars
  <2>2. UNCHANGED <<tasklet.pc, tasklet.begin_offset, tasklet.curr>>
    BY <1>1 DEF IrqArrives, IrqContinues, FirstHalf, SecondHalf, IrqLock, IrqNul, IrqCount,
                IrqDrop, IrqStore, IrqUnlock, portVars
  <2> QED BY <2>1, <2>2 DEF PlacedInv, FirstPageInv, store
<1>2. CASE TaskletStart
  BY <1>2, PlacedKept DEF TaskletStart, store
<1>3. CASE TaskletLock
  BY <1>3, PlacedKept DEF TaskletLock, store
<1>4. CASE TaskletTest
  BY <1>4, PlacedKept DEF TaskletTest, store
<1>5. CASE TaskletTake
  BY <1>5, PlacedKept DEF TaskletTake, store
<1>6. CASE TaskletDec
  <2>1. /\ UNCHANGED <<mem_list, page, write_offset, copied>>
        /\ tasklet.pc = "dec" /\ tasklet'.begin_offset = write_offset
        /\ tasklet'.pc = IF write_offset = 0 THEN "alloc" ELSE "store"
        /\ write_offset # 0 /\ mem_list # <<>> => tasklet'.curr = Head(mem_list)
    BY <1>6 DEF TaskletDec, store
  <2>2. write_offset # 0 => mem_list # <<>>
    BY DEF FirstPage
  <2> QED BY <2>1, <2>2 DEF PlacedInv, FirstPageInv
<1>7. ASSUME NEW f \in Frames, TaskletAlloc(f)
      PROVE  PlacedInv'
  <2>1. /\ mem_list' = Append(mem_list, f) /\ UNCHANGED <<page, write_offset, copied>>
        /\ tasklet.pc = "alloc" /\ tasklet'.pc = "store" /\ tasklet'.curr = f
        /\ tasklet'.begin_offset = tasklet.begin_offset
    BY <1>7 DEF TaskletAlloc
  <2>2. mem_list \in Seq(Frames) /\ copied \in Seq(Byte) /\ Len(copied) \in Nat
    BY DEF StoreType, GhostType
  <2>3. /\ mem_list' # <<>>
        /\ Head(mem_list') = IF mem_list = <<>> THEN f ELSE Head(mem_list)
    BY <2>1, <2>2
  <2>4. Len(copied) < PAGE_SIZE => Len(copied) = 0 /\ mem_list = <<>>
    BY <2>1, <2>2 DEF PlacedInv, FirstPageInv
  <2>5. FirstPageInv'
    BY <2>1, <2>2, <2>3, <2>4 DEF PlacedInv, FirstPageInv
  <2>6. Len(copied) > 0 => Head(mem_list') = Head(mem_list)
    BY <2>3 DEF PlacedInv, FirstPageInv
  <2>7. OnFirstPage(mem_list', page', copied')
    BY <2>1, <2>2, <2>6 DEF PlacedInv, OnFirstPage
  <2> QED BY <2>5, <2>7 DEF PlacedInv
<1>8. CASE TaskletAllocFail
  BY <1>8, PlacedKept DEF TaskletAllocFail, IdleTasklet, store
<1>9. CASE TaskletStore
  BY <1>9, ByteStored
<1>10. CASE TaskletUnlock
  BY <1>10, PlacedKept DEF TaskletUnlock, store
<1>11. CASE TaskletWake
  BY <1>11, PlacedKept DEF TaskletWake, IdleTasklet, store
<1> QED BY <1>1, <1>2, <1>3, <1>4, <1>5, <1>6, <1>7, <1>8, <1>9, <1>10, <1>11
        DEF PortNext, TaskletStep

LEMMA StoredInit == PortInit => TakenInv /\ PlacedInv
<1> SUFFICES ASSUME PortInit PROVE TakenInv /\ PlacedInv
  OBVIOUS
<1>1. Len(<<>>) = 0
  OBVIOUS
<1> QED BY <1>1 DEF PortInit, IdleTasklet, TakenInv, Begins, Holding, PlacedInv,
                    FirstPageInv, OnFirstPage

\* As long as one page holds everything, byte i that was accepted from the port ends up as
\* byte i of that page, also when the buffer drops bytes or a page cannot be had
\* (asgn.c:119-149 with 164-206).
THEOREM PlacedInOrder == Pinned => (PortSpec => []StoredInOrder)
<1> SUFFICES ASSUME Pinned PROVE PortSpec => []StoredInOrder
  OBVIOUS
<1> DEFINE Inv == FifoInv /\ TakenInv /\ PlacedInv
<1>1. Inv /\ [PortNext]_portVars => Inv'
  BY FifoInvStep, TakenStep, PlacedStep DEF FifoInv, RingInv, LockInv, Pinned
<1>2. PortInit => Inv
  BY FifoInvInit, StoredInit
<1>3. Inv => StoredInOrder
  <2> SUFFICES ASSUME FifoInv, TakenInv, PlacedInv, Len(copied) <= PAGE_SIZE,
                      NEW i \in 1..Len(copied)
               PROVE  page[Head(mem_list)][i - 1] = accepted[i]
    BY DEF StoredInOrder
  <2>1. TypeInv /\ accepted = taken \o Waiting
    BY DEF FifoInv, RingInv, LockInv, FifoOrder
  <2>2. taken \in Seq(Byte) /\ copied \in Seq(Byte) /\ Waiting \in Seq(Byte)
    BY <2>1, WaitingType DEF TypeInv, TypeOK, GhostType, WaitingBytes
  <2>3. i \in 1..Len(taken) /\ taken[i] = copied[i]
    BY <2>2 DEF TakenInv, Begins
  <2>4. accepted[i] = taken[i]
    BY <2>1, <2>2, <2>3
  <2>5. page[Head(mem_list)][i - 1] = copied[i]
    BY DEF PlacedInv, OnFirstPage
  <2> QED BY <2>3, <2>4, <2>5
<1> QED BY <1>1, <1>2, <1>3, PTL DEF PortSpec
==============================================================================
