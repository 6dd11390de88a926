---------------------------- MODULE RamDiskProofs ----------------------------
(***************************************************************************)
(* The disk of asgn1 for pages, frames and processes of any number: types; *)
(* when nobody empties it under another, that its pages hold the data and  *)
(* that mappings show them; and for processes that have it one at a time,  *)
(* that it is a file: each byte is kept, and read back.                    *)
(***************************************************************************)
EXTENDS RamDisk, FiniteSetTheorems, SequenceTheorems, TLAPS

Bytes == Values \cup {Junk, Zero}
FileBytes == Values \cup {Unknown, Zero}
Pages == Frames \cup {NoPage}
Content == [Frames -> [0..PAGE_SIZE - 1 -> Bytes]]

Locals == [pc : {"closed", "open", "alloc", "reading", "writing"},
           mode : {"", "r", "w", "rw"}, f_pos : Nat, vma : Seq(Pages), vm_pgoff : Nat,
           data : Seq(Bytes), count : Nat, limit : Nat, done : Nat,
           begin_offset : 0..PAGE_SIZE - 1, curr : Pages, fault : BOOLEAN]

\* What a call knows of itself: it moves no more than it was asked, it is in a page, and
\* a write has the bytes it is to store.
Sound(local) ==
  /\ local \in Locals /\ local.done <= local.limit
  /\ local.pc \in {"reading", "writing"} => local.curr \in Frames
  /\ local.pc \in {"alloc", "writing"} =>
       local.data \in Seq(Values) /\ Len(local.data) = local.limit
  /\ local.pc = "alloc" => local.done = 0 /\ ~local.fault

Globals == /\ mem_list \in Seq(Frames) /\ num_pages \in Nat /\ data_size \in Nat
           /\ page \in Content /\ max_nprocs \in Nat
           /\ file \in Seq(FileBytes)
OpenFiles == {p \in Procs : proc[p].pc # "closed"}
TypeInv == /\ Globals /\ proc \in [Procs -> Locals] /\ nprocs = Cardinality(OpenFiles)
           /\ \A p \in Procs : Sound(proc[p])

\* The pages hold what is on the disk and what a call is about to move, and a mapping
\* shows them.
Fits(local, list, pages, size) ==
  /\ local.f_pos <= pages * PAGE_SIZE
  /\ local.pc = "writing" => local.f_pos + local.limit <= pages * PAGE_SIZE
  /\ local.pc = "reading" => local.f_pos + local.limit <= size
  /\ local.vm_pgoff = 0
  /\ \A i \in DOMAIN local.vma :
       local.vma[i] # NoPage => PageAt(list, i - 1) = local.vma[i]
FitInv == /\ num_pages = Len(mem_list) /\ data_size <= BufferSize
          /\ \A p \in Procs : Fits(proc[p], mem_list, num_pages, data_size)

\* max_nprocs stays at its value of load, or lower: processes have the disk one at a time.
\* (What that gives: no other has it open; and a process that has closed it forgets all.)
OneAtATime == NprocLimits \subseteq {0, 1}
Alone(p) == \A q \in Procs : q # p => proc[q].pc = "closed"
TurnInv == /\ \A q \in Procs : proc[q].pc = "closed" => proc[q] = Closed
           /\ OneAtATime => /\ max_nprocs <= 1
                            /\ \A q \in Procs : proc[q].pc # "closed" => Alone(q)

\* Nobody empties the disk (opens it write-only) under another process, and mappings begin
\* at its first page: mmap takes no other offset for a disk of fewer than 4096 pages.
Undisturbed == MapOffsets = {0} /\ ("w" \in Modes => OneAtATime)

\* A step of a call: the disk only grows.
Extended == /\ num_pages' = Len(mem_list') /\ num_pages' >= num_pages
            /\ \A n \in Nat : PageAt(mem_list, n) # NoPage =>
                                PageAt(mem_list', n) = PageAt(mem_list, n)
Grown == Extended /\ data_size' <= BufferSize' /\ data_size' >= data_size
Moves(p, next) ==
  /\ Sound(next) /\ next.pc # "closed" /\ proc[p].pc # "closed"
  /\ proc' = [proc EXCEPT ![p] = next] /\ nprocs' = nprocs /\ Globals'
  /\ Undisturbed /\ FitInv => Grown /\ Fits(next, mem_list', num_pages', data_size')

-----------------------------------------------------------------------------
(* Numbers, pages and calls.                                               *)

LEMMA TwoNumbers ==
  ASSUME NEW x \in Int, NEW y \in Int
  PROVE  /\ Max({x, y}) \in {x, y} /\ Max({x, y}) >= x /\ Max({x, y}) >= y
         /\ Min({x, y}) \in {x, y} /\ Min({x, y}) <= x /\ Min({x, y}) <= y
<1>1. PICK z \in {x, y} : \A w \in {x, y} : z >= w
  OBVIOUS
<1>2. PICK u \in {x, y} : \A w \in {x, y} : u =< w
  OBVIOUS
<1> QED BY <1>1, <1>2 DEF Max, Min

LEMMA PlaceOfByte ==
  ASSUME NEW pos \in Nat, NEW size \in Nat \ {0}
  PROVE  pos \div size \in Nat /\ pos % size \in 0..size - 1
<1>1. pos % size \in 0..size - 1
  OBVIOUS
<1>2. pos \div size \in Int
  OBVIOUS
<1>3. pos \div size >= 0
  OBVIOUS
<1> QED BY <1>1, <1>2, <1>3

LEMMA PageFound ==
  ASSUME NEW list \in Seq(Frames), NEW no \in Nat
  PROVE  PageAt(list, no) \in Pages
BY DEF PageAt, Pages

LEMMA NextFound ==
  ASSUME mem_list \in Seq(Frames), NEW f \in ToSet(mem_list)
  PROVE  After(f) \in Pages
<1>1. PICK i \in DOMAIN mem_list : mem_list[i] = f
  BY DEF ToSet
<1> DEFINE at == CHOOSE j \in DOMAIN mem_list : mem_list[j] = f
<1>2. at \in DOMAIN mem_list
  BY <1>1
<1>3. at \in Nat
  BY <1>2
<1> HIDE DEF at
<1>4. PageAt(mem_list, at) \in Pages
  BY <1>3, PageFound
<1> QED BY <1>4 DEF After, at, PageAt

LEMMA Fields ==
  ASSUME NEW local \in Locals
  PROVE  /\ {local.f_pos, local.limit, local.done, local.vm_pgoff} \subseteq Nat
         /\ local.begin_offset \in 0..PAGE_SIZE - 1 /\ local.curr \in Pages
         /\ local.data \in Seq(Bytes) /\ local.vma \in Seq(Pages)
BY DEF Locals

LEMMA ClosedSound ==
  /\ Sound(Closed) /\ Closed.pc = "closed" /\ Closed.done = 0 /\ Closed.limit = 0
  /\ Closed.fault = FALSE
<1>1. 0 \in 0..PAGE_SIZE - 1 /\ NoPage \in Pages
  BY SizeAssumption DEF Pages
<1>2. <<>> \in Seq(Bytes) /\ <<>> \in Seq(Pages)
  OBVIOUS
<1>3. Closed \in Locals
  BY <1>1, <1>2 DEF Closed, Locals
<1>4. /\ Closed.pc = "closed" /\ Closed.done = 0 /\ Closed.limit = 0
      /\ Closed.fault = FALSE
  BY DEF Closed
<1> QED BY <1>3, <1>4 DEF Sound

LEMMA IdleSound ==
  ASSUME NEW local \in Locals
  PROVE  /\ Sound(Idle(local)) /\ Idle(local).pc = "open" /\ Idle(local).done = 0
         /\ Idle(local).limit = 0 /\ Idle(local).mode = local.mode
         /\ Idle(local).f_pos = local.f_pos
         /\ Idle(local).vma = local.vma /\ Idle(local).vm_pgoff = local.vm_pgoff
<1>1. Idle(local) \in Locals
  BY ClosedSound DEF Idle, Sound, Locals
<1>2. /\ Idle(local).pc = "open" /\ Idle(local).done = 0
      /\ Idle(local).limit = 0 /\ Idle(local).mode = local.mode
      /\ Idle(local).f_pos = local.f_pos
      /\ Idle(local).vma = local.vma /\ Idle(local).vm_pgoff = local.vm_pgoff
  BY ClosedSound DEF Idle, Sound, Locals
<1> QED BY <1>1, <1>2 DEF Sound

\* The fields of a call that begins on its first page, or goes on.
LEMMA OnPageFields ==
  ASSUME NEW local \in Locals, NEW list \in Seq(Frames), NEW pc \in {"reading", "writing"}
  PROVE  LET next == OnPage(local, list, pc)
         IN  /\ next \in Locals /\ next.pc = pc /\ next.f_pos = local.f_pos
             /\ next.limit = local.limit /\ next.done = local.done
             /\ next.data = local.data /\ next.vma = local.vma
             /\ next.vm_pgoff = local.vm_pgoff
<1> DEFINE first == PageAt(list, local.f_pos \div PAGE_SIZE)
           begin == local.f_pos % PAGE_SIZE
<1>1. local.f_pos \div PAGE_SIZE \in Nat /\ begin \in 0..PAGE_SIZE - 1
  BY SizeAssumption, Fields, PlaceOfByte
<1>2. first \in Pages
  BY <1>1, PageFound
<1>3. OnPage(local, list, pc) = [local EXCEPT !.pc = pc, !.curr = first, !.begin_offset = begin]
  BY Zenon DEF OnPage
<1> HIDE DEF first, begin
<1> QED BY <1>1, <1>2, <1>3 DEF Locals

LEMMA CopiedFields ==
  ASSUME NEW local \in Locals, local.done <= local.limit, NEW n \in 0..PAGE_SIZE,
         CanCopy(local, n)
  PROVE  LET next == Copied(local, n)
         IN  /\ next \in Locals /\ next.pc = local.pc /\ next.f_pos = local.f_pos
             /\ next.limit = local.limit /\ next.done = local.done + n
             /\ next.done <= next.limit /\ next.begin_offset = 0
             /\ next.data = local.data /\ next.vma = local.vma
             /\ next.vm_pgoff = local.vm_pgoff /\ next.curr = local.curr
             /\ local.begin_offset + n <= PAGE_SIZE
<1> DEFINE x == PAGE_SIZE - local.begin_offset
           y == local.limit - local.done
           m == local.done + n
<1>1. x \in Int /\ y \in Int /\ x >= 0 /\ y >= 0 /\ 0 \in 0..PAGE_SIZE - 1
  BY SizeAssumption, Fields
<1>2. InPage(local) = Min({x, y})
  BY DEF InPage
<1> HIDE DEF x, y
<1>3. InPage(local) \in {x, y} /\ InPage(local) <= x /\ InPage(local) <= y
  BY <1>1, <1>2, TwoNumbers
<1>4. n <= x /\ n <= y
  BY <1>1, <1>3, SizeAssumption DEF CanCopy
<1>5. m \in Nat /\ m <= local.limit /\ local.begin_offset + n <= PAGE_SIZE
  BY <1>4, SizeAssumption, Fields DEF x, y
<1>6. PICK short \in BOOLEAN :
        Copied(local, n) = [local EXCEPT !.done = m, !.fault = short, !.begin_offset = 0]
  <2>1. (n < InPage(local)) \in BOOLEAN
    BY <1>1, <1>3
  <2> QED BY <2>1, Zenon DEF Copied
<1>7. Copied(local, n) \in Locals
  <2> HIDE DEF m
  <2> QED BY <1>1, <1>5, <1>6 DEF Locals
<1>8. LET next == Copied(local, n)
      IN  /\ next.pc = local.pc /\ next.f_pos = local.f_pos /\ next.limit = local.limit
          /\ next.done = m /\ next.begin_offset = 0 /\ next.data = local.data
          /\ next.vma = local.vma /\ next.vm_pgoff = local.vm_pgoff
          /\ next.curr = local.curr
  <2> HIDE DEF m
  <2> QED BY <1>6 DEF Locals
<1> QED BY <1>5, <1>7, <1>8

-----------------------------------------------------------------------------
(* A step of a call keeps the invariants.                                  *)

LEMMA Bigger ==
  ASSUME NEW m \in Nat, NEW n \in Nat, m <= n, NEW size \in Nat
  PROVE  m * size <= n * size
<1>1. PICK k \in Nat : n = m + k
  <2>1. n - m \in Nat /\ n = m + (n - m)
    OBVIOUS
  <2> QED BY <2>1
<1>2. n * size = m * size + k * size
  BY <1>1
<1>3. k * size >= 0 /\ m * size \in Int /\ k * size \in Int
  OBVIOUS
<1> QED BY <1>2, <1>3

LEMMA Product ==
  ASSUME NEW m \in Nat, NEW size \in Nat
  PROVE  m * size \in Nat
OBVIOUS

LEMMA MovesKeepsTypes ==
  ASSUME TypeInv, NEW p \in Procs, NEW next, Moves(p, next)
  PROVE  TypeInv'
<1>1. next \in Locals /\ proc' \in [Procs -> Locals]
  BY DEF Moves, TypeInv, Sound
<1>2. OpenFiles' = OpenFiles
  BY DEF Moves, TypeInv, OpenFiles
<1>3. \A q \in Procs : Sound(proc'[q])
  BY DEF Moves, TypeInv
<1> QED BY <1>1, <1>2, <1>3 DEF Moves, TypeInv

LEMMA MovesKeepsFit ==
  ASSUME TypeInv, Undisturbed, FitInv, NEW p \in Procs, NEW next, Moves(p, next)
  PROVE  FitInv'
<1>1. Grown /\ Fits(next, mem_list', num_pages', data_size')
  BY DEF Moves
<1>2. num_pages * PAGE_SIZE <= num_pages' * PAGE_SIZE
  BY <1>1, Bigger, SizeAssumption DEF Grown, Extended, Moves, TypeInv, Globals
<1>3. ASSUME NEW q \in Procs, q # p
      PROVE  Fits(proc'[q], mem_list', num_pages', data_size')
  <2> DEFINE local == proc[q]
  <2>1. proc'[q] = local /\ local \in Locals
    BY <1>3 DEF Moves, TypeInv
  <2>2. Fits(local, mem_list, num_pages, data_size)
    BY DEF FitInv
  <2> HIDE DEF local
  <2>3. /\ num_pages * PAGE_SIZE \in Nat /\ num_pages' * PAGE_SIZE \in Nat
        /\ data_size \in Nat /\ data_size' \in Nat
        /\ local.f_pos \in Nat /\ local.limit \in Nat /\ local.vma \in Seq(Pages)
    <3>1. num_pages \in Nat /\ num_pages' \in Nat /\ data_size \in Nat /\ data_size' \in Nat
      BY DEF Moves, TypeInv, Globals
    <3>2. num_pages * PAGE_SIZE \in Nat /\ num_pages' * PAGE_SIZE \in Nat
      BY <3>1, SizeAssumption, Product
    <3> QED BY <2>1, <3>1, <3>2, Fields
  <2>4. \A i \in DOMAIN local.vma :
          local.vma[i] # NoPage => PageAt(mem_list', i - 1) = local.vma[i]
    <3> SUFFICES ASSUME NEW i \in DOMAIN local.vma, local.vma[i] # NoPage
                 PROVE  PageAt(mem_list', i - 1) = local.vma[i]
      OBVIOUS
    <3>1. i - 1 \in Nat
      BY <2>3
    <3>2. PageAt(mem_list, i - 1) = local.vma[i]
      BY <2>2 DEF Fits
    <3> QED BY <3>1, <3>2, <1>1 DEF Grown, Extended
  <2> QED BY <1>1, <1>2, <2>1, <2>2, <2>3, <2>4 DEF Fits, Grown
<1>4. proc'[p] = next
  BY DEF Moves, TypeInv
<1>5. \A q \in Procs : Fits(proc'[q], mem_list', num_pages', data_size')
  BY <1>1, <1>3, <1>4
<1> QED BY <1>1, <1>5 DEF FitInv, Grown, Extended

\* What keeps the list and the counts has not shrunk the disk.
LEMMA SameDisk ==
  ASSUME TypeInv, UNCHANGED <<mem_list, num_pages, data_size>>
  PROVE  FitInv => Grown
BY DEF FitInv, Grown, Extended, BufferSize, TypeInv, Globals

-----------------------------------------------------------------------------
(* ioctl, lseek, mmap.                                                     *)

LEMMA SetNprocMoves ==
  ASSUME TypeInv, NEW p \in Procs, NEW n \in NprocLimits, SetNproc(p, n)
  PROVE  Moves(p, proc[p])
<1>1. proc[p].pc = "open" /\ max_nprocs' = n /\ n \in Nat
      /\ UNCHANGED <<mem_list, page, num_pages, data_size, nprocs, proc, file>>
  BY InputAssumption DEF SetNproc
<1>2. Sound(proc[p]) /\ proc' = [proc EXCEPT ![p] = proc[p]]
  BY <1>1 DEF TypeInv
<1>3. Globals'
  BY <1>1 DEF TypeInv, Globals
<1>4. FitInv => Fits(proc[p], mem_list', num_pages', data_size')
  BY <1>1 DEF FitInv
<1> QED BY <1>1, <1>2, <1>3, <1>4, SameDisk DEF Moves

Shown(next) ==
  /\ next.f_pos <= BufferSize /\ next.vm_pgoff = 0
  /\ \A i \in DOMAIN next.vma :
       next.vma[i] # NoPage => PageAt(mem_list, i - 1) = next.vma[i]

\* A process in user mode that changes its position or its mapping.
LEMMA IdleMoves ==
  ASSUME TypeInv, NEW p \in Procs, NEW next \in Locals, next.pc = "open",
         next.done <= next.limit, proc[p].pc # "closed",
         proc' = [proc EXCEPT ![p] = next], page' \in Content,
         file' \in Seq(FileBytes),
         UNCHANGED <<mem_list, num_pages, data_size, nprocs, max_nprocs>>,
         Undisturbed /\ FitInv => Shown(next)
  PROVE  Moves(p, next)
<1>1. Sound(next) /\ Globals'
  BY DEF Sound, TypeInv, Globals
<1>2. Undisturbed /\ FitInv => Fits(next, mem_list', num_pages', data_size')
  BY DEF Fits, Shown, BufferSize
<1> QED BY <1>1, <1>2, SameDisk DEF Moves

LEMMA SeekMoves ==
  ASSUME TypeInv, NEW p \in Procs, SeekAny(p)
  PROVE  \E next : Moves(p, next)
<1>1. PICK base \in {0, proc[p].f_pos, BufferSize}, offset \in Offsets : Seek(p, base, offset)
  BY DEF SeekAny
<1> DEFINE near == Min({BufferSize, base + offset})
           pos == Max({0, near})
           next == [Idle(proc[p]) EXCEPT !.f_pos = pos]
<1>2. /\ proc[p].pc = "open" /\ proc' = [proc EXCEPT ![p] = next]
      /\ UNCHANGED <<mem_list, page, num_pages, data_size, nprocs, max_nprocs, file>>
  BY <1>1 DEF Seek, Goes
<1>3. proc[p] \in Locals /\ BufferSize \in Nat
  BY SizeAssumption DEF TypeInv, Globals, BufferSize
<1>4. base \in Int /\ offset \in Int /\ base + offset \in Int
  BY <1>3, Fields, InputAssumption
<1>5. near \in Int /\ near <= BufferSize
  BY <1>3, <1>4, TwoNumbers
<1>6. pos \in Nat /\ pos <= BufferSize
  <2> HIDE DEF near
  <2>1. pos \in {0, near} /\ pos >= 0
    BY <1>5, TwoNumbers
  <2> QED BY <1>3, <1>5, <2>1
<1> HIDE DEF pos
<1>7. /\ next \in Locals /\ next.pc = "open" /\ next.done = 0 /\ next.limit = 0
      /\ next.f_pos = pos /\ next.vma = proc[p].vma /\ next.vm_pgoff = proc[p].vm_pgoff
  BY <1>3, <1>6, IdleSound DEF Sound, Locals
<1> HIDE DEF next
<1>8. page' \in Content /\ file' \in Seq(FileBytes)
  BY <1>2 DEF TypeInv, Globals
<1>9. FitInv => Shown(next)
  BY <1>6, <1>7 DEF FitInv, Fits, Shown
<1>10. next.done <= next.limit
  BY <1>7
<1> QED BY <1>2, <1>7, <1>8, <1>9, <1>10, IdleMoves

\* The mapping that mmap makes.
LEMMA MmapMoves ==
  ASSUME TypeInv, NEW p \in Procs, NEW len \in Lengths,
         NEW pgoff \in MapOffsets, Mmap(p, len, pgoff)
  PROVE  \E next : Moves(p, next)
<1> DEFINE offset == pgoff * PAGE_SIZE
           vma == [i \in 1..len |->
                     IF i - 1 >= offset THEN PageAt(mem_list, i - 1) ELSE NoPage]
           next == [Idle(proc[p]) EXCEPT !.vma = vma, !.vm_pgoff = pgoff]
<1>1. /\ pgoff \in Nat /\ len \in Nat /\ proc[p] \in Locals /\ mem_list \in Seq(Frames)
      /\ (pgoff = 0 => offset = 0)
  BY SizeAssumption, InputAssumption DEF TypeInv, Globals
<1>2. /\ proc[p].pc = "open" /\ proc' = [proc EXCEPT ![p] = next]
      /\ UNCHANGED <<mem_list, page, num_pages, data_size, nprocs, max_nprocs, file>>
  BY DEF Mmap, Goes
<1>3. \A i \in 1..len : /\ i - 1 \in Nat /\ vma[i] \in Pages
                        /\ vma[i] \in {NoPage, PageAt(mem_list, i - 1)}
  <2> HIDE DEF offset
  <2> QED BY <1>1, PageFound DEF Pages
<1>4. vma \in Seq(Pages) /\ DOMAIN vma = 1..len
  <2> HIDE DEF offset
  <2> QED BY <1>1, <1>3
<1> HIDE DEF vma
<1>5. /\ next \in Locals /\ next.pc = "open" /\ next.done = 0 /\ next.limit = 0
      /\ next.f_pos = proc[p].f_pos /\ next.vma = vma /\ next.vm_pgoff = pgoff
  BY <1>1, <1>4, IdleSound DEF Sound, Locals
<1> HIDE DEF next
<1>6. page' \in Content /\ file' \in Seq(FileBytes)
  BY <1>2 DEF TypeInv, Globals
<1>7. Undisturbed /\ FitInv => Shown(next)
  BY <1>3, <1>4, <1>5 DEF Undisturbed, FitInv, Fits, Shown, BufferSize
<1>8. next.done <= next.limit
  BY <1>5
<1> QED BY <1>2, <1>5, <1>6, <1>7, <1>8, IdleMoves

LEMMA UnmapMoves ==
  ASSUME TypeInv, NEW p \in Procs, Unmap(p)
  PROVE  \E next : Moves(p, next)
<1> DEFINE next == [Idle(proc[p]) EXCEPT !.vma = <<>>, !.vm_pgoff = 0]
<1>1. /\ proc[p].pc = "open" /\ proc' = [proc EXCEPT ![p] = next] /\ proc[p] \in Locals
      /\ UNCHANGED <<mem_list, page, num_pages, data_size, nprocs, max_nprocs, file>>
  BY DEF Unmap, Goes, TypeInv
<1>2. <<>> \in Seq(Pages) /\ DOMAIN <<>> = {}
  OBVIOUS
<1>3. /\ next \in Locals /\ next.pc = "open" /\ next.done = 0 /\ next.limit = 0
      /\ next.f_pos = proc[p].f_pos /\ next.vma = <<>> /\ next.vm_pgoff = 0
  BY <1>1, <1>2, IdleSound DEF Sound, Locals
<1> HIDE DEF next
<1>4. page' \in Content /\ file' \in Seq(FileBytes)
  BY <1>1 DEF TypeInv, Globals
<1>5. FitInv => Shown(next)
  BY <1>2, <1>3 DEF FitInv, Fits, Shown, BufferSize
<1>6. next.done <= next.limit
  BY <1>3
<1> QED BY <1>1, <1>3, <1>4, <1>5, <1>6, IdleMoves

LEMMA StoreMoves ==
  ASSUME TypeInv, NEW p \in Procs, NEW i \in DOMAIN proc[p].vma,
         NEW at \in 0..PAGE_SIZE - 1, NEW v \in Values, Store(p, i, at, v)
  PROVE  \E next : Moves(p, next)
<1> DEFINE next == Idle(proc[p])
           pos == (proc[p].vm_pgoff + i - 1) * PAGE_SIZE + at + 1
<1>1. /\ proc[p].pc = "open" /\ proc' = [proc EXCEPT ![p] = next] /\ proc[p] \in Locals
      /\ UNCHANGED <<mem_list, num_pages, data_size, nprocs, max_nprocs>>
      /\ page' = [page EXCEPT ![proc[p].vma[i]][at] = v] /\ proc[p].vma[i] # NoPage
      /\ file' = IF pos <= Len(file) THEN [file EXCEPT ![pos] = v] ELSE file
  BY DEF Store, Goes, TypeInv
<1>2. /\ next \in Locals /\ next.pc = "open" /\ next.done = 0 /\ next.limit = 0
      /\ next.f_pos = proc[p].f_pos /\ next.vma = proc[p].vma
      /\ next.vm_pgoff = proc[p].vm_pgoff
  BY <1>1, IdleSound DEF Sound
<1> HIDE DEF next, pos
<1>3. page' \in Content
  <2>1. proc[p].vma[i] \in Frames
    BY <1>1, Fields DEF Pages
  <2>2. page \in Content
    BY DEF TypeInv, Globals
  <2> QED BY <1>1, <2>1, <2>2 DEF Content, Bytes
<1>4. file' \in Seq(FileBytes)
  <2>1. file \in Seq(FileBytes)
    BY DEF TypeInv, Globals
  <2>2. [file EXCEPT ![pos] = v] \in Seq(FileBytes)
    <3>1. file \in [1..Len(file) -> FileBytes] /\ Len(file) \in Nat
      BY <2>1
    <3>2. [file EXCEPT ![pos] = v] \in [1..Len(file) -> FileBytes]
      BY <3>1 DEF FileBytes
    <3> QED BY <3>1, <3>2
  <2> QED BY <1>1, <2>1, <2>2
<1>5. FitInv => Shown(next)
  BY <1>2 DEF FitInv, Fits, Shown, BufferSize
<1>6. next.done <= next.limit
  BY <1>2
<1> QED BY <1>1, <1>2, <1>3, <1>4, <1>5, <1>6, IdleMoves

-----------------------------------------------------------------------------
(* read.                                                                   *)

LEMMA Returns ==
  ASSUME NEW local \in Locals, NEW next, NEW data \in Seq(Bytes), NEW count \in Nat,
         NEW fault \in BOOLEAN,
         next = [Idle(local) EXCEPT !.f_pos = local.f_pos + local.done, !.data = data,
                                    !.count = count, !.fault = fault]
  PROVE  /\ next \in Locals /\ Sound(next) /\ next.pc = "open" /\ next.vma = local.vma
         /\ next.vm_pgoff = local.vm_pgoff /\ next.f_pos = local.f_pos + local.done
<1> DEFINE pos == local.f_pos + local.done
<1>1. pos \in Nat
  BY Fields
<1> HIDE DEF pos
<1>2. /\ next \in Locals /\ next.pc = "open" /\ next.vma = local.vma /\ next.done = 0
      /\ next.limit = 0 /\ next.vm_pgoff = local.vm_pgoff /\ next.f_pos = pos
  BY <1>1, IdleSound DEF Sound, Locals, pos
<1> QED BY <1>2 DEF Sound, pos

LEMMA ReadReturnsMoves ==
  ASSUME TypeInv, NEW p \in Procs, NEW local \in Locals, ReadReturns(p, local),
         proc[p].pc # "closed", local.vma = proc[p].vma,
         local.vm_pgoff = proc[p].vm_pgoff, local.f_pos = proc[p].f_pos,
         local.done = 0 \/ (FitInv => local.f_pos + local.done <= data_size),
         UNCHANGED <<mem_list, page, num_pages, data_size, nprocs, max_nprocs, file>>
  PROVE  \E next : Moves(p, next)
<1> DEFINE next == [Idle(local) EXCEPT
                      !.f_pos = local.f_pos + local.done, !.data = local.data,
                      !.count = local.count, !.fault = local.fault]
<1>1. proc' = [proc EXCEPT ![p] = next]
  BY DEF ReadReturns
<1>2. /\ next \in Locals /\ Sound(next) /\ next.pc = "open" /\ next.vma = local.vma
      /\ next.vm_pgoff = local.vm_pgoff /\ next.f_pos = local.f_pos + local.done
  <2>1. local.data \in Seq(Bytes) /\ local.count \in Nat /\ local.fault \in BOOLEAN
    BY DEF Locals
  <2> QED BY <2>1, Returns
<1> HIDE DEF next
<1>3. FitInv => Fits(next, mem_list', num_pages', data_size')
  <2> SUFFICES ASSUME FitInv PROVE Fits(next, mem_list', num_pages', data_size')
    OBVIOUS
  <2>1. Fits(proc[p], mem_list, num_pages, data_size) /\ data_size <= num_pages * PAGE_SIZE
    BY DEF FitInv, BufferSize
  <2>2. next.f_pos <= num_pages * PAGE_SIZE
    <3>1. num_pages * PAGE_SIZE \in Nat /\ data_size \in Nat /\ local.f_pos \in Nat
          /\ local.done \in Nat
      BY SizeAssumption, Product, Fields DEF TypeInv, Globals
    <3> QED BY <3>1, <2>1, <1>2 DEF Fits
  <2> QED BY <2>1, <2>2, <1>2 DEF Fits
<1>4. Globals'
  BY DEF TypeInv, Globals
<1> QED BY <1>1, <1>2, <1>3, <1>4, SameDisk DEF Moves

LEMMA ReadMoves ==
  ASSUME TypeInv, NEW p \in Procs, NEW count \in Counts, Read(p, count)
  PROVE  \E next : Moves(p, next)
<1> DEFINE left == data_size - proc[p].f_pos
           limit == Min({count, Max({0, left})})
           local == [Idle(proc[p]) EXCEPT !.count = count, !.limit = limit]
           first == OnPage(local, mem_list, "reading")
<1>1. /\ proc[p].pc = "open" /\ proc[p] \in Locals /\ count \in Nat
      /\ IF proc[p].f_pos > data_size \/ first.curr = NoPage
         THEN ReadReturns(p, local)
         ELSE proc' = [proc EXCEPT ![p] = first]
      /\ UNCHANGED <<mem_list, page, num_pages, data_size, nprocs, max_nprocs, file>>
  BY InputAssumption DEF Read, TypeInv
<1>2. data_size \in Nat /\ proc[p].f_pos \in Nat /\ mem_list \in Seq(Frames) /\ left \in Int
  BY <1>1, Fields DEF TypeInv, Globals
<1>3. limit \in Nat /\ (left >= 0 => limit <= left)
  <2> DEFINE rest == Max({0, left})
  <2> HIDE DEF left
  <2>1. rest \in {0, left} /\ rest >= 0
    <3>1. 0 \in Int /\ left \in Int
      BY <1>2
    <3> QED BY <3>1, TwoNumbers
  <2>2. rest \in Nat /\ (left >= 0 => rest <= left)
    BY <2>1, <1>2
  <2> HIDE DEF rest
  <2>3. limit \in {count, rest} /\ limit <= rest
    BY <1>1, <2>2, TwoNumbers DEF rest
  <2> QED BY <1>1, <1>2, <2>2, <2>3
<1> HIDE DEF limit
<1>4. /\ local \in Locals /\ local.done = 0 /\ local.limit = limit
      /\ local.vma = proc[p].vma /\ local.vm_pgoff = proc[p].vm_pgoff
      /\ local.f_pos = proc[p].f_pos
  BY <1>1, <1>3, IdleSound DEF Sound, Locals
<1> HIDE DEF local
<1>5. CASE proc[p].f_pos > data_size \/ first.curr = NoPage
  BY <1>1, <1>4, <1>5, ReadReturnsMoves
<1>6. CASE ~(proc[p].f_pos > data_size \/ first.curr = NoPage)
  <2>1. proc' = [proc EXCEPT ![p] = first] /\ first.curr # NoPage /\ left >= 0
    BY <1>1, <1>2, <1>6
  <2>2. /\ first \in Locals /\ first.pc = "reading" /\ first.f_pos = proc[p].f_pos
        /\ first.limit = limit /\ first.done = 0 /\ first.vma = proc[p].vma
        /\ first.vm_pgoff = proc[p].vm_pgoff
    BY <1>2, <1>4, OnPageFields
  <2> HIDE DEF first
  <2>3. Sound(first)
    BY <1>3, <2>1, <2>2, Fields DEF Sound, Pages
  <2>4. FitInv => Fits(first, mem_list', num_pages', data_size')
    BY <1>1, <1>2, <1>3, <2>1, <2>2 DEF FitInv, Fits
  <2>5. Globals'
    BY <1>1 DEF TypeInv, Globals
  <2> QED BY <1>1, <2>1, <2>2, <2>3, <2>4, <2>5, SameDisk DEF Moves
<1> QED BY <1>5, <1>6

LEMMA ReadCopyMoves ==
  ASSUME TypeInv, NEW p \in Procs, NEW n \in 0..PAGE_SIZE, ReadCopy(p, n)
  PROVE  \E next : Moves(p, next)
<1> DEFINE local == proc[p]
           bytes == [i \in 1..n |-> page[local.curr][local.begin_offset + i - 1]]
           data == local.data \o bytes
           next == [Copied(local, n) EXCEPT !.data = data]
           onward == [next EXCEPT !.curr = After(local.curr)]
<1>1. /\ local.pc = "reading" /\ CanCopy(local, n) /\ Linked(local, n)
      /\ IF next.done = next.limit \/ After(local.curr) = NoPage
         THEN ReadReturns(p, next)
         ELSE proc' = [proc EXCEPT ![p] = onward]
      /\ UNCHANGED <<mem_list, page, num_pages, data_size, nprocs, max_nprocs, file>>
  BY DEF ReadCopy
<1>2. local \in Locals /\ Sound(local) /\ page \in Content /\ n \in Nat
      /\ mem_list \in Seq(Frames) /\ data_size \in Nat
  BY SizeAssumption DEF TypeInv, Globals
<1>3. FitInv => local.f_pos + local.limit <= data_size
  BY <1>1 DEF FitInv, Fits
<1>4. FitInv => Fits(local, mem_list, num_pages, data_size)
  BY DEF FitInv
<1> HIDE DEF local
<1>5. local.curr \in Frames /\ local.done <= local.limit
  BY <1>1, <1>2 DEF Sound
<1>6. LET copied == Copied(local, n)
      IN  /\ copied \in Locals /\ copied.pc = "reading" /\ copied.f_pos = local.f_pos
          /\ copied.limit = local.limit /\ copied.done = local.done + n
          /\ copied.done <= copied.limit /\ copied.data = local.data
          /\ copied.vma = local.vma /\ copied.vm_pgoff = local.vm_pgoff
          /\ local.begin_offset + n <= PAGE_SIZE
  BY <1>1, <1>2, <1>5, CopiedFields
<1>7. bytes \in Seq(Bytes)
  <2>1. local.begin_offset \in 0..PAGE_SIZE - 1 /\ PAGE_SIZE \in Nat
    BY <1>2, Fields, SizeAssumption
  <2>2. \A i \in 1..n : local.begin_offset + i - 1 \in 0..PAGE_SIZE - 1
    BY <2>1, <1>2, <1>6
  <2>3. page[local.curr] \in [0..PAGE_SIZE - 1 -> Bytes]
    BY <1>2, <1>5 DEF Content
  <2>4. \A i \in 1..n : page[local.curr][local.begin_offset + i - 1] \in Bytes
    BY <2>2, <2>3
  <2> QED BY <2>4, <1>2
<1>8. data \in Seq(Bytes)
  <2> HIDE DEF bytes
  <2> QED BY <1>2, <1>7, Fields, ConcatProperties
<1> HIDE DEF data
<1>9. /\ next \in Locals /\ next.pc = "reading" /\ next.f_pos = local.f_pos
      /\ next.limit = local.limit /\ next.done = local.done + n
      /\ next.done <= next.limit /\ next.vma = local.vma
      /\ next.vm_pgoff = local.vm_pgoff
  BY <1>6, <1>8 DEF Locals
<1> HIDE DEF next
<1>10. FitInv => next.f_pos + next.done <= data_size
  <2>1. {next.f_pos, next.done, next.limit} \subseteq Nat
    BY <1>9, Fields
  <2> QED BY <1>2, <1>3, <1>9, <2>1
<1>11. CASE next.done = next.limit \/ After(local.curr) = NoPage
  BY <1>1, <1>9, <1>10, <1>11, ReadReturnsMoves DEF local
<1>12. CASE ~(next.done = next.limit \/ After(local.curr) = NoPage)
  <2>1. proc' = [proc EXCEPT ![p] = onward] /\ After(local.curr) \in Frames
    <3>1. After(local.curr) \in Pages
      BY <1>1, <1>2, <1>9, <1>12, NextFound DEF Linked
    <3> QED BY <1>1, <1>12, <3>1 DEF Pages
  <2>2. /\ onward \in Locals /\ onward.pc = "reading" /\ onward.f_pos = local.f_pos
        /\ onward.limit = local.limit /\ onward.done = next.done
        /\ onward.vma = local.vma /\ onward.vm_pgoff = local.vm_pgoff
        /\ onward.curr \in Frames
    BY <1>9, <2>1 DEF Locals, Pages
  <2> HIDE DEF onward
  <2>3. Sound(onward)
    BY <1>9, <2>2 DEF Sound
  <2>4. FitInv => Fits(onward, mem_list', num_pages', data_size')
    BY <1>1, <1>3, <1>4, <2>2 DEF Fits
  <2>5. Globals'
    BY <1>1 DEF TypeInv, Globals
  <2> QED BY <1>1, <2>1, <2>2, <2>3, <2>4, <2>5, SameDisk DEF Moves, local
<1> QED BY <1>11, <1>12

-----------------------------------------------------------------------------
(* write.                                                                  *)

LEMMA WrittenTyped ==
  ASSUME file \in Seq(FileBytes), NEW local \in Locals, local.data \in Seq(Values),
         local.done <= Len(local.data)
  PROVE  /\ Written(local) \in Seq(FileBytes)
         /\ Len(Written(local)) = Max({Len(file), local.f_pos + local.done})
<1> DEFINE pos == local.f_pos
           n == Max({Len(file), pos + local.done})
           byte(i) == IF i > pos /\ i <= pos + local.done THEN local.data[i - pos]
                      ELSE IF i <= Len(file)
                           THEN IF Cleared(local, i - 1) THEN Zero ELSE file[i]
                      ELSE Unknown
<1>1. Len(file) \in Nat /\ pos \in Nat /\ local.done \in Nat /\ pos + local.done \in Nat
  BY Fields
<1>2. n \in Nat
  <2> DEFINE x == Len(file)
             y == pos + local.done
  <2>1. x \in Int /\ y \in Int
    BY <1>1
  <2> HIDE DEF x, y
  <2>2. Max({x, y}) \in {x, y}
    BY <2>1, TwoNumbers
  <2> QED BY <1>1, <2>2 DEF x, y
<1>3. ASSUME NEW i \in 1..n PROVE byte(i) \in FileBytes
  <2>1. i \in Nat /\ i >= 1
    BY <1>2
  <2>2. CASE i > pos /\ i <= pos + local.done
    <3>1. i - pos \in 1..Len(local.data)
      BY <1>1, <2>1, <2>2
    <3>2. local.data[i - pos] \in Values
      BY <3>1
    <3> QED BY <2>2, <3>2 DEF FileBytes
  <2>3. CASE ~(i > pos /\ i <= pos + local.done)
    <3>1. i <= Len(file) => file[i] \in FileBytes
      BY <1>1, <2>1
    <3>2. Zero \in FileBytes /\ Unknown \in FileBytes
      BY DEF FileBytes
    <3> QED BY <2>3, <3>1, <3>2
  <2> QED BY <2>2, <2>3
<1>4. Written(local) = [i \in 1..n |-> byte(i)]
  BY DEF Written
<1> HIDE DEF n, byte
<1>5. [i \in 1..n |-> byte(i)] \in Seq(FileBytes) /\ Len([i \in 1..n |-> byte(i)]) = n
  BY <1>2, <1>3
<1> QED BY <1>4, <1>5 DEF n

\* What a write leaves when it returns: the disk reaches as far as it wrote.
LEMMA WriteReturnsMoves ==
  ASSUME TypeInv, NEW p \in Procs, NEW local \in Locals, WriteReturns(p, local),
         local.data \in Seq(Values), Len(local.data) = local.limit,
         local.done <= local.limit, proc[p].pc # "closed", local.vma = proc[p].vma,
         local.vm_pgoff = proc[p].vm_pgoff, mem_list' \in Seq(Frames), num_pages' \in Nat,
         page' \in Content, UNCHANGED <<nprocs, max_nprocs>>,
         Undisturbed /\ FitInv =>
           Extended /\ local.f_pos + local.done <= num_pages' * PAGE_SIZE
  PROVE  \E next : Moves(p, next)
<1> DEFINE pos == local.f_pos + local.done
           next == [Idle(local) EXCEPT !.f_pos = @ + local.done]
<1>1. /\ proc' = [proc EXCEPT ![p] = next] /\ data_size' = Max({data_size, pos})
      /\ file' = Written(local)
  BY DEF WriteReturns
<1>2. local.f_pos \in Nat /\ local.done \in Nat /\ pos \in Nat /\ data_size \in Nat
      /\ num_pages \in Nat /\ file \in Seq(FileBytes) /\ max_nprocs' \in Nat
  BY Fields DEF TypeInv, Globals
<1> HIDE DEF pos
<1>3. data_size' \in {data_size, pos} /\ data_size' >= data_size /\ data_size' \in Nat
  <2>1. data_size \in Int /\ pos \in Int
    BY <1>2
  <2>2. Max({data_size, pos}) \in {data_size, pos} /\ Max({data_size, pos}) >= data_size
    BY <2>1, TwoNumbers
  <2> QED BY <1>1, <1>2, <2>2
<1>5. file' \in Seq(FileBytes)
  BY <1>1, <1>2, WrittenTyped
<1>6. /\ next \in Locals /\ Sound(next) /\ next.pc = "open" /\ next.vma = local.vma
      /\ next.vm_pgoff = local.vm_pgoff /\ next.f_pos = pos
  <2>1. /\ next \in Locals /\ next.pc = "open" /\ next.vma = local.vma /\ next.done = 0
        /\ next.limit = 0 /\ next.vm_pgoff = local.vm_pgoff /\ next.f_pos = pos
    <3>1. next = [Idle(local) EXCEPT !.f_pos = pos]
      BY IdleSound DEF pos
    <3> HIDE DEF next
    <3> QED BY <3>1, <1>2, IdleSound, ZenonT(30) DEF Sound, Locals
  <2> QED BY <2>1 DEF Sound
<1> HIDE DEF next
<1>7. Globals'
  BY <1>3, <1>5, <1>2 DEF Globals
<1>8. ASSUME Undisturbed, FitInv
      PROVE  Grown /\ Fits(next, mem_list', num_pages', data_size')
  <2>1. num_pages * PAGE_SIZE <= num_pages' * PAGE_SIZE
    BY <1>2, <1>8, Bigger, SizeAssumption DEF Extended
  <2>2. data_size <= num_pages * PAGE_SIZE /\ Fits(proc[p], mem_list, num_pages, data_size)
    BY <1>8 DEF FitInv, BufferSize
  <2>3. num_pages * PAGE_SIZE \in Nat /\ num_pages' * PAGE_SIZE \in Nat
    BY <1>2, SizeAssumption, Product
  <2>4. data_size' <= num_pages' * PAGE_SIZE
    BY <2>1, <2>2, <2>3, <1>2, <1>3, <1>8 DEF pos
  <2>5. Grown
    BY <2>4, <1>3, <1>8 DEF Grown, BufferSize
  <2>6. \A i \in DOMAIN next.vma :
          next.vma[i] # NoPage => PageAt(mem_list', i - 1) = next.vma[i]
    <3> SUFFICES ASSUME NEW i \in DOMAIN next.vma, next.vma[i] # NoPage
                 PROVE  PageAt(mem_list', i - 1) = next.vma[i]
      OBVIOUS
    <3>1. i - 1 \in Nat
      BY <1>6, Fields
    <3>2. PageAt(mem_list, i - 1) = next.vma[i]
      BY <2>2, <1>6 DEF Fits
    <3> QED BY <3>1, <3>2, <2>5 DEF Grown, Extended
  <2> QED BY <2>2, <2>4, <2>5, <2>6, <1>6, <1>8 DEF Fits, pos
<1> QED BY <1>1, <1>6, <1>7, <1>8 DEF Moves

\* Before it copies, a write needs pages as far as it will reach.
LEMMA PreparedMoves ==
  ASSUME TypeInv, NEW p \in Procs, NEW local \in Locals, NEW list, NEW pages,
         Prepared(p, local, list, pages), list = mem_list', pages = num_pages',
         local.data \in Seq(Values), Len(local.data) = local.limit, local.done = 0,
         ~local.fault, proc[p].pc # "closed", local.f_pos = proc[p].f_pos, local.vma = proc[p].vma,
         local.vm_pgoff = proc[p].vm_pgoff, mem_list' \in Seq(Frames), num_pages' \in Nat,
         UNCHANGED <<page, nprocs, max_nprocs>>, Undisturbed /\ FitInv => Extended
  PROVE  \E next : Moves(p, next)
<1> DEFINE first == OnPage(local, list, "writing")
<1>1. /\ {local.f_pos, local.limit, local.done} \subseteq Nat
      /\ page' \in Content /\ data_size \in Nat /\ num_pages \in Nat
  BY Fields DEF TypeInv, Globals
<1>2. num_pages * PAGE_SIZE \in Nat /\ num_pages' * PAGE_SIZE \in Nat
  BY <1>1, Product, SizeAssumption
<1>3. ASSUME Undisturbed, FitInv
      PROVE  /\ num_pages * PAGE_SIZE <= num_pages' * PAGE_SIZE
             /\ Extended /\ data_size <= num_pages * PAGE_SIZE
             /\ local.f_pos + local.done <= num_pages' * PAGE_SIZE
             /\ Fits(proc[p], mem_list, num_pages, data_size)
  <2>1. Extended /\ data_size <= num_pages * PAGE_SIZE
        /\ Fits(proc[p], mem_list, num_pages, data_size)
    BY <1>3 DEF FitInv, BufferSize
  <2>2. num_pages * PAGE_SIZE <= num_pages' * PAGE_SIZE
    BY <1>1, <2>1, Bigger, SizeAssumption DEF Extended
  <2> QED BY <1>1, <1>2, <2>1, <2>2 DEF Fits
\* A step that leaves the data as it is.
<1>4. ASSUME NEW next, Sound(next), next.pc \in {"alloc", "writing"},
             proc' = [proc EXCEPT ![p] = next], UNCHANGED <<data_size, file>>,
             next.f_pos = local.f_pos, next.limit = local.limit, next.vma = local.vma,
             next.vm_pgoff = local.vm_pgoff,
             next.pc = "writing" => local.f_pos + local.limit <= num_pages' * PAGE_SIZE
      PROVE  \E to : Moves(p, to)
  <2>1. Globals'
    BY <1>1, <1>4 DEF TypeInv, Globals
  <2>2. ASSUME Undisturbed, FitInv
        PROVE  Grown /\ Fits(next, mem_list', num_pages', data_size')
    <3>1. Grown
      BY <1>1, <1>2, <1>3, <1>4, <2>2 DEF Grown, BufferSize
    <3>2. \A i \in DOMAIN next.vma :
            next.vma[i] # NoPage => PageAt(mem_list', i - 1) = next.vma[i]
      <4> SUFFICES ASSUME NEW i \in DOMAIN next.vma, next.vma[i] # NoPage
                   PROVE  PageAt(mem_list', i - 1) = next.vma[i]
        OBVIOUS
      <4>1. i - 1 \in Nat
        BY <1>4, Fields
      <4>2. PageAt(mem_list, i - 1) = next.vma[i]
        BY <1>3, <1>4, <2>2 DEF Fits
      <4> QED BY <4>1, <4>2, <3>1 DEF Grown, Extended
    <3>3. next.f_pos <= num_pages' * PAGE_SIZE /\ next.vm_pgoff = 0
      BY <1>1, <1>2, <1>3, <1>4, <2>2 DEF Fits
    <3> QED BY <3>1, <3>2, <3>3, <1>4 DEF Fits
  <2> QED BY <1>4, <2>1, <2>2 DEF Moves
<1>5. CASE pages * PAGE_SIZE < local.f_pos + local.limit
  <2> DEFINE next == [local EXCEPT !.pc = "alloc"]
  <2>1. proc' = [proc EXCEPT ![p] = next] /\ UNCHANGED <<data_size, file>>
    BY <1>5 DEF Prepared
  <2>2. /\ next \in Locals /\ next.pc = "alloc" /\ next.f_pos = local.f_pos
        /\ next.limit = local.limit /\ next.vma = local.vma /\ next.done = local.done
        /\ next.data = local.data /\ next.vm_pgoff = local.vm_pgoff
        /\ next.fault = local.fault
    BY DEF Locals
  <2> HIDE DEF next
  <2>3. Sound(next)
    BY <1>1, <2>2 DEF Sound
  <2> QED BY <1>4, <2>1, <2>2, <2>3
<1>6. CASE ~(pages * PAGE_SIZE < local.f_pos + local.limit) /\ first.curr = NoPage
  <2>1. WriteReturns(p, local)
    BY <1>6 DEF Prepared
  <2>2. local.done <= local.limit
    BY <1>1
  <2> QED BY <1>1, <1>3, <2>1, <2>2, WriteReturnsMoves
<1>7. CASE ~(pages * PAGE_SIZE < local.f_pos + local.limit) /\ first.curr # NoPage
  <2>1. proc' = [proc EXCEPT ![p] = first] /\ UNCHANGED <<data_size, file>>
    BY <1>7 DEF Prepared
  <2>2. /\ first \in Locals /\ first.pc = "writing" /\ first.f_pos = local.f_pos
        /\ first.limit = local.limit /\ first.vma = local.vma /\ first.done = local.done
        /\ first.data = local.data /\ first.vm_pgoff = local.vm_pgoff
    BY OnPageFields
  <2>3. local.f_pos + local.limit <= num_pages' * PAGE_SIZE
    BY <1>1, <1>2, <1>7
  <2>4. first.curr \in Frames
    <3> HIDE DEF first
    <3> QED BY <1>7, <2>2, Fields DEF Pages
  <2> HIDE DEF first
  <2>5. Sound(first)
    BY <1>1, <2>2, <2>4 DEF Sound
  <2> QED BY <1>4, <2>1, <2>2, <2>3, <2>5
<1> QED BY <1>5, <1>6, <1>7

LEMMA WriteMoves ==
  ASSUME TypeInv, NEW p \in Procs, NEW data \in Payloads, Write(p, data)
  PROVE  \E next : Moves(p, next)
<1> DEFINE local == [Idle(proc[p]) EXCEPT !.data = data, !.limit = Len(data)]
<1>1. /\ proc[p].pc = "open" /\ Prepared(p, local, mem_list, num_pages)
      /\ UNCHANGED <<mem_list, page, num_pages, nprocs, max_nprocs>>
  BY DEF Write
<1>2. data \in Seq(Values) /\ data \in Seq(Bytes) /\ Len(data) \in Nat
  BY InputAssumption DEF Bytes
<1>3. proc[p] \in Locals /\ mem_list' \in Seq(Frames) /\ num_pages' \in Nat
  BY <1>1 DEF TypeInv, Globals
<1>4. /\ local \in Locals /\ local.done = 0 /\ local.data = data
      /\ local.limit = Len(data) /\ local.f_pos = proc[p].f_pos
      /\ local.vma = proc[p].vma /\ local.vm_pgoff = proc[p].vm_pgoff
      /\ local.fault = FALSE
  <2>1. Idle(proc[p]).fault = FALSE
    BY DEF Idle, Closed
  <2> QED BY <1>2, <1>3, <2>1, IdleSound DEF Sound, Locals
<1> HIDE DEF local
<1>5. FitInv => Extended
  BY <1>1, <1>3 DEF FitInv, Extended
<1> QED BY <1>1, <1>2, <1>3, <1>4, <1>5, PreparedMoves

LEMMA AllocMoves ==
  ASSUME TypeInv, NEW p \in Procs, NEW f \in Frames, Alloc(p, f)
  PROVE  \E next : Moves(p, next)
<1>1. /\ proc[p].pc = "alloc" /\ Prepared(p, proc[p], mem_list', num_pages')
      /\ mem_list' = Append(mem_list, f) /\ num_pages' = num_pages + 1
      /\ UNCHANGED <<page, nprocs, max_nprocs>>
  BY DEF Alloc
<1>2. /\ proc[p] \in Locals /\ Sound(proc[p])
      /\ mem_list \in Seq(Frames) /\ num_pages \in Nat
  BY DEF TypeInv, Globals
<1>3. mem_list' \in Seq(Frames) /\ num_pages' \in Nat
  BY <1>1, <1>2
<1>4. /\ proc[p].data \in Seq(Values) /\ Len(proc[p].data) = proc[p].limit
      /\ proc[p].done = 0 /\ ~proc[p].fault
  BY <1>1, <1>2 DEF Sound
<1>5. FitInv => Extended
  <2> SUFFICES ASSUME FitInv PROVE Extended
    OBVIOUS
  <2>1. num_pages' = Len(mem_list') /\ num_pages' >= num_pages
    BY <1>1, <1>2 DEF FitInv
  <2>2. ASSUME NEW n \in Nat, PageAt(mem_list, n) # NoPage
        PROVE  PageAt(mem_list', n) = PageAt(mem_list, n)
    <3>1. n < Len(mem_list)
      BY <2>2 DEF PageAt
    <3> QED BY <3>1, <1>1, <1>2 DEF PageAt
  <2> QED BY <2>1, <2>2 DEF Extended
<1> QED BY <1>1, <1>2, <1>3, <1>4, <1>5, PreparedMoves

LEMMA AllocFailMoves ==
  ASSUME TypeInv, NEW p \in Procs, AllocFail(p)
  PROVE  \E next : Moves(p, next)
<1> DEFINE next == Idle(proc[p])
<1>1. /\ proc[p].pc = "alloc" /\ proc' = [proc EXCEPT ![p] = next] /\ proc[p] \in Locals
      /\ UNCHANGED <<mem_list, page, num_pages, data_size, nprocs, max_nprocs, file>>
  BY DEF AllocFail, Goes, TypeInv
<1>2. /\ next \in Locals /\ next.pc = "open" /\ next.done = 0 /\ next.limit = 0
      /\ next.f_pos = proc[p].f_pos /\ next.vma = proc[p].vma
      /\ next.vm_pgoff = proc[p].vm_pgoff
  BY <1>1, IdleSound DEF Sound
<1> HIDE DEF next
<1>3. page' \in Content /\ file' \in Seq(FileBytes)
  BY <1>1 DEF TypeInv, Globals
<1>4. FitInv => Shown(next)
  BY <1>2 DEF FitInv, Fits, Shown, BufferSize
<1>5. next.done <= next.limit
  BY <1>2
<1> QED BY <1>1, <1>2, <1>3, <1>4, <1>5, IdleMoves

LEMMA WriteCopyMoves ==
  ASSUME TypeInv, NEW p \in Procs, NEW n \in 0..PAGE_SIZE, WriteCopy(p, n)
  PROVE  \E next : Moves(p, next)
<1> DEFINE local == proc[p]
           next == Copied(local, n)
           onward == [next EXCEPT !.curr = After(local.curr)]
           byte(i) == IF i \in local.begin_offset..local.begin_offset + n - 1
                      THEN local.data[local.done + i - local.begin_offset + 1]
                      ELSE IF i \in local.begin_offset + n
                                    ..local.begin_offset + InPage(local) - 1
                      THEN Zero ELSE page[local.curr][i]
<1>1. /\ local.pc = "writing" /\ CanCopy(local, n) /\ Linked(local, n)
      /\ page' = [page EXCEPT ![local.curr] = [i \in 0..PAGE_SIZE - 1 |-> byte(i)]]
      /\ IF next.done = next.limit \/ After(local.curr) = NoPage
         THEN WriteReturns(p, next)
         ELSE /\ proc' = [proc EXCEPT ![p] = onward]
              /\ UNCHANGED <<data_size, file>>
      /\ UNCHANGED <<mem_list, num_pages, nprocs, max_nprocs>>
  BY DEF WriteCopy
<1>2. /\ local \in Locals /\ Sound(local) /\ page \in Content /\ n \in Nat
      /\ mem_list \in Seq(Frames) /\ num_pages \in Nat
  BY SizeAssumption DEF TypeInv, Globals
<1>3. FitInv => Fits(local, mem_list, num_pages, data_size)
  BY DEF FitInv
<1> HIDE DEF local
<1>4. local.curr \in Frames /\ local.done <= local.limit
      /\ local.data \in Seq(Values) /\ Len(local.data) = local.limit
  BY <1>1, <1>2 DEF Sound
<1>5. /\ next \in Locals /\ next.pc = "writing" /\ next.f_pos = local.f_pos
      /\ next.limit = local.limit /\ next.done = local.done + n
      /\ next.done <= next.limit /\ next.data = local.data /\ next.vma = local.vma
      /\ next.vm_pgoff = local.vm_pgoff /\ local.begin_offset + n <= PAGE_SIZE
  BY <1>1, <1>2, <1>4, CopiedFields
<1>6. /\ {local.f_pos, local.done, local.limit} \subseteq Nat
      /\ local.begin_offset \in 0..PAGE_SIZE - 1
  BY <1>2, Fields
<1> HIDE DEF next
<1>7. page' \in Content
  <2>1. ASSUME NEW i \in 0..PAGE_SIZE - 1
        PROVE  byte(i) \in Bytes
    <3>1. CASE i \in local.begin_offset..local.begin_offset + n - 1
      <4>1. local.done + i - local.begin_offset + 1 \in 1..Len(local.data)
        <5>1. local.done + n <= local.limit
          BY <1>5
        <5>2. i \in Nat /\ local.begin_offset \in Nat
          BY <1>6, SizeAssumption
        <5> QED BY <3>1, <5>1, <5>2, <1>2, <1>4, <1>6, SMTT(30)
      <4>2. local.data[local.done + i - local.begin_offset + 1] \in Values
        BY <4>1, <1>4
      <4> QED BY <3>1, <4>2 DEF Bytes
    <3>2. CASE i \notin local.begin_offset..local.begin_offset + n - 1
      <4>1. page[local.curr][i] \in Bytes /\ Zero \in Bytes
        BY <1>2, <1>4 DEF Content, Bytes
      <4> QED BY <3>2, <4>1
    <3> QED BY <3>1, <3>2
  <2> HIDE DEF byte
  <2>2. [i \in 0..PAGE_SIZE - 1 |-> byte(i)] \in [0..PAGE_SIZE - 1 -> Bytes]
    BY <2>1
  <2> QED BY <1>1, <1>2, <2>2 DEF Content
<1> HIDE DEF byte
<1>8. FitInv => /\ Extended /\ next.f_pos + next.done <= num_pages' * PAGE_SIZE
                /\ local.f_pos + local.limit <= num_pages * PAGE_SIZE
  <2> SUFFICES ASSUME FitInv
               PROVE  /\ Extended /\ next.f_pos + next.done <= num_pages' * PAGE_SIZE
                      /\ local.f_pos + local.limit <= num_pages * PAGE_SIZE
    OBVIOUS
  <2>1. local.f_pos + local.limit <= num_pages * PAGE_SIZE
    BY <1>1, <1>3 DEF Fits
  <2>2. num_pages * PAGE_SIZE \in Nat /\ num_pages' = num_pages
    BY <1>1, <1>2, Product, SizeAssumption
  <2>3. next.f_pos + next.done <= local.f_pos + local.limit
    BY <1>2, <1>5, <1>6
  <2>4. next.f_pos + next.done \in Nat /\ local.f_pos + local.limit \in Nat
    BY <1>2, <1>5, <1>6
  <2>5. Extended
    BY <1>1, <1>2 DEF FitInv, Extended
  <2> QED BY <2>1, <2>2, <2>3, <2>4, <2>5
<1>9. proc[p].pc # "closed" /\ local.vma = proc[p].vma
      /\ local.vm_pgoff = proc[p].vm_pgoff /\ mem_list' \in Seq(Frames) /\ num_pages' \in Nat
  BY <1>1, <1>2 DEF local
<1>10. CASE next.done = next.limit \/ After(local.curr) = NoPage
  BY <1>1, <1>4, <1>5, <1>7, <1>8, <1>9, <1>10, WriteReturnsMoves
<1>11. CASE ~(next.done = next.limit \/ After(local.curr) = NoPage)
  <2>1. /\ proc' = [proc EXCEPT ![p] = onward] /\ After(local.curr) \in Frames
        /\ UNCHANGED <<data_size, file>>
    <3>1. After(local.curr) \in Pages
      BY <1>1, <1>2, <1>5, <1>11, NextFound DEF Linked
    <3> QED BY <1>1, <1>11, <3>1 DEF Pages
  <2>2. /\ onward \in Locals /\ onward.pc = "writing" /\ onward.f_pos = local.f_pos
        /\ onward.limit = local.limit /\ onward.done = next.done
        /\ onward.data = local.data /\ onward.vma = local.vma
        /\ onward.vm_pgoff = local.vm_pgoff /\ onward.curr \in Frames
    BY <1>5, <2>1 DEF Locals, Pages
  <2> HIDE DEF onward
  <2>3. Sound(onward)
    BY <1>4, <1>5, <2>2 DEF Sound
  <2>4. FitInv => Fits(onward, mem_list', num_pages', data_size')
    BY <1>1, <1>3, <1>8, <2>1, <2>2 DEF Fits
  <2>5. Globals'
    BY <1>1, <1>7, <2>1 DEF TypeInv, Globals
  <2> QED BY <1>1, <1>9, <2>1, <2>2, <2>3, <2>4, <2>5, SameDisk DEF Moves
<1> QED BY <1>10, <1>11

-----------------------------------------------------------------------------
(* open and release.                                                       *)

LEMMA OpenKeepsTypes ==
  ASSUME TypeInv, NEW p \in Procs, NEW mode \in Modes, Open(p, mode)
  PROVE  TypeInv'
<1> DEFINE next == [Closed EXCEPT !.pc = "open", !.mode = mode]
<1>1. /\ proc[p].pc = "closed" /\ proc' = [proc EXCEPT ![p] = next]
      /\ nprocs' = nprocs + 1 /\ UNCHANGED <<page, max_nprocs>>
      /\ \/ mem_list' = <<>> /\ num_pages' = 0 /\ data_size' = 0 /\ file' = <<>>
         \/ UNCHANGED <<mem_list, num_pages, data_size, file>>
  BY DEF Open, Goes
<1>2. Globals'
  <2>1. page' \in Content /\ max_nprocs' \in Nat
    BY <1>1 DEF TypeInv, Globals
  <2>2. CASE UNCHANGED <<mem_list, num_pages, data_size, file>>
    BY <2>1, <2>2 DEF TypeInv, Globals
  <2>3. CASE mem_list' = <<>> /\ num_pages' = 0 /\ data_size' = 0 /\ file' = <<>>
    <3>1. <<>> \in Seq(Frames) /\ <<>> \in Seq(FileBytes) /\ 0 \in Nat
      OBVIOUS
    <3> QED BY <2>1, <2>3, <3>1 DEF Globals
  <2> QED BY <1>1, <2>2, <2>3
<1>3. next \in Locals /\ next.pc = "open" /\ next.done = 0 /\ next.limit = 0
  BY ClosedSound, InputAssumption DEF Sound, Locals
<1> HIDE DEF next
<1>4. Sound(next)
  BY <1>3 DEF Sound
<1>5. proc' \in [Procs -> Locals] /\ \A q \in Procs : Sound(proc'[q])
  BY <1>1, <1>3, <1>4 DEF TypeInv
<1>6. OpenFiles' = OpenFiles \cup {p} /\ p \notin OpenFiles /\ IsFiniteSet(OpenFiles)
  <2>1. OpenFiles' = OpenFiles \cup {p} /\ p \notin OpenFiles
    BY <1>1, <1>3 DEF TypeInv, OpenFiles
  <2>2. OpenFiles \in SUBSET Procs
    BY DEF OpenFiles
  <2> QED BY <2>1, <2>2, ProcAssumption, FS_Subset
<1>7. nprocs' = Cardinality(OpenFiles')
  BY <1>1, <1>6, FS_AddElement DEF TypeInv
<1> QED BY <1>2, <1>5, <1>7 DEF TypeInv

LEMMA CloseKeepsTypes ==
  ASSUME TypeInv, NEW p \in Procs, Close(p)
  PROVE  TypeInv'
<1>1. /\ proc[p].pc = "open" /\ proc' = [proc EXCEPT ![p] = Closed] /\ nprocs' = nprocs - 1
      /\ UNCHANGED <<mem_list, page, num_pages, data_size, max_nprocs, file>>
  BY DEF Close, Goes
<1>2. Globals'
  BY <1>1 DEF TypeInv, Globals
<1>3. proc' \in [Procs -> Locals] /\ \A q \in Procs : Sound(proc'[q])
  <2>1. Closed \in Locals
    BY ClosedSound DEF Sound
  <2> QED BY <1>1, <2>1, ClosedSound DEF TypeInv
<1>4. OpenFiles' = OpenFiles \ {p} /\ p \in OpenFiles /\ IsFiniteSet(OpenFiles)
  <2>1. OpenFiles' = OpenFiles \ {p} /\ p \in OpenFiles
    BY <1>1, ClosedSound DEF TypeInv, OpenFiles
  <2>2. OpenFiles \in SUBSET Procs
    BY DEF OpenFiles
  <2> QED BY <2>1, <2>2, ProcAssumption, FS_Subset
<1>5. nprocs' = Cardinality(OpenFiles')
  BY <1>1, <1>4, FS_RemoveElement DEF TypeInv
<1> QED BY <1>2, <1>3, <1>5 DEF TypeInv

\* A file that is opened to read, or closed, has no mapping and stands at the start.
LEMMA FreshKeepsFit ==
  ASSUME TypeInv, FitInv, NEW p \in Procs, NEW next \in Locals,
         proc' = [proc EXCEPT ![p] = next], next.pc \notin {"reading", "writing"},
         next.f_pos = 0, next.vma = <<>>, next.vm_pgoff = 0,
         UNCHANGED <<mem_list, num_pages, data_size>>
  PROVE  FitInv'
<1>1. num_pages * PAGE_SIZE \in Nat
  BY Product, SizeAssumption DEF TypeInv, Globals
<1>2. Fits(next, mem_list, num_pages, data_size)
  BY <1>1 DEF Fits
<1>3. ASSUME NEW q \in Procs
      PROVE  Fits(proc'[q], mem_list', num_pages', data_size')
  BY <1>2 DEF FitInv, TypeInv
<1> QED BY <1>3 DEF FitInv, BufferSize

\* At a limit of one, who opens the disk finds that nobody has it.
LEMMA OpensAlone ==
  ASSUME TypeInv, TurnInv, OneAtATime, NEW p \in Procs, NEW mode \in Modes, Open(p, mode)
  PROVE  \A q \in Procs : proc[q].pc = "closed"
<1>1. nprocs < max_nprocs /\ max_nprocs <= 1 /\ nprocs = Cardinality(OpenFiles)
      /\ max_nprocs \in Nat
  BY DEF Open, TypeInv, TurnInv, Globals
<1>2. IsFiniteSet(OpenFiles)
  <2>1. OpenFiles \in SUBSET Procs
    BY DEF OpenFiles
  <2> QED BY <2>1, ProcAssumption, FS_Subset
<1>3. Cardinality(OpenFiles) = 0
  <2>1. Cardinality(OpenFiles) \in Nat
    BY <1>2, FS_CardinalityType
  <2> QED BY <1>1, <2>1
<1>4. OpenFiles = {}
  BY <1>2, <1>3, FS_EmptySet
<1> QED BY <1>4 DEF OpenFiles

\* A write-only open: no call and no mapping is in the way.
LEMMA OpenKeepsFit ==
  ASSUME TypeInv, TurnInv, Undisturbed, FitInv, NEW p \in Procs, NEW mode \in Modes, Open(p, mode)
  PROVE  FitInv'
<1> DEFINE next == [Closed EXCEPT !.pc = "open", !.mode = mode]
<1>1. Closed.f_pos = 0 /\ Closed.vma = <<>> /\ Closed.vm_pgoff = 0
  BY DEF Closed
<1>2. next \in Locals /\ next.pc = "open"
      /\ next.f_pos = 0 /\ next.vma = <<>> /\ next.vm_pgoff = 0
  BY <1>1, ClosedSound, InputAssumption DEF Sound, Locals
<1>3. proc' = [proc EXCEPT ![p] = next]
  BY DEF Open, Goes
<1> HIDE DEF next
<1>4. CASE mode # "w"
  <2>1. UNCHANGED <<mem_list, num_pages, data_size>>
    BY <1>4 DEF Open
  <2> QED BY <1>2, <1>3, <2>1, FreshKeepsFit
<1>5. CASE mode = "w"
  <2>1. mem_list' = <<>> /\ num_pages' = 0 /\ data_size' = 0
    BY <1>5 DEF Open
  <2>2. ASSUME NEW q \in Procs PROVE proc'[q] \in {next, Closed}
    <3>1. proc[q] = Closed
      BY <1>5, OpensAlone DEF Undisturbed, TurnInv
    <3> QED BY <1>3, <3>1 DEF TypeInv
  <2>3. 0 * PAGE_SIZE = 0 /\ Len(<<>>) = 0
    BY SizeAssumption
  <2>4. /\ Fits(next, mem_list', num_pages', data_size')
        /\ Fits(Closed, mem_list', num_pages', data_size')
    BY <1>1, <1>2, <2>1, <2>3, ClosedSound DEF Fits
  <2> QED BY <2>1, <2>2, <2>3, <2>4 DEF FitInv, BufferSize
<1> QED BY <1>4, <1>5

LEMMA CloseKeepsFit ==
  ASSUME TypeInv, FitInv, NEW p \in Procs, Close(p)
  PROVE  FitInv'
<1>1. /\ proc' = [proc EXCEPT ![p] = Closed]
      /\ UNCHANGED <<mem_list, num_pages, data_size>>
  BY DEF Close, Goes
<1>2. /\ Closed \in Locals /\ Closed.f_pos = 0 /\ Closed.vma = <<>>
      /\ Closed.vm_pgoff = 0 /\ Closed.pc \notin {"reading", "writing"}
  <2>1. Closed.f_pos = 0 /\ Closed.vma = <<>> /\ Closed.vm_pgoff = 0
    BY DEF Closed
  <2> QED BY <2>1, ClosedSound DEF Sound
<1> QED BY <1>1, <1>2, FreshKeepsFit

-----------------------------------------------------------------------------

LEMMA OtherStepsMove ==
  ASSUME TypeInv, NEW p \in Procs, Call(p) \/ Continue(p),
         ~Close(p), \A mode \in Modes : ~Open(p, mode)
  PROVE  \E next : Moves(p, next)
<1>1. CASE \E n \in NprocLimits : SetNproc(p, n)
  BY <1>1, SetNprocMoves
<1>2. CASE SeekAny(p)
  BY <1>2, SeekMoves
<1>3. CASE \E n \in Counts : Read(p, n)
  BY <1>3, ReadMoves
<1>4. CASE \E data \in Payloads : Write(p, data)
  BY <1>4, WriteMoves
<1>5. CASE \E len \in Lengths, pgoff \in MapOffsets : Mmap(p, len, pgoff)
  BY <1>5, MmapMoves
<1>6. CASE Unmap(p)
  BY <1>6, UnmapMoves
<1>7. CASE \E i \in DOMAIN proc[p].vma, at \in 0..PAGE_SIZE - 1, v \in Values :
             Store(p, i, at, v)
  BY <1>7, StoreMoves
<1>8. CASE \E f \in Frames : Alloc(p, f)
  BY <1>8, AllocMoves
<1>9. CASE AllocFail(p)
  BY <1>9, AllocFailMoves
<1>10. CASE \E n \in 0..PAGE_SIZE : ReadCopy(p, n) \/ WriteCopy(p, n)
  BY <1>10, ReadCopyMoves, WriteCopyMoves
<1> QED BY <1>1, <1>2, <1>3, <1>4, <1>5, <1>6, <1>7, <1>8, <1>9, <1>10 DEF Call, Continue

LEMMA InitOK == Init => TypeInv /\ TurnInv /\ FitInv
<1> SUFFICES ASSUME Init PROVE TypeInv /\ TurnInv /\ FitInv
  OBVIOUS
<1>1. /\ mem_list = <<>> /\ num_pages = 0 /\ data_size = 0 /\ nprocs = 0 /\ max_nprocs = 1
      /\ page = [f \in Frames |-> [i \in 0..PAGE_SIZE - 1 |-> Junk]]
      /\ proc = [p \in Procs |-> Closed] /\ file = <<>>
  BY DEF Init
<1>2. Globals
  BY <1>1 DEF Globals, Content, Bytes
<1>3. proc \in [Procs -> Locals] /\ \A p \in Procs : Sound(proc[p])
  <2>1. Closed \in Locals
    BY ClosedSound DEF Sound
  <2> QED BY <1>1, <2>1, ClosedSound
<1>4. OpenFiles = {}
  BY <1>1, ClosedSound DEF OpenFiles
<1>5. nprocs = Cardinality(OpenFiles)
  BY <1>1, <1>4, FS_EmptySet
<1>6. FitInv
  <2>1. /\ Closed.f_pos = 0 /\ Closed.vma = <<>> /\ Closed.vm_pgoff = 0
        /\ Closed.pc = "closed"
    BY DEF Closed
  <2>2. 0 * PAGE_SIZE = 0
    BY SizeAssumption
  <2>3. \A p \in Procs : Fits(proc[p], mem_list, num_pages, data_size)
    BY <1>1, <2>1, <2>2 DEF Fits
  <2> QED BY <1>1, <2>2, <2>3 DEF FitInv, BufferSize
<1>7. TurnInv
  BY <1>1, ClosedSound DEF TurnInv, Alone
<1> QED BY <1>2, <1>3, <1>5, <1>6, <1>7 DEF TypeInv

LEMMA NextKeepsTypes == TypeInv /\ [Next]_vars => TypeInv'
<1> SUFFICES ASSUME TypeInv, [Next]_vars PROVE TypeInv'
  OBVIOUS
<1>1. ASSUME NEW p \in Procs, Call(p) \/ Continue(p) PROVE TypeInv'
  <2>1. CASE Close(p)
    BY <2>1, CloseKeepsTypes
  <2>2. CASE \E mode \in Modes : Open(p, mode)
    BY <2>2, OpenKeepsTypes
  <2>3. CASE ~Close(p) /\ \A mode \in Modes : ~Open(p, mode)
    BY <1>1, <2>3, OtherStepsMove, MovesKeepsTypes
  <2> QED BY <2>1, <2>2, <2>3
<1>2. CASE UNCHANGED vars
  BY <1>2 DEF vars, TypeInv, Globals, OpenFiles
<1> QED BY <1>1, <1>2 DEF Next

\* Which limits a step can leave.
LEMMA LimitChosen ==
  ASSUME NEW p \in Procs, Call(p) \/ Continue(p)
  PROVE  max_nprocs' \in NprocLimits \cup {max_nprocs}
<1>1. CASE Call(p)
  BY <1>1 DEF Call, Open, Close, SetNproc, SeekAny, Seek, Read, Write, Mmap, Unmap, Store
<1>2. CASE Continue(p)
  BY <1>2 DEF Continue, Alloc, AllocFail, ReadCopy, WriteCopy
<1> QED BY <1>1, <1>2

LEMMA NextKeepsTurn == TypeInv /\ TurnInv /\ [Next]_vars => TurnInv'
<1> SUFFICES ASSUME TypeInv, TurnInv, [Next]_vars PROVE TurnInv'
  OBVIOUS
<1>1. ASSUME NEW p \in Procs, Call(p) \/ Continue(p) PROVE TurnInv'
  <2>1. OneAtATime => max_nprocs' <= 1
    <3>1. max_nprocs' \in NprocLimits \/ max_nprocs' = max_nprocs
      BY <1>1, LimitChosen
    <3>2. OneAtATime => max_nprocs' \in {0, 1} \/ max_nprocs' = max_nprocs
      BY <3>1 DEF OneAtATime
    <3> QED BY <3>2 DEF TurnInv
  <2>2. CASE Close(p)
    <3>1. proc' = [proc EXCEPT ![p] = Closed]
      BY <2>2 DEF Close, Goes
    <3>2. \A q \in Procs : proc'[q] = IF q = p THEN Closed ELSE proc[q]
      BY <3>1 DEF TypeInv
    <3> QED BY <2>1, <3>2, ClosedSound DEF TurnInv, Alone
  <2>3. CASE \E mode \in Modes : Open(p, mode)
    <3>1. PICK mode \in Modes : Open(p, mode)
      BY <2>3
    <3> DEFINE next == [Closed EXCEPT !.pc = "open", !.mode = mode]
    <3>2. proc' = [proc EXCEPT ![p] = next] /\ next.pc = "open"
      BY <3>1, ClosedSound DEF Open, Goes, Sound, Locals
    <3> HIDE DEF next
    <3>3. \A q \in Procs : proc'[q] = IF q = p THEN next ELSE proc[q]
      BY <3>2 DEF TypeInv
    <3>4. OneAtATime => \A q \in Procs : proc[q].pc = "closed"
      BY <3>1, OpensAlone
    <3> QED BY <2>1, <3>2, <3>3, <3>4 DEF TurnInv, Alone
  <2>4. CASE ~Close(p) /\ \A mode \in Modes : ~Open(p, mode)
    <3>1. PICK next : Moves(p, next)
      BY <1>1, <2>4, OtherStepsMove
    <3>2. proc[p].pc # "closed" /\ next.pc # "closed"
          /\ \A q \in Procs : proc'[q] = IF q = p THEN next ELSE proc[q]
      BY <3>1 DEF Moves, TypeInv
    <3> QED BY <2>1, <3>2 DEF TurnInv, Alone
  <2> QED BY <2>2, <2>3, <2>4
<1>2. CASE UNCHANGED vars
  BY <1>2 DEF vars, TurnInv, Alone
<1> QED BY <1>1, <1>2 DEF Next

LEMMA NextKeepsFit == TypeInv /\ TurnInv /\ Undisturbed /\ FitInv /\ [Next]_vars => FitInv'
<1> SUFFICES ASSUME TypeInv, TurnInv, Undisturbed, FitInv, [Next]_vars PROVE FitInv'
  OBVIOUS
<1>1. ASSUME NEW p \in Procs, Call(p) \/ Continue(p) PROVE FitInv'
  <2>1. CASE Close(p)
    BY <2>1, CloseKeepsFit
  <2>2. CASE \E mode \in Modes : Open(p, mode)
    BY <2>2, OpenKeepsFit
  <2>3. CASE ~Close(p) /\ \A mode \in Modes : ~Open(p, mode)
    BY <1>1, <2>3, OtherStepsMove, MovesKeepsFit
  <2> QED BY <2>1, <2>2, <2>3
<1>2. CASE UNCHANGED vars
  BY <1>2 DEF vars, FitInv, BufferSize
<1> QED BY <1>1, <1>2 DEF Next

LEMMA TypesFollow == TypeInv => TypeOK
<1> SUFFICES ASSUME TypeInv PROVE TypeOK
  OBVIOUS
<1>1. ASSUME NEW p \in Procs
      PROVE  /\ proc[p].f_pos \in Nat /\ proc[p].done \in 0..proc[p].limit
             /\ proc[p].begin_offset \in 0..PAGE_SIZE - 1
             /\ proc[p].pc \in {"reading", "writing"} => proc[p].curr \in Frames
  <2>1. Sound(proc[p]) /\ proc[p] \in Locals
    BY DEF TypeInv
  <2> QED BY <2>1, Fields DEF Sound
<1> QED BY <1>1 DEF TypeOK, TypeInv, Globals, Content, Bytes, FileBytes, OpenFiles

\* However calls interleave, fail and empty the disk, a call stays inside its pages, moves
\* no more than it was asked, and nprocs counts the open files (asgn1.c:113, 135).
THEOREM TypesKept == Spec => []TypeOK
<1>1. Init => TypeInv
  BY InitOK
<1> QED BY <1>1, NextKeepsTypes, TypesFollow, PTL DEF Spec

LEMMA Steady == ASSUME Undisturbed PROVE Spec => [](TypeInv /\ TurnInv /\ FitInv)
<1>1. TypeInv /\ TurnInv /\ FitInv /\ [Next]_vars => (TypeInv /\ TurnInv /\ FitInv)'
  BY NextKeepsTypes, NextKeepsTurn, NextKeepsFit
<1> QED BY <1>1, InitOK, PTL DEF Spec

\* When nobody empties it under another process, the pages hold all the data and every
\* position: for processes that have it in turn, whatever they do, and for any number
\* whose calls sleep in each other's way when none opens it write-only
\* (asgn1.c:53-54, 242-311).
THEOREM DataInPages == ASSUME Undisturbed PROVE Spec => []DiskFits
<1>1. TypeInv /\ FitInv => DiskFits
  BY DEF FitInv, DiskFits, Fits, BufferSize
<1> QED BY <1>1, Steady, PTL

\* Then, too, a mapping shows the pages of the disk (asgn1.c:387-392).
THEOREM MappingsShow == ASSUME Undisturbed PROVE Spec => []MapShowsDisk
<1>1. TypeInv /\ FitInv => MapShowsDisk
  <2> SUFFICES ASSUME TypeInv, FitInv, NEW p \in Procs, NEW i \in DOMAIN proc[p].vma,
                      proc[p].vma[i] # NoPage
               PROVE  PageAt(mem_list, proc[p].vm_pgoff + i - 1) = proc[p].vma[i]
    BY DEF MapShowsDisk
  <2>1. proc[p].vm_pgoff = 0 /\ PageAt(mem_list, i - 1) = proc[p].vma[i]
    BY DEF FitInv, Fits
  <2>2. i \in Nat
    BY Fields DEF TypeInv
  <2>3. proc[p].vm_pgoff + i - 1 = i - 1
    BY <2>1, <2>2
  <2> QED BY <2>1, <2>3
<1> QED BY <1>1, Steady, PTL

-----------------------------------------------------------------------------
(* One process at a time: the disk is a file.                              *)

LEMMA DivMod ==
  ASSUME NEW pos \in Nat, NEW size \in Nat \ {0}
  PROVE  pos = (pos \div size) * size + (pos % size)
OBVIOUS

LEMMA Below ==
  ASSUME NEW m \in Nat, NEW k \in Nat, NEW size \in Nat \ {0}, NEW r \in 0..size - 1
  PROVE  m * size + r < k * size <=> m < k
<1>1. m * size \in Nat /\ k * size \in Nat /\ (m + 1) * size = m * size + size
  OBVIOUS
<1>2. k <= m => k * size <= m * size
  BY Bigger
<1>3. m + 1 <= k => (m + 1) * size <= k * size
  BY Bigger
<1>4. k <= m \/ m + 1 <= k
  OBVIOUS
<1> QED BY <1>1, <1>2, <1>3, <1>4

LEMMA DivOf ==
  ASSUME NEW no \in Nat, NEW size \in Nat \ {0}, NEW r \in 0..size - 1
  PROVE  (no * size + r) \div size = no /\ (no * size + r) % size = r
<1> DEFINE pos == no * size + r
           m == pos \div size
           k == pos % size
<1>1. no * size \in Nat /\ pos \in Nat
  OBVIOUS
<1>2. m \in Nat /\ k \in 0..size - 1 /\ pos = m * size + k
  <2> HIDE DEF pos
  <2> QED BY <1>1, DivMod, PlaceOfByte
<1> HIDE DEF m, k
<1>3. m * size \in Nat /\ (m + 1) * size = m * size + size /\ (no + 1) * size = no * size + size
  BY <1>2
<1>4. m * size + k < (no + 1) * size /\ no * size + r < (m + 1) * size
  BY <1>1, <1>2, <1>3
<1>5. m < no + 1 /\ no < m + 1
  BY <1>2, <1>4, Below
<1>6. m = no
  BY <1>2, <1>5
<1>7. k = r
  BY <1>1, <1>2, <1>6
<1> QED BY <1>6, <1>7 DEF m, k

\* The disk and the file it is to be; the byte of a disk at a position.
Disks == [list : Seq(Frames), page : Content, file : Seq(FileBytes)]
Disk == [list |-> mem_list, page |-> page, file |-> file]
ByteAt(d, pos) == d.page[PageAt(d.list, pos \div PAGE_SIZE)][pos % PAGE_SIZE]

\* No page is twice in a list; so many bytes from a position on are in its page.
Distinct(list) == \A i, j \in DOMAIN list : list[i] = list[j] => i = j
WithinPage(pos, n) == (pos % PAGE_SIZE) + n <= PAGE_SIZE

\* A byte that was written is on the disk.
Kept(d, i) == d.file[i] # Unknown => ByteAt(d, i - 1) = d.file[i]
AllKept(d) == \A i \in DOMAIN d.file : Kept(d, i)

\* A call is at the page and the byte it has come to.
AtByte(d, local) ==
  LET pos == local.f_pos + local.done
  IN  /\ local.curr = PageAt(d.list, pos \div PAGE_SIZE)
      /\ local.begin_offset = pos % PAGE_SIZE
\* How much a read is to return.
Reaches(d, count, pos) == Min({count, Max({0, Len(d.file) - pos})})

ReadingWell(d, local) ==
  /\ Len(local.data) = local.done /\ local.limit = Reaches(d, local.count, local.f_pos)
  /\ \A j \in 1..local.done : d.file[local.f_pos + j] \in {Unknown, local.data[j]}
\* Where the walk of a write has come to: behind its last byte or, once its buffer was
\* invalid, to the start of a later page.
WalkAt(d, local, at) ==
  /\ local.curr = PageAt(d.list, at \div PAGE_SIZE)
  /\ local.begin_offset = at % PAGE_SIZE
  /\ ~local.fault => at = local.f_pos + local.done
  /\ local.fault => /\ at % PAGE_SIZE = 0 /\ local.f_pos + local.done < at
                    /\ local.done < local.limit
\* What a write has stored so far is there, what it has cleared is cleared, and the rest is
\* untouched.
WritingWell(d, local, at) ==
  /\ \A i \in DOMAIN d.file :
       i \notin local.f_pos + 1..local.f_pos + local.done =>
         IF i - 1 < at /\ Cleared(local, i - 1) THEN ByteAt(d, i - 1) = Zero
         ELSE Kept(d, i)
  /\ \A j \in 1..local.done : ByteAt(d, local.f_pos + j - 1) = local.data[j]
ReadWell(d, local) ==
  LET begin == local.f_pos - Len(local.data)
  IN  /\ begin >= 0
      /\ local.fault \/ Len(local.data) = Reaches(d, local.count, begin)
      /\ \A j \in DOMAIN local.data : d.file[begin + j] \in {Unknown, local.data[j]}

DataOf(d, local) ==
  /\ IF local.pc = "writing"
     THEN \E at \in Nat : WalkAt(d, local, at) /\ WritingWell(d, local, at)
     ELSE AllKept(d)
  /\ local.pc = "reading" => (local.fault \/ AtByte(d, local)) /\ ReadingWell(d, local)
  /\ local.pc = "open" => ReadWell(d, local)
DataInv == /\ Distinct(mem_list) /\ data_size = Len(file)
           /\ (\A p \in Procs : proc[p].pc # "writing") => AllKept(Disk)
           /\ \A p \in Procs : proc[p].pc # "closed" => DataOf(Disk, proc[p])

-----------------------------------------------------------------------------
(* Bytes and pages.                                                        *)

\* Where a byte that a list has room for is.
LEMMA PlaceInList ==
  ASSUME NEW list \in Seq(Frames), NEW pos \in Nat, pos < Len(list) * PAGE_SIZE
  PROVE  LET no == pos \div PAGE_SIZE
         IN  /\ no \in Nat /\ no < Len(list) /\ pos % PAGE_SIZE \in 0..PAGE_SIZE - 1
             /\ no + 1 \in DOMAIN list /\ PageAt(list, no) = list[no + 1]
             /\ PageAt(list, no) \in Frames
<1> DEFINE no == pos \div PAGE_SIZE
           at == pos % PAGE_SIZE
<1>1. no \in Nat /\ at \in 0..PAGE_SIZE - 1 /\ pos = no * PAGE_SIZE + at
  BY SizeAssumption, DivMod, PlaceOfByte
<1> HIDE DEF no, at
<1>2. no < Len(list)
  BY <1>1, Below, SizeAssumption
<1> QED BY <1>1, <1>2 DEF PageAt, no, at

\* A position whose page the list lacks is past all its pages.
LEMMA PastList ==
  ASSUME NEW list \in Seq(Frames), NEW pos \in Nat,
         PageAt(list, pos \div PAGE_SIZE) = NoPage
  PROVE  Len(list) * PAGE_SIZE <= pos
<1>1. pos < Len(list) * PAGE_SIZE \/ Len(list) * PAGE_SIZE <= pos
  BY SizeAssumption, Product
<1> QED BY <1>1, PlaceInList, FrameAssumption

\* A longer list has every byte where it was.
LEMMA LongerList ==
  ASSUME NEW d \in Disks, NEW e \in Disks, e.page = d.page, NEW f \in Frames,
         e.list = Append(d.list, f), NEW pos \in Nat, pos < Len(d.list) * PAGE_SIZE
  PROVE  ByteAt(e, pos) = ByteAt(d, pos)
<1> DEFINE no == pos \div PAGE_SIZE
<1>1. d.list \in Seq(Frames)
  BY DEF Disks
<1>2. no \in Nat /\ no < Len(d.list)
  BY <1>1, PlaceInList
<1> HIDE DEF no
<1>3. PageAt(e.list, no) = PageAt(d.list, no)
  BY <1>1, <1>2 DEF PageAt
<1> QED BY <1>3 DEF ByteAt, no

\* The page after the one with a number.
LEMMA AfterIsNext ==
  ASSUME mem_list \in Seq(Frames), Distinct(mem_list), NEW no \in Nat,
         no < Len(mem_list)
  PROVE  After(PageAt(mem_list, no)) = PageAt(mem_list, no + 1)
<1> DEFINE f == mem_list[no + 1]
<1>1. no + 1 \in DOMAIN mem_list /\ PageAt(mem_list, no) = f
  BY DEF PageAt
<1>2. \A i \in DOMAIN mem_list : mem_list[i] = f <=> i = no + 1
  BY <1>1 DEF Distinct
<1>3. (CHOOSE i \in DOMAIN mem_list : mem_list[i] = f) = no + 1
  BY <1>1, <1>2
<1> QED BY <1>1, <1>3 DEF After

\* The byte after the last of a page is the first of the next.
LEMMA NextPage ==
  ASSUME NEW pos \in Nat, NEW n \in Nat, (pos % PAGE_SIZE) + n = PAGE_SIZE
  PROVE  /\ (pos + n) \div PAGE_SIZE = (pos \div PAGE_SIZE) + 1
         /\ (pos + n) % PAGE_SIZE = 0
         /\ pos + n = ((pos \div PAGE_SIZE) + 1) * PAGE_SIZE
<1> DEFINE no == pos \div PAGE_SIZE
           at == pos % PAGE_SIZE
<1>1. no \in Nat /\ at \in 0..PAGE_SIZE - 1 /\ pos = no * PAGE_SIZE + at
  BY SizeAssumption, DivMod, PlaceOfByte
<1>2. at + n = PAGE_SIZE
  OBVIOUS
<1> HIDE DEF no, at
<1>3. (no + 1) * PAGE_SIZE = no * PAGE_SIZE + PAGE_SIZE /\ no * PAGE_SIZE \in Nat
  BY <1>1, SizeAssumption
<1>4. pos + n = (no + 1) * PAGE_SIZE + 0
  BY <1>1, <1>2, <1>3, SizeAssumption
<1>5. 0 \in 0..PAGE_SIZE - 1 /\ no + 1 \in Nat
  BY <1>1, SizeAssumption
<1>6. (pos + n) \div PAGE_SIZE = no + 1 /\ (pos + n) % PAGE_SIZE = 0
  <2>1. ((no + 1) * PAGE_SIZE + 0) \div PAGE_SIZE = no + 1
        /\ ((no + 1) * PAGE_SIZE + 0) % PAGE_SIZE = 0
    BY <1>5, DivOf, SizeAssumption
  <2> QED BY <2>1, <1>4
<1> QED BY <1>3, <1>4, <1>6, SizeAssumption DEF no, at

\* A byte of the same page, some bytes on.
LEMMA SamePage ==
  ASSUME NEW pos \in Nat, NEW k \in Nat, (pos % PAGE_SIZE) + k < PAGE_SIZE
  PROVE  /\ (pos + k) \div PAGE_SIZE = pos \div PAGE_SIZE
         /\ (pos + k) % PAGE_SIZE = (pos % PAGE_SIZE) + k
<1> DEFINE no == pos \div PAGE_SIZE
           at == pos % PAGE_SIZE
<1>1. no \in Nat /\ at \in 0..PAGE_SIZE - 1 /\ pos = no * PAGE_SIZE + at
  BY SizeAssumption, DivMod, PlaceOfByte
<1>2. at + k < PAGE_SIZE
  OBVIOUS
<1> HIDE DEF no, at
<1>3. at + k \in 0..PAGE_SIZE - 1
  BY <1>1, <1>2, SizeAssumption
<1>4. (no * PAGE_SIZE + (at + k)) \div PAGE_SIZE = no
      /\ (no * PAGE_SIZE + (at + k)) % PAGE_SIZE = at + k
  BY <1>1, <1>3, DivOf, SizeAssumption
<1>5. pos + k = no * PAGE_SIZE + (at + k)
  BY <1>1, Product, SizeAssumption
<1> QED BY <1>4, <1>5 DEF no, at

\* What a write changes: the bytes from a position on, as many as it has copied.
LEMMA BytesWritten ==
  ASSUME NEW e \in Disks, NEW from \in Nat, NEW n \in Nat, WithinPage(from, n),
         NEW i \in Nat, i < n
  PROVE  ByteAt(e, from + i) =
           e.page[PageAt(e.list, from \div PAGE_SIZE)][(from % PAGE_SIZE) + i]
<1> DEFINE start == from % PAGE_SIZE
<1>1. start \in 0..PAGE_SIZE - 1 /\ start + n <= PAGE_SIZE
  BY PlaceOfByte, SizeAssumption DEF WithinPage
<1>2. start + i < PAGE_SIZE
  <2> HIDE DEF start
  <2> QED BY <1>1, SizeAssumption
<1>3. (from + i) \div PAGE_SIZE = from \div PAGE_SIZE /\ (from + i) % PAGE_SIZE = start + i
  BY <1>2, SamePage
<1> HIDE DEF start
<1> QED BY <1>3 DEF ByteAt, start

\* What it leaves alone: the others of the page, and other pages.
LeftAlone(d, e, from, n) ==
  LET f == PageAt(d.list, from \div PAGE_SIZE)
      start == from % PAGE_SIZE
  IN  /\ f \in Frames /\ \A g \in Frames : g # f => e.page[g] = d.page[g]
      /\ \A i \in 0..PAGE_SIZE - 1 :
           i \notin start..start + n - 1 => e.page[f][i] = d.page[f][i]

LEMMA BytesLeft ==
  ASSUME NEW d \in Disks, NEW e \in Disks, e.list = d.list, Distinct(d.list),
         NEW from \in Nat, NEW n \in Nat, LeftAlone(d, e, from, n),
         NEW pos \in Nat, pos < Len(d.list) * PAGE_SIZE, pos \notin from..from + n - 1
  PROVE  ByteAt(e, pos) = ByteAt(d, pos)
<1> DEFINE no == pos \div PAGE_SIZE
           at == pos % PAGE_SIZE
           nf == from \div PAGE_SIZE
           f == PageAt(d.list, from \div PAGE_SIZE)
           start == from % PAGE_SIZE
<1>1. d.list \in Seq(Frames) /\ f \in Frames
  BY DEF Disks, LeftAlone
<1> DEFINE pagesAlone == \A g \in Frames : g # f => e.page[g] = d.page[g]
           restAlone == \A i \in 0..PAGE_SIZE - 1 :
             i \notin start..start + n - 1 => e.page[f][i] = d.page[f][i]
<1>0. pagesAlone /\ restAlone
  BY DEF LeftAlone
<1>2. /\ no \in Nat /\ at \in 0..PAGE_SIZE - 1 /\ pos = no * PAGE_SIZE + at
      /\ nf \in Nat /\ start \in 0..PAGE_SIZE - 1 /\ from = nf * PAGE_SIZE + start
  BY SizeAssumption, DivMod, PlaceOfByte
<1>3. d.list[no + 1] = PageAt(d.list, no) /\ no < Len(d.list)
      /\ PageAt(d.list, no) \in Frames
  BY <1>1, PlaceInList, Zenon
<1>4. nf < Len(d.list) /\ f = d.list[nf + 1]
  BY <1>1, <1>2, FrameAssumption DEF PageAt
<1>5. /\ ByteAt(e, pos) = e.page[PageAt(d.list, no)][at]
      /\ ByteAt(d, pos) = d.page[PageAt(d.list, no)][at]
  BY DEF ByteAt
<1> HIDE DEF no, at, nf, f, start
<1>6. CASE no = nf
  <2>1. PICK first \in Nat : first = nf * PAGE_SIZE
    BY <1>2, Product, SizeAssumption
  <2>2. pos = first + at /\ from = first + start /\ at \in Nat /\ start \in Nat
    BY <1>2, <1>6, <2>1, SizeAssumption
  <2>3. at \notin start..start + n - 1
    BY <2>2
  <2>4. PageAt(d.list, no) = f
    BY <1>3, <1>4, <1>6
  <2> QED BY <1>0, <1>2, <1>5, <2>3, <2>4
<1>7. CASE no # nf
  <2>1. no + 1 \in DOMAIN d.list /\ nf + 1 \in DOMAIN d.list /\ no + 1 # nf + 1
    <3>1. Len(d.list) \in Nat /\ DOMAIN d.list = 1..Len(d.list)
      BY <1>1
    <3> QED BY <1>2, <1>3, <1>4, <1>7, <3>1, SMTT(30)
  <2>2. d.list[no + 1] # f
    BY <1>4, <2>1, Zenon DEF Distinct
  <2> QED BY <1>0, <1>3, <1>5, <2>2
<1> QED BY <1>6, <1>7

\* What a store through a mapping changes: the one byte.
ByteChanged(d, e, f, at, v) == e.page = [d.page EXCEPT ![f][at] = v]
StoredIn(d, e, nf, at, v) ==
  /\ e.list = d.list /\ Distinct(d.list) /\ PageAt(d.list, nf) \in Frames
  /\ ByteChanged(d, e, PageAt(d.list, nf), at, v)
NewByteAt(d, e, place, v, pos) ==
  ByteAt(e, pos) = IF pos = place THEN v ELSE ByteAt(d, pos)

LEMMA ByteStored ==
  ASSUME NEW d \in Disks, NEW e \in Disks, NEW nf \in Nat, NEW b \in 0..PAGE_SIZE - 1,
         NEW v, StoredIn(d, e, nf, b, v),
         NEW pos \in Nat, pos < Len(d.list) * PAGE_SIZE
  PROVE  NewByteAt(d, e, nf * PAGE_SIZE + b, v, pos)
<1> DEFINE f == PageAt(d.list, nf)
<1>0. /\ e.list = d.list /\ Distinct(d.list) /\ f \in Frames
      /\ ByteChanged(d, e, f, b, v)
  BY DEF StoredIn
<1> DEFINE no == pos \div PAGE_SIZE
           at == pos % PAGE_SIZE
<1>1. d.list \in Seq(Frames) /\ d.page \in Content
  BY DEF Disks
<1>2. no \in Nat /\ at \in 0..PAGE_SIZE - 1 /\ pos = no * PAGE_SIZE + at
  BY SizeAssumption, DivMod, PlaceOfByte
<1>3. no < Len(d.list) /\ PageAt(d.list, no) = d.list[no + 1] /\ d.list[no + 1] \in Frames
  BY <1>1, PlaceInList
<1>4. nf < Len(d.list) /\ f = d.list[nf + 1]
  BY <1>0, <1>1, FrameAssumption DEF PageAt
<1>5. /\ ByteAt(e, pos) = e.page[PageAt(d.list, no)][at]
      /\ ByteAt(d, pos) = d.page[PageAt(d.list, no)][at]
  BY <1>0 DEF ByteAt
<1>6. pos = nf * PAGE_SIZE + b <=> no = nf /\ at = b
  <2>1. (nf * PAGE_SIZE + b) \div PAGE_SIZE = nf /\ (nf * PAGE_SIZE + b) % PAGE_SIZE = b
    BY DivOf, SizeAssumption
  <2> QED BY <1>2, <2>1
<1> HIDE DEF no, at, f
<1>7. no = nf <=> d.list[no + 1] = f
  BY <1>0, <1>1, <1>2, <1>3, <1>4 DEF Distinct
<1>8. d.page[f] \in [0..PAGE_SIZE - 1 -> Bytes]
  BY <1>0, <1>1 DEF Content
<1>9. e.page[f] = [d.page[f] EXCEPT ![b] = v]
  BY <1>0, <1>1 DEF Content, ByteChanged
<1>10. d.list[no + 1] # f => e.page[d.list[no + 1]] = d.page[d.list[no + 1]]
  BY <1>0, <1>1, <1>3 DEF Content, ByteChanged
<1>11. e.page[f][at] = IF at = b THEN v ELSE d.page[f][at]
  BY <1>2, <1>8, <1>9
<1> QED BY <1>3, <1>5, <1>6, <1>7, <1>10, <1>11 DEF NewByteAt

-----------------------------------------------------------------------------
(* Values of a call.                                                       *)

LEMMA Truncated ==
  ASSUME NEW left \in Int
  PROVE  /\ Max({0, left}) \in Nat
         /\ left <= 0 => Max({0, left}) = 0
         /\ left >= 0 => Max({0, left}) = left
<1>1. Max({0, left}) \in {0, left} /\ Max({0, left}) >= 0 /\ Max({0, left}) >= left
  BY TwoNumbers
<1> HIDE DEF Max
<1> QED BY <1>1

LEMMA Smaller ==
  ASSUME NEW x \in Nat, NEW y \in Nat
  PROVE  /\ Min({x, y}) \in Nat /\ Min({x, y}) <= x /\ Min({x, y}) <= y
         /\ x = 0 \/ y = 0 => Min({x, y}) = 0
<1>1. Min({x, y}) \in {x, y} /\ Min({x, y}) <= x /\ Min({x, y}) <= y
  BY TwoNumbers
<1> QED BY <1>1

LEMMA ReachesBounds ==
  ASSUME NEW d \in Disks, NEW count \in Nat, NEW pos \in Nat
  PROVE  /\ Reaches(d, count, pos) \in Nat
         /\ count = 0 \/ Len(d.file) <= pos => Reaches(d, count, pos) = 0
<1> DEFINE left == Len(d.file) - pos
           rest == Max({0, left})
<1>1. left \in Int /\ (Len(d.file) <= pos => left <= 0)
  BY DEF Disks
<1>2. rest \in Nat /\ (Len(d.file) <= pos => rest = 0)
  <2> HIDE DEF left
  <2> QED BY <1>1, Truncated
<1>3. Reaches(d, count, pos) = Min({count, rest})
  BY DEF Reaches
<1> HIDE DEF rest
<1> QED BY <1>2, <1>3, Smaller

\* A process in user mode that has read nothing, one that has no file, or that waits for
\* a page, knows nothing of the data.
LEMMA Blank ==
  ASSUME NEW d \in Disks, AllKept(d), NEW local \in Locals,
         \/ local.pc \in {"closed", "alloc"}
         \/ /\ local.pc = "open" /\ local.data = <<>>
            /\ local.count = 0 \/ Len(d.file) <= local.f_pos
  PROVE  DataOf(d, local)
<1>1. CASE local.pc \in {"closed", "alloc"}
  BY <1>1 DEF DataOf
<1>2. CASE /\ local.pc = "open" /\ local.data = <<>>
           /\ local.count = 0 \/ Len(d.file) <= local.f_pos
  <2>1. local.f_pos \in Nat /\ local.count \in Nat
    BY DEF Locals
  <2>2. Len(local.data) = 0 /\ DOMAIN local.data = {} /\ local.f_pos - 0 = local.f_pos
    BY <1>2, <2>1
  <2>3. Reaches(d, local.count, local.f_pos) = 0
    BY <1>2, <2>1, ReachesBounds
  <2>4. ReadWell(d, local)
    BY <2>1, <2>2, <2>3 DEF ReadWell
  <2> QED BY <1>2, <2>4 DEF DataOf
<1> QED BY <1>1, <1>2

\* The first page of a call.
LEMMA FirstPage ==
  ASSUME NEW local \in Locals, NEW d \in Disks, NEW pc \in {"reading", "writing"},
         local.done = 0
  PROVE  LET next == OnPage(local, d.list, pc)
         IN  /\ next.count = local.count /\ next.data = local.data
             /\ next.curr = PageAt(d.list, local.f_pos \div PAGE_SIZE)
             /\ next.begin_offset = local.f_pos % PAGE_SIZE
             /\ next.fault = local.fault /\ AtByte(d, next)
<1> DEFINE first == PageAt(d.list, local.f_pos \div PAGE_SIZE)
           begin == local.f_pos % PAGE_SIZE
           next == OnPage(local, d.list, pc)
<1>1. d.list \in Seq(Frames) /\ local.f_pos \in Nat
  BY DEF Disks, Locals
<1>2. next.f_pos = local.f_pos /\ next.done = local.done
  BY <1>1, OnPageFields
<1>3. next = [local EXCEPT !.pc = pc, !.curr = first, !.begin_offset = begin]
  BY Zenon DEF OnPage
<1>4. first \in Pages /\ begin \in 0..PAGE_SIZE - 1
  BY <1>1, SizeAssumption, PlaceOfByte, PageFound
<1>5. /\ next.count = local.count /\ next.data = local.data /\ next.curr = first
      /\ next.begin_offset = begin /\ next.fault = local.fault
  <2> HIDE DEF first, begin, next
  <2> QED BY <1>3, <1>4 DEF Locals
<1>6. next.f_pos + next.done = local.f_pos
  <2> HIDE DEF next
  <2> QED BY <1>1, <1>2
<1> QED BY <1>5, <1>6 DEF AtByte

LEMMA CopiedFault ==
  ASSUME NEW local \in Locals, local.done <= local.limit, NEW n \in 0..PAGE_SIZE,
         CanCopy(local, n)
  PROVE  LET next == Copied(local, n)
             x == PAGE_SIZE - local.begin_offset
             y == local.limit - local.done
         IN  /\ next.count = local.count /\ next.fault \in BOOLEAN
             /\ local.fault => n = 0 /\ (next.fault \/ y = 0)
             /\ n <= x /\ n <= y /\ (~next.fault => n = x \/ n = y)
<1> DEFINE next == Copied(local, n)
           x == PAGE_SIZE - local.begin_offset
           y == local.limit - local.done
           short == n < InPage(local)
           m == local.done + n
<1>1. x \in Int /\ x > 0 /\ y \in Int /\ y >= 0 /\ m \in Nat
  BY SizeAssumption, Fields
<1>2. InPage(local) = Min({x, y})
  BY DEF InPage
<1>3. next = [local EXCEPT !.done = m, !.fault = short, !.begin_offset = 0]
  BY Zenon DEF Copied
<1> HIDE DEF x, y, m, next
<1>4. InPage(local) \in {x, y} /\ InPage(local) <= x /\ InPage(local) <= y
  BY <1>1, <1>2, TwoNumbers
<1>5. short \in BOOLEAN
  BY <1>1, <1>4
<1>6. next.count = local.count /\ next.fault = short
  <2> HIDE DEF short
  <2> QED BY <1>3, <1>5 DEF Locals
<1>7. local.fault => n = 0 /\ (short \/ y = 0)
  <2>1. local.fault => n = 0
    BY <1>4 DEF CanCopy
  <2>2. n = 0 => short \/ y = 0
    BY <1>1, <1>4
  <2> QED BY <2>1, <2>2
<1>8. n <= InPage(local)
  BY <1>1, <1>4, SizeAssumption DEF CanCopy
<1>9. n <= x /\ n <= y /\ (~short => n = x \/ n = y)
  BY <1>1, <1>4, <1>8
<1> QED BY <1>5, <1>6, <1>7, <1>9 DEF next, x, y

\* A call that has copied from a page and not all it is to, is at the next page, unless
\* a user page was missing; when there is none, it is past all the disk has.
LEMMA GoesOn ==
  ASSUME NEW d \in Disks, d.list = mem_list, Distinct(mem_list), NEW local \in Locals,
         local.done <= local.limit, NEW n \in 0..PAGE_SIZE, CanCopy(local, n),
         local.curr \in Frames, local.fault \/ AtByte(d, local)
  PROVE  LET next == Copied(local, n)
             pos == local.f_pos + local.done
         IN  /\ local.fault => n = 0
             /\ ~local.fault => WithinPage(pos, n)
             /\ next.done # next.limit =>
                  /\ next.fault \/ AtByte(d, [next EXCEPT !.curr = After(local.curr)])
                  /\ After(local.curr) = NoPage =>
                       next.fault \/ Len(d.list) * PAGE_SIZE <= pos + n
<1> DEFINE next == Copied(local, n)
           pos == local.f_pos + local.done
           onward == [next EXCEPT !.curr = After(local.curr)]
<1>1. /\ local.fault => n = 0 /\ (next.fault \/ local.limit - local.done = 0)
      /\ n <= PAGE_SIZE - local.begin_offset /\ n <= local.limit - local.done
      /\ next.fault \/ n = PAGE_SIZE - local.begin_offset \/ n = local.limit - local.done
  BY CopiedFault
<1>2. /\ next \in Locals /\ next.f_pos = local.f_pos /\ next.limit = local.limit
      /\ next.done = local.done + n /\ next.begin_offset = 0
  BY CopiedFields
<1>3. /\ {local.f_pos, local.done, local.limit, pos, n} \subseteq Nat
      /\ local.begin_offset \in Nat /\ d.list \in Seq(Frames)
  BY Fields, SizeAssumption DEF Disks
<1> HIDE DEF next, pos
<1>4. local.fault => next.fault \/ next.done = next.limit
  BY <1>1, <1>2, <1>3
<1>5. ~local.fault => WithinPage(pos, n)
  <2> SUFFICES ASSUME ~local.fault PROVE WithinPage(pos, n)
    OBVIOUS
  <2>1. local.begin_offset = pos % PAGE_SIZE
    BY DEF AtByte, pos
  <2> QED BY <1>1, <1>3, <2>1, SizeAssumption DEF WithinPage
<1>6. ASSUME next.done # next.limit, ~next.fault
      PROVE  AtByte(d, onward)
             /\ (After(local.curr) = NoPage => Len(d.list) * PAGE_SIZE <= pos + n)
  <2>1. ~local.fault
    BY <1>4, <1>6
  <2>2. local.curr = PageAt(d.list, pos \div PAGE_SIZE) /\ local.begin_offset = pos % PAGE_SIZE
    BY <2>1 DEF AtByte, pos
  <2>3. (pos % PAGE_SIZE) + n = PAGE_SIZE
    <3>1. n = PAGE_SIZE - local.begin_offset
      BY <1>1, <1>2, <1>3, <1>6
    <3> QED BY <1>3, <2>2, <3>1, SizeAssumption
  <2> DEFINE no == pos \div PAGE_SIZE
             to == pos + n
  <2>4. to \div PAGE_SIZE = no + 1 /\ to % PAGE_SIZE = 0
        /\ to = (no + 1) * PAGE_SIZE
    BY <1>3, <2>3, NextPage
  <2>5. no \in Nat /\ no < Len(d.list)
    <3>1. no \in Nat
      BY <1>3, PlaceOfByte, SizeAssumption
    <3> HIDE DEF no
    <3> QED BY <1>3, <2>2, <3>1, FrameAssumption DEF PageAt, no
  <2> HIDE DEF no
  <2>6. After(local.curr) = PageAt(d.list, no + 1)
    BY <1>3, <2>2, <2>5, AfterIsNext DEF no
  <2>7. /\ onward.f_pos + onward.done = to /\ onward.begin_offset = 0
        /\ onward.curr = After(local.curr)
    <3>1. /\ onward.f_pos = next.f_pos /\ onward.done = next.done
          /\ onward.begin_offset = next.begin_offset /\ onward.curr = After(local.curr)
      BY <1>2 DEF Locals
    <3> HIDE DEF onward
    <3>2. local.f_pos + (local.done + n) = pos + n
      BY <1>3 DEF pos
    <3> QED BY <1>2, <3>1, <3>2
  <2>8. AtByte(d, onward)
    <3> HIDE DEF onward, to
    <3> QED BY <2>4, <2>6, <2>7 DEF AtByte
  <2>9. After(local.curr) = NoPage => Len(d.list) * PAGE_SIZE <= to
    <3> HIDE DEF to
    <3>1. to \in Nat
      BY <1>3 DEF to
    <3> QED BY <1>3, <2>4, <2>6, <3>1, PastList
  <2> QED BY <2>8, <2>9
<1> QED BY <1>1, <1>5, <1>6 DEF next, pos

-----------------------------------------------------------------------------
(* A step of the one process keeps the data.                               *)

LEMMA DiskTyped == ASSUME TypeInv PROVE Disk \in Disks
BY DEF TypeInv, Globals, Disks, Disk

LEMMA UserMoves ==
  ASSUME TypeInv, NEW p \in Procs, Alone(p), NEW next,
         proc' = [proc EXCEPT ![p] = next], Distinct(mem_list'),
         data_size' = Len(file'), DataOf(Disk', next)
  PROVE  DataInv'
<1>1. proc'[p] = next /\ \A q \in Procs : q # p => proc'[q].pc = "closed"
  BY DEF Alone, TypeInv
<1>2. next.pc # "writing" => AllKept(Disk')
  BY DEF DataOf
<1> QED BY <1>1, <1>2 DEF DataInv

\* A read that has found these bytes and returns.
LEMMA ReadEnds ==
  ASSUME NEW d \in Disks, AllKept(d), NEW local \in Locals,
         NEW next \in Locals, next.pc = "open", next.data = local.data,
         next.f_pos = local.f_pos + local.done, next.count = local.count,
         next.fault = local.fault, Len(local.data) = local.done,
         \A j \in 1..local.done : d.file[local.f_pos + j] \in {Unknown, local.data[j]},
         local.fault \/ local.done = Reaches(d, local.count, local.f_pos)
  PROVE  DataOf(d, next)
<1>1. local.f_pos \in Nat /\ local.done \in Nat /\ local.data \in Seq(Bytes)
  BY Fields
<1>2. next.f_pos - Len(next.data) = local.f_pos /\ DOMAIN next.data = 1..local.done
  BY <1>1
<1>3. ReadWell(d, next)
  BY <1>1, <1>2 DEF ReadWell
<1> QED BY <1>3 DEF DataOf

LEMMA ReturnsData ==
  ASSUME NEW local \in Locals, NEW next,
         next = [Idle(local) EXCEPT !.f_pos = local.f_pos + local.done, !.data = local.data,
                                    !.count = local.count, !.fault = local.fault]
  PROVE  /\ next \in Locals /\ next.pc = "open" /\ next.data = local.data
         /\ next.f_pos = local.f_pos + local.done /\ next.count = local.count
         /\ next.fault = local.fault
<1> DEFINE pos == local.f_pos + local.done
<1>1. pos \in Nat /\ Idle(local) \in Locals /\ Idle(local).pc = "open"
  BY Fields, IdleSound DEF Sound
<1> HIDE DEF pos
<1>2. next = [Idle(local) EXCEPT !.f_pos = pos, !.data = local.data,
                                 !.count = local.count, !.fault = local.fault]
  BY DEF pos
<1>3. local.data \in Seq(Bytes) /\ local.count \in Nat /\ local.fault \in BOOLEAN
  BY DEF Locals
<1>4. /\ next \in Locals /\ next.pc = "open" /\ next.data = local.data
      /\ next.f_pos = pos /\ next.count = local.count /\ next.fault = local.fault
  BY <1>1, <1>2, <1>3 DEF Locals
<1> QED BY <1>4 DEF pos

LEMMA ReadKeepsData ==
  ASSUME TypeInv, FitInv, DataInv, NEW p \in Procs, Alone(p), NEW count \in Counts,
         Read(p, count)
  PROVE  DataInv'
<1> DEFINE limit == Reaches(Disk, count, proc[p].f_pos)
           local == [Idle(proc[p]) EXCEPT !.count = count, !.limit = limit]
           first == OnPage(local, mem_list, "reading")
           ret == [Idle(local) EXCEPT
                     !.f_pos = local.f_pos + local.done, !.data = local.data,
                     !.count = local.count, !.fault = local.fault]
<1>1. /\ proc[p].pc = "open" /\ proc[p] \in Locals /\ count \in Nat
      /\ data_size = Len(file) /\ Distinct(mem_list) /\ DataOf(Disk, proc[p])
      /\ Disk \in Disks /\ Disk.list = mem_list /\ Disk.file = file
  BY InputAssumption, DiskTyped DEF Read, TypeInv, DataInv, Disk
<1>2. limit = Min({count, Max({0, data_size - proc[p].f_pos})})
  BY <1>1 DEF Reaches
<1>3. /\ IF proc[p].f_pos > data_size \/ first.curr = NoPage
         THEN proc' = [proc EXCEPT ![p] = ret]
         ELSE proc' = [proc EXCEPT ![p] = first]
      /\ UNCHANGED <<mem_list, page, num_pages, data_size, nprocs, max_nprocs, file>>
  BY <1>2 DEF Read, ReadReturns
<1>4. limit \in Nat /\ proc[p].f_pos \in Nat
      /\ (Len(file) <= proc[p].f_pos => limit = 0)
  BY <1>1, ReachesBounds, Fields
<1>5. AllKept(Disk) /\ Disk' = Disk
  BY <1>1, <1>3 DEF DataOf, Disk
<1> HIDE DEF limit
<1>6. /\ local \in Locals /\ local.done = 0 /\ local.limit = limit /\ local.count = count
      /\ local.f_pos = proc[p].f_pos /\ local.data = <<>> /\ local.fault = FALSE
  <2>1. Idle(proc[p]).data = <<>> /\ Idle(proc[p]).fault = FALSE
    BY DEF Idle, Closed
  <2>2. Idle(proc[p]) \in Locals /\ Idle(proc[p]).f_pos = proc[p].f_pos
        /\ Idle(proc[p]).done = 0
    BY <1>1, IdleSound DEF Sound
  <2> QED BY <1>1, <1>4, <2>1, <2>2 DEF Locals
<1> HIDE DEF local
<1>7. CASE proc[p].f_pos > data_size \/ first.curr = NoPage
  <2>1. Len(file) <= proc[p].f_pos
    <3>1. CASE proc[p].f_pos > data_size
      BY <1>1, <1>4, <3>1
    <3>2. CASE first.curr = NoPage
      <4>1. PageAt(mem_list, proc[p].f_pos \div PAGE_SIZE) = NoPage
        BY <1>1, <1>6, <3>2, FirstPage
      <4>2. Len(mem_list) * PAGE_SIZE <= proc[p].f_pos
        BY <1>4, <4>1, PastList DEF TypeInv, Globals
      <4>3. data_size <= Len(mem_list) * PAGE_SIZE
        BY DEF FitInv, BufferSize
      <4>4. Len(mem_list) * PAGE_SIZE \in Nat /\ data_size \in Nat
        BY Product, SizeAssumption DEF TypeInv, Globals
      <4> QED BY <1>1, <1>4, <4>2, <4>3, <4>4
    <3> QED BY <1>7, <3>1, <3>2
  <2>2. proc' = [proc EXCEPT ![p] = ret]
    BY <1>3, <1>7
  <2>3. /\ ret \in Locals /\ ret.pc = "open" /\ ret.data = <<>>
        /\ ret.f_pos = proc[p].f_pos
    <3>1. /\ ret \in Locals /\ ret.pc = "open" /\ ret.data = local.data
          /\ ret.f_pos = local.f_pos + local.done
      BY <1>6, ReturnsData
    <3> HIDE DEF ret
    <3> QED BY <1>4, <1>6, <3>1
  <2> HIDE DEF ret
  <2>4. DataOf(Disk, ret)
    BY <1>1, <1>5, <2>1, <2>3, Blank
  <2> QED BY <1>1, <1>3, <1>5, <2>2, <2>4, UserMoves
<1>8. CASE ~(proc[p].f_pos > data_size \/ first.curr = NoPage)
  <2>1. proc' = [proc EXCEPT ![p] = first]
    BY <1>3, <1>8
  <2>2. /\ first \in Locals /\ first.pc = "reading" /\ first.f_pos = proc[p].f_pos
        /\ first.limit = limit /\ first.done = 0 /\ first.data = <<>>
    BY <1>6, OnPageFields DEF TypeInv, Globals
  <2>3. first.count = count /\ AtByte(Disk, first)
    BY <1>1, <1>6, FirstPage
  <2> HIDE DEF first
  <2>4. ReadingWell(Disk, first)
    BY <2>2, <2>3 DEF ReadingWell, limit
  <2>5. DataOf(Disk, first)
    BY <1>5, <2>2, <2>3, <2>4 DEF DataOf
  <2> QED BY <1>1, <1>3, <1>5, <2>1, <2>5, UserMoves
<1> QED BY <1>7, <1>8

\* One byte that a read finds.
LEMMA ByteRead ==
  ASSUME NEW d \in Disks, AllKept(d), NEW local \in Locals, NEW pos \in Nat,
         local.curr \in Frames, local.curr = PageAt(d.list, pos \div PAGE_SIZE),
         local.begin_offset = pos % PAGE_SIZE, NEW n \in Nat, WithinPage(pos, n),
         NEW k \in Nat, k < n, pos + k < Len(d.file)
  PROVE  LET byte == d.page[local.curr][local.begin_offset + k]
         IN  byte \in Bytes /\ d.file[pos + k + 1] \in {Unknown, byte}
<1> DEFINE at == pos % PAGE_SIZE
           to == pos + k
           byte == d.page[local.curr][local.begin_offset + k]
<1>1. at \in 0..PAGE_SIZE - 1 /\ at + n <= PAGE_SIZE /\ to \in Nat /\ local.begin_offset = at
      /\ d.page \in Content /\ d.file \in Seq(FileBytes)
  BY PlaceOfByte, SizeAssumption DEF WithinPage, Disks
<1>2. at + k < PAGE_SIZE
  <2> HIDE DEF at
  <2> QED BY <1>1, SizeAssumption
<1>3. to \div PAGE_SIZE = pos \div PAGE_SIZE /\ to % PAGE_SIZE = at + k
  BY <1>2, SamePage
<1>4. at + k \in 0..PAGE_SIZE - 1
  <2> HIDE DEF at
  <2> QED BY <1>1, <1>2, SizeAssumption
<1> HIDE DEF at, to
<1>5. byte = ByteAt(d, to)
  BY <1>1, <1>3 DEF ByteAt
<1>6. byte \in Bytes
  BY <1>1, <1>4 DEF Content
<1> HIDE DEF byte
<1>7. to + 1 \in DOMAIN d.file /\ (to + 1) - 1 = to
  BY <1>1 DEF to
<1>8. Kept(d, to + 1)
  BY <1>7 DEF AllKept
<1>9. d.file[to + 1] \in {Unknown, byte}
  BY <1>5, <1>7, <1>8 DEF Kept
<1> QED BY <1>6, <1>9 DEF to, byte

\* What a read has found when it has copied from one more page.
LEMMA BytesRead ==
  ASSUME NEW d \in Disks, AllKept(d), NEW local \in Locals, NEW n \in 0..PAGE_SIZE,
         ReadingWell(d, local), local.f_pos + local.done + n <= Len(d.file),
         local.curr \in Frames, local.fault => n = 0,
         ~local.fault => AtByte(d, local) /\ WithinPage(local.f_pos + local.done, n)
  PROVE  LET bytes == [i \in 1..n |-> d.page[local.curr][local.begin_offset + i - 1]]
             data == local.data \o bytes
         IN  /\ data \in Seq(Bytes) /\ Len(data) = local.done + n
             /\ \A j \in 1..local.done + n :
                  d.file[local.f_pos + j] \in {Unknown, data[j]}
<1> DEFINE pos == local.f_pos + local.done
           byte(i) == d.page[local.curr][local.begin_offset + i - 1]
           bytes == [i \in 1..n |-> byte(i)]
           data == local.data \o bytes
<1>1. /\ local.f_pos \in Nat /\ local.done \in Nat /\ pos \in Nat /\ n \in Nat
      /\ local.begin_offset \in Nat /\ local.data \in Seq(Bytes)
      /\ Len(local.data) = local.done /\ d.file \in Seq(FileBytes)
  BY Fields, SizeAssumption DEF ReadingWell, Disks
<1> HIDE DEF pos, byte
<1>2. ASSUME NEW i \in 1..n
      PROVE  byte(i) \in Bytes /\ d.file[pos + i] \in {Unknown, byte(i)}
  <2>1. PICK k \in Nat : k = i - 1 /\ i = k + 1 /\ k < n
    BY <1>1
  <2>2. /\ pos + i = pos + k + 1 /\ local.begin_offset + i - 1 = local.begin_offset + k
        /\ pos + k < Len(d.file)
    BY <1>1, <2>1 DEF pos
  <2>3. ~local.fault
    BY <1>1, <2>1
  <2>4. /\ local.curr = PageAt(d.list, pos \div PAGE_SIZE)
        /\ local.begin_offset = pos % PAGE_SIZE /\ WithinPage(pos, n)
    BY <2>3 DEF AtByte, pos
  <2>5. LET b == d.page[local.curr][local.begin_offset + k]
        IN  b \in Bytes /\ d.file[pos + k + 1] \in {Unknown, b}
    BY <1>1, <2>1, <2>2, <2>4, ByteRead
  <2> QED BY <2>2, <2>5 DEF byte
<1>3. bytes \in Seq(Bytes) /\ Len(bytes) = n /\ \A i \in 1..n : bytes[i] = byte(i)
  BY <1>1, <1>2
<1> HIDE DEF bytes
<1>4. /\ data \in Seq(Bytes) /\ Len(data) = local.done + n
      /\ \A j \in 1..local.done + n : data[j] = IF j <= local.done THEN local.data[j]
                                                ELSE bytes[j - local.done]
  <2>1. /\ data \in Seq(Bytes) /\ Len(data) = Len(local.data) + Len(bytes)
        /\ \A j \in 1..Len(local.data) + Len(bytes) :
             data[j] = IF j <= Len(local.data) THEN local.data[j]
                       ELSE bytes[j - Len(local.data)]
    <3>1. local.data \in Seq(Bytes) /\ bytes \in Seq(Bytes)
      BY <1>1, <1>3, Zenon
    <3> QED BY <3>1, ConcatProperties, Zenon
  <2> HIDE DEF data
  <2> QED BY <1>1, <1>3, <2>1
<1> HIDE DEF data
<1>5. ASSUME NEW j \in 1..local.done + n
      PROVE  d.file[local.f_pos + j] \in {Unknown, data[j]}
  <2>1. CASE j <= local.done
    BY <1>1, <1>4, <1>5, <2>1, SMTT(30) DEF ReadingWell
  <2>2. CASE ~(j <= local.done)
    <3> DEFINE i == j - local.done
    <3>1. j \in Nat /\ j <= local.done + n
      BY <1>1, <1>5
    <3>2. i \in 1..n
      BY <1>1, <2>2, <3>1
    <3>3. pos + i = local.f_pos + j
      BY <1>1, <3>1, SMTT(30) DEF pos
    <3>4. d.file[pos + i] \in {Unknown, byte(i)} /\ data[j] = byte(i)
      BY <1>2, <1>3, <1>4, <2>2, <3>2
    <3> QED BY <3>3, <3>4
  <2> QED BY <2>1, <2>2
<1> QED BY <1>4, <1>5 DEF data, bytes, byte

LEMMA ReadCopyKeepsData ==
  ASSUME TypeInv, FitInv, DataInv, NEW p \in Procs, Alone(p), NEW n \in 0..PAGE_SIZE,
         ReadCopy(p, n)
  PROVE  DataInv'
<1> DEFINE local == proc[p]
           bytes == [i \in 1..n |-> page[local.curr][local.begin_offset + i - 1]]
           data == local.data \o bytes
           copied == Copied(local, n)
           next == [copied EXCEPT !.data = data]
           onward == [next EXCEPT !.curr = After(local.curr)]
           ret == [Idle(next) EXCEPT
                     !.f_pos = next.f_pos + next.done, !.data = next.data,
                     !.count = next.count, !.fault = next.fault]
           pos == local.f_pos + local.done
<1>1. /\ local.pc = "reading" /\ CanCopy(local, n)
      /\ IF next.done = next.limit \/ After(local.curr) = NoPage
         THEN proc' = [proc EXCEPT ![p] = ret]
         ELSE proc' = [proc EXCEPT ![p] = onward]
      /\ UNCHANGED <<mem_list, page, num_pages, data_size, nprocs, max_nprocs, file>>
  BY DEF ReadCopy, ReadReturns
<1>2. /\ local \in Locals /\ Sound(local) /\ n \in Nat /\ data_size = Len(file)
      /\ Distinct(mem_list) /\ DataOf(Disk, local) /\ Disk \in Disks
      /\ Disk.list = mem_list /\ Disk.file = file /\ Disk.page = page /\ Disk' = Disk
      /\ Fits(local, mem_list, num_pages, data_size) /\ num_pages = Len(mem_list)
      /\ data_size <= Len(mem_list) * PAGE_SIZE /\ mem_list \in Seq(Frames)
  BY <1>1, DiskTyped, SizeAssumption
  DEF TypeInv, Globals, DataInv, FitInv, BufferSize, Disk
<1> HIDE DEF local
<1>3. /\ local.curr \in Frames /\ local.done <= local.limit
      /\ local.f_pos + local.limit <= Len(file)
  BY <1>1, <1>2 DEF Sound, Fits
<1>4. AllKept(Disk) /\ ReadingWell(Disk, local) /\ (local.fault \/ AtByte(Disk, local))
  BY <1>1, <1>2 DEF DataOf
<1>5. /\ copied \in Locals /\ copied.pc = "reading" /\ copied.f_pos = local.f_pos
      /\ copied.limit = local.limit /\ copied.done = local.done + n
      /\ copied.done <= copied.limit
  BY <1>1, <1>2, <1>3, CopiedFields
<1>6. copied.count = local.count
  BY <1>1, <1>2, <1>3, CopiedFault
<1>7. /\ local.fault => n = 0
      /\ ~local.fault => WithinPage(pos, n)
      /\ copied.done # copied.limit =>
           /\ copied.fault \/ AtByte(Disk, [copied EXCEPT !.curr = After(local.curr)])
           /\ After(local.curr) = NoPage =>
                copied.fault \/ Len(mem_list) * PAGE_SIZE <= pos + n
  BY <1>1, <1>2, <1>3, <1>4, GoesOn
<1>8. {local.f_pos, local.done, local.limit, n, pos} \subseteq Nat /\ Len(file) \in Nat
      /\ Len(mem_list) * PAGE_SIZE \in Nat
  BY <1>2, Fields, Product, SizeAssumption DEF TypeInv, Globals
<1> HIDE DEF copied
<1>9. /\ data \in Seq(Bytes) /\ Len(data) = local.done + n
      /\ \A j \in 1..local.done + n : file[local.f_pos + j] \in {Unknown, data[j]}
  <2>1. local.f_pos + local.done + n <= Len(Disk.file)
    BY <1>2, <1>3, <1>5, <1>8
  <2>2. ~local.fault => AtByte(Disk, local) /\ WithinPage(local.f_pos + local.done, n)
    BY <1>4, <1>7
  <2>3. data = local.data \o [i \in 1..n |-> Disk.page[local.curr][local.begin_offset + i - 1]]
    BY <1>2
  <2> HIDE DEF bytes, data, pos
  <2>4. /\ data \in Seq(Bytes) /\ Len(data) = local.done + n
        /\ \A j \in 1..local.done + n : Disk.file[local.f_pos + j] \in {Unknown, data[j]}
    BY <1>2, <1>3, <1>4, <1>7, <2>1, <2>2, <2>3, BytesRead
  <2> QED BY <1>2, <2>4
<1> HIDE DEF data
<1>10. /\ next \in Locals /\ next.pc = "reading" /\ next.f_pos = local.f_pos
       /\ next.limit = local.limit /\ next.done = local.done + n /\ next.data = data
       /\ next.count = local.count /\ next.fault = copied.fault
       /\ next.begin_offset = copied.begin_offset
  BY <1>5, <1>6, <1>9 DEF Locals
<1> HIDE DEF next
<1>11. CASE next.done = next.limit \/ After(local.curr) = NoPage
  <2>1. proc' = [proc EXCEPT ![p] = ret]
    BY <1>1, <1>11
  <2>2. /\ ret \in Locals /\ ret.pc = "open" /\ ret.data = next.data
        /\ ret.f_pos = next.f_pos + next.done /\ ret.count = next.count
        /\ ret.fault = next.fault
    BY <1>10, ReturnsData
  <2> HIDE DEF ret
  <2>3. next.fault \/ next.done = next.limit
    <3> SUFFICES ASSUME next.done # next.limit, ~next.fault PROVE FALSE
      OBVIOUS
    <3>1. Len(mem_list) * PAGE_SIZE <= pos + n
      BY <1>5, <1>7, <1>10, <1>11
    <3>2. local.done + n < local.limit
      BY <1>5, <1>8, <1>10
    <3> QED BY <1>2, <1>3, <1>8, <3>1, <3>2, SMTT(30)
  <2>4. local.limit = Reaches(Disk, local.count, local.f_pos)
    BY <1>4 DEF ReadingWell
  <2>5. DataOf(Disk, ret)
    BY <1>2, <1>4, <1>9, <1>10, <2>2, <2>3, <2>4, ReadEnds, SMTT(30)
  <2> QED BY <1>1, <1>2, <2>1, <2>5, UserMoves
<1>12. CASE ~(next.done = next.limit \/ After(local.curr) = NoPage)
  <2>1. proc' = [proc EXCEPT ![p] = onward]
    BY <1>1, <1>12
  <2>2. /\ onward.pc = "reading" /\ onward.f_pos = local.f_pos
        /\ onward.limit = local.limit /\ onward.done = local.done + n
        /\ onward.data = data /\ onward.count = local.count
        /\ onward.fault = copied.fault /\ onward.curr = After(local.curr)
        /\ onward.begin_offset = copied.begin_offset
    BY <1>10 DEF Locals
  <2> HIDE DEF onward
  <2>3. onward.fault \/ AtByte(Disk, onward)
    <3> DEFINE moved == [copied EXCEPT !.curr = After(local.curr)]
    <3>1. copied.fault \/ AtByte(Disk, moved)
      BY <1>5, <1>7, <1>10, <1>12
    <3>2. /\ moved.f_pos = local.f_pos /\ moved.done = local.done + n
          /\ moved.curr = After(local.curr) /\ moved.begin_offset = copied.begin_offset
      BY <1>5 DEF Locals
    <3> HIDE DEF moved
    <3> QED BY <2>2, <3>1, <3>2 DEF AtByte
  <2>4. ReadingWell(Disk, onward)
    BY <1>2, <1>4, <1>9, <2>2 DEF ReadingWell
  <2>5. DataOf(Disk, onward)
    BY <1>4, <2>2, <2>3, <2>4 DEF DataOf
  <2> QED BY <1>1, <1>2, <2>1, <2>5, UserMoves
<1> QED BY <1>11, <1>12

\* What a write does to its page: it stores what it can copy, and clears the rest of the
\* range; what that makes of the bytes of the disk.
PageStored(d, e, local, n) ==
  e.page = [d.page EXCEPT ![local.curr] = [i \in 0..PAGE_SIZE - 1 |->
              IF i \in local.begin_offset..local.begin_offset + n - 1
              THEN local.data[local.done + i - local.begin_offset + 1]
              ELSE IF i \in local.begin_offset + n..local.begin_offset + InPage(local) - 1
              THEN Zero ELSE @[i]]]
BytesStored(d, e, size, local, at, n) ==
  /\ \A i \in Nat : i < n => ByteAt(e, at + i) = local.data[local.done + i + 1]
  /\ \A i \in Nat : n <= i /\ i < InPage(local) => ByteAt(e, at + i) = Zero
  /\ \A pos \in Nat : pos < size /\ pos \notin at..at + InPage(local) - 1
                        => ByteAt(e, pos) = ByteAt(d, pos)

\* The first byte of the next page.
NextStart(at) == ((at \div PAGE_SIZE) + 1) * PAGE_SIZE

\* How much of a page a write is to copy, and what it means that it copies less.
LEMMA CutShort ==
  ASSUME NEW local \in Locals, local.done <= local.limit, NEW n \in 0..PAGE_SIZE,
         CanCopy(local, n)
  PROVE  LET next == Copied(local, n)
             m == InPage(local)
             x == PAGE_SIZE - local.begin_offset
             y == local.limit - local.done
         IN  /\ m \in Nat /\ n <= m /\ m <= x /\ m <= y /\ (m = x \/ m = y)
             /\ next.fault <=> n < m
             /\ local.fault => n = 0
<1> DEFINE next == Copied(local, n)
           x == PAGE_SIZE - local.begin_offset
           y == local.limit - local.done
           short == n < InPage(local)
           to == local.done + n
<1>1. x \in Int /\ x > 0 /\ y \in Int /\ y >= 0 /\ to \in Nat /\ n \in Nat
  BY SizeAssumption, Fields
<1>2. InPage(local) = Min({x, y})
  BY DEF InPage
<1>3. next = [local EXCEPT !.done = to, !.fault = short, !.begin_offset = 0]
  BY Zenon DEF Copied
<1> HIDE DEF x, y, to, next
<1>4. InPage(local) \in {x, y} /\ InPage(local) <= x /\ InPage(local) <= y
  BY <1>1, <1>2, TwoNumbers
<1>5. short \in BOOLEAN /\ InPage(local) \in Nat
  BY <1>1, <1>4
<1>6. next.fault = short
  <2> HIDE DEF short
  <2> QED BY <1>3, <1>5 DEF Locals
<1>7. (local.fault => n = 0) /\ n <= InPage(local)
  BY <1>1, <1>4, <1>5 DEF CanCopy
<1> QED BY <1>4, <1>5, <1>6, <1>7 DEF next, x, y

\* The place of a write in its page: numbers.
LEMMA WalkPlace ==
  ASSUME NEW at \in Nat
  PROVE  \E q \in Nat, base \in Nat, r \in 0..PAGE_SIZE - 1 :
           /\ q = at \div PAGE_SIZE /\ r = at % PAGE_SIZE /\ base = q * PAGE_SIZE
           /\ at = base + r /\ NextStart(at) = base + PAGE_SIZE
           /\ \A pos \in Nat : base <= pos /\ pos < base + PAGE_SIZE =>
                pos \div PAGE_SIZE = q /\ pos % PAGE_SIZE = pos - base
           /\ \A pos \in Nat : pos < base => pos \div PAGE_SIZE < q
<1> DEFINE q == at \div PAGE_SIZE
           r == at % PAGE_SIZE
           base == q * PAGE_SIZE
<1>1. q \in Nat /\ r \in 0..PAGE_SIZE - 1 /\ at = base + r
  BY SizeAssumption, DivMod, PlaceOfByte
<1>2. NextStart(at) = (q + 1) * PAGE_SIZE
  BY DEF NextStart
<1> HIDE DEF q, r
<1>3. base \in Nat /\ (q + 1) * PAGE_SIZE = base + PAGE_SIZE
  BY <1>1, SizeAssumption
<1>4. ASSUME NEW pos \in Nat, base <= pos, pos < base + PAGE_SIZE
      PROVE  pos \div PAGE_SIZE = q /\ pos % PAGE_SIZE = pos - base
  <2> DEFINE k == pos - base
  <2>1. k \in 0..PAGE_SIZE - 1 /\ pos = base + k
    BY <1>3, <1>4, SizeAssumption
  <2> HIDE DEF k
  <2>2. (q * PAGE_SIZE + k) \div PAGE_SIZE = q /\ (q * PAGE_SIZE + k) % PAGE_SIZE = k
    BY <1>1, <2>1, DivOf, SizeAssumption
  <2> QED BY <2>1, <2>2 DEF k
<1>5. ASSUME NEW pos \in Nat, pos < base
      PROVE  pos \div PAGE_SIZE < q
  <2> DEFINE b == pos \div PAGE_SIZE
             k == pos % PAGE_SIZE
  <2>1. b \in Nat /\ k \in 0..PAGE_SIZE - 1 /\ pos = b * PAGE_SIZE + k
    BY SizeAssumption, DivMod, PlaceOfByte
  <2> HIDE DEF b, k
  <2>2. b < q
    BY <1>1, <1>5, <2>1, Below, SizeAssumption
  <2> QED BY <2>2 DEF b
<1> HIDE DEF base
<1>6. /\ q = at \div PAGE_SIZE /\ r = at % PAGE_SIZE /\ base = q * PAGE_SIZE
      /\ at = base + r /\ NextStart(at) = base + PAGE_SIZE
  BY <1>1, <1>2, <1>3 DEF q, r, base
<1> QED BY <1>1, <1>3, <1>4, <1>5, <1>6

\* A write that has copied from one more page and not all it is to, is at the start of the
\* next; when there is none, that is past all the disk has.
LEMMA WalkGoesOn ==
  ASSUME NEW d \in Disks, d.list = mem_list, Distinct(mem_list), NEW local \in Locals,
         local.done <= local.limit, NEW n \in 0..PAGE_SIZE, CanCopy(local, n),
         local.curr \in Frames, NEW at \in Nat, WalkAt(d, local, at)
  PROVE  LET next == Copied(local, n)
             to == NextStart(at)
         IN  /\ to \in Nat
             /\ next.done # next.limit => WalkAt(d, [next EXCEPT !.curr = After(local.curr)], to)
             /\ After(local.curr) = NoPage => Len(d.list) * PAGE_SIZE <= to
<1> DEFINE next == Copied(local, n)
           onward == [next EXCEPT !.curr = After(local.curr)]
           to == NextStart(at)
           m == InPage(local)
<1>1. /\ m \in Nat /\ n <= m /\ m <= PAGE_SIZE - local.begin_offset
      /\ m <= local.limit - local.done
      /\ m = PAGE_SIZE - local.begin_offset \/ m = local.limit - local.done
      /\ next.fault <=> n < m
      /\ local.fault => n = 0
  BY CutShort
<1>2. /\ next \in Locals /\ next.f_pos = local.f_pos /\ next.limit = local.limit
      /\ next.done = local.done + n /\ next.begin_offset = 0 /\ next.done <= next.limit
  BY CopiedFields
<1>3. /\ {local.f_pos, local.done, local.limit, n} \subseteq Nat
      /\ local.begin_offset \in Nat /\ d.list \in Seq(Frames)
  BY Fields, SizeAssumption DEF Disks
<1>4. PICK q \in Nat, base \in Nat, r \in 0..PAGE_SIZE - 1 :
           /\ q = at \div PAGE_SIZE /\ r = at % PAGE_SIZE /\ base = q * PAGE_SIZE
           /\ at = base + r /\ to = base + PAGE_SIZE
  BY WalkPlace
<1>5. /\ local.curr = PageAt(d.list, q) /\ local.begin_offset = r
      /\ ~local.fault => at = local.f_pos + local.done
      /\ local.fault => r = 0 /\ local.f_pos + local.done < at
  BY <1>4 DEF WalkAt
<1>6. to = (q + 1) * PAGE_SIZE /\ q + 1 \in Nat /\ to \in Nat
  BY <1>4, SizeAssumption DEF NextStart
<1> HIDE DEF next, m, to
<1>7. to \div PAGE_SIZE = q + 1 /\ to % PAGE_SIZE = 0
  <2>1. to = (q + 1) * PAGE_SIZE + 0 /\ 0 \in 0..PAGE_SIZE - 1
    BY <1>6, SizeAssumption
  <2>2. ((q + 1) * PAGE_SIZE + 0) \div PAGE_SIZE = q + 1
        /\ ((q + 1) * PAGE_SIZE + 0) % PAGE_SIZE = 0
    BY <1>6, <2>1, DivOf, SizeAssumption
  <2> QED BY <2>1, <2>2
<1>8. After(local.curr) = PageAt(d.list, q + 1)
  <2>1. q < Len(d.list)
    BY <1>3, <1>5, FrameAssumption DEF PageAt
  <2> QED BY <1>3, <1>5, <2>1, AfterIsNext
<1>9. After(local.curr) = NoPage => Len(d.list) * PAGE_SIZE <= to
  BY <1>3, <1>6, <1>7, <1>8, PastList
<1>10. ASSUME next.done # next.limit PROVE WalkAt(d, onward, to)
  <2>1. /\ onward.f_pos = next.f_pos /\ onward.done = next.done
        /\ onward.limit = next.limit /\ onward.fault = next.fault
        /\ onward.begin_offset = next.begin_offset /\ onward.curr = After(local.curr)
    BY <1>2 DEF Locals
  <2> HIDE DEF onward
  <2>2. next.done < next.limit /\ {next.done, next.limit, next.f_pos} \subseteq Nat
    BY <1>2, <1>3, <1>10
  <2>3. ~next.fault => to = next.f_pos + next.done
    <3> SUFFICES ASSUME ~next.fault PROVE to = next.f_pos + next.done
      OBVIOUS
    <3>1. ~(n < m)
      BY <1>1
    <3>2. n = m /\ m = PAGE_SIZE - r
      BY <1>1, <1>2, <1>3, <1>5, <1>10, <3>1
    <3>3. n # 0
      BY <1>3, <1>4, <3>2, SizeAssumption
    <3>4. at = local.f_pos + local.done
      BY <1>1, <1>5, <3>3
    <3>5. at + n = base + PAGE_SIZE /\ PAGE_SIZE \in Nat
      BY <1>3, <1>4, <3>2, SizeAssumption
    <3>6. (local.f_pos + local.done) + n = local.f_pos + (local.done + n)
      BY <1>3
    <3> QED BY <1>2, <1>4, <3>4, <3>5, <3>6
  <2>4. next.fault => next.f_pos + next.done < to
    <3> SUFFICES ASSUME next.fault PROVE next.f_pos + next.done < to
      OBVIOUS
    <3>1. n < PAGE_SIZE - r
      BY <1>1, <1>3, <1>5, SizeAssumption
    <3>2. local.f_pos + local.done <= at
      BY <1>3, <1>5
    <3>3. at + n < to
      BY <1>3, <1>4, <3>1, SizeAssumption, SMTT(30)
    <3> QED BY <1>2, <1>3, <1>6, <3>2, <3>3
  <2> QED BY <1>2, <1>7, <1>8, <2>1, <2>2, <2>3, <2>4 DEF WalkAt
<1> QED BY <1>6, <1>9, <1>10 DEF next, to

\* Which bytes a write clears when it is cut short, or when it goes on after it was: those
\* it has left of the page.
LEMMA ClearsHere ==
  ASSUME NEW d, NEW local \in Locals, local.done <= local.limit, NEW n \in 0..PAGE_SIZE,
         CanCopy(local, n), NEW at \in Nat, WalkAt(d, local, at),
         NEW pos \in Nat, pos < NextStart(at)
  PROVE  Cleared(Copied(local, n), pos) <=>
           IF pos < at THEN Cleared(local, pos) ELSE pos \in at + n..at + InPage(local) - 1
<1> DEFINE next == Copied(local, n)
           m == InPage(local)
           stop == local.f_pos + local.done
           nstop == next.f_pos + next.done
           into(from) == IF pos \div PAGE_SIZE = from \div PAGE_SIZE THEN pos - from
                         ELSE pos % PAGE_SIZE
<1>1. /\ m \in Nat /\ n <= m /\ m <= PAGE_SIZE - local.begin_offset
      /\ m <= local.limit - local.done
      /\ m = PAGE_SIZE - local.begin_offset \/ m = local.limit - local.done
      /\ next.fault <=> n < m
      /\ local.fault => n = 0
  BY CutShort
<1>2. /\ next.f_pos = local.f_pos /\ next.limit = local.limit
      /\ next.done = local.done + n
  BY CopiedFields
<1>3. {local.f_pos, local.done, local.limit, n, stop} \subseteq Nat
  BY Fields, SizeAssumption
<1>4. PICK q \in Nat, base \in Nat, r \in 0..PAGE_SIZE - 1 :
           /\ q = at \div PAGE_SIZE /\ r = at % PAGE_SIZE /\ base = q * PAGE_SIZE
           /\ at = base + r /\ NextStart(at) = base + PAGE_SIZE
           /\ \A x \in Nat : base <= x /\ x < base + PAGE_SIZE =>
                x \div PAGE_SIZE = q /\ x % PAGE_SIZE = x - base
           /\ \A x \in Nat : x < base => x \div PAGE_SIZE < q
  BY WalkPlace
<1>5. /\ local.begin_offset = r
      /\ ~local.fault => at = stop
      /\ local.fault => r = 0 /\ stop < at /\ local.done < local.limit
  BY <1>4 DEF WalkAt
<1>6. /\ Cleared(next, pos) <=>
           next.fault /\ pos >= nstop /\ into(nstop) < next.limit - next.done
      /\ Cleared(local, pos) <=>
           local.fault /\ pos >= stop /\ into(stop) < local.limit - local.done
  BY DEF Cleared
<1>7. nstop = stop + n
  BY <1>2, <1>3
<1> HIDE DEF next, m, stop, nstop
<1>8. PAGE_SIZE \in Nat /\ r \in Nat /\ r < PAGE_SIZE
  BY SizeAssumption
<1>9. CASE local.fault
  <2>0. n = 0 /\ r = 0 /\ stop < at /\ local.done < local.limit
    BY <1>1, <1>5, <1>9
  <2>1. /\ n = 0 /\ nstop = stop /\ next.done = local.done /\ at = base /\ m > 0
        /\ stop < at /\ n < m
    BY <1>1, <1>2, <1>3, <1>4, <1>5, <1>7, <1>8, <2>0
  <2>2. Cleared(next, pos) <=> Cleared(local, pos)
    <3>1. next.fault
      BY <1>1, <2>1
    <3>2. next.limit - next.done = local.limit - local.done /\ into(nstop) = into(stop)
      BY <1>2, <2>1
    <3> HIDE DEF into
    <3> QED BY <1>6, <1>9, <2>1, <3>1, <3>2
  <2>3. CASE pos < at
    BY <2>2, <2>3 DEF next
  <2>4. CASE ~(pos < at)
    <3>1. pos \div PAGE_SIZE = q /\ pos % PAGE_SIZE = pos - base
      BY <1>4, <2>1, <2>4
    <3>2. stop \div PAGE_SIZE < q /\ stop \div PAGE_SIZE \in Nat
      BY <1>3, <1>4, <2>1, PlaceOfByte, SizeAssumption
    <3>3. into(stop) = pos - at
      BY <2>1, <3>1, <3>2
    <3>4. pos - at < PAGE_SIZE
      BY <1>4, <1>8, <2>1
    <3> HIDE DEF into
    <3>5. pos - at < local.limit - local.done <=> pos - at < m
      BY <1>1, <1>3, <1>5, <1>8, <1>9, <2>1, <3>4
    <3>6. Cleared(local, pos) <=> pos - at < m
      BY <1>3, <1>6, <1>9, <2>1, <2>4, <3>3, <3>5
    <3>7. pos - at < m <=> pos \in at + n..at + m - 1
      BY <1>1, <2>1, <2>4
    <3> QED BY <2>2, <2>4, <3>6, <3>7 DEF m, next
  <2> QED BY <2>3, <2>4
<1>10. CASE ~local.fault
  <2>1. at = stop /\ nstop = at + n
    BY <1>5, <1>7, <1>10
  <2>2. CASE pos < at
    <3>1. pos < nstop
      BY <1>3, <2>1, <2>2
    <3>2. ~Cleared(next, pos) /\ ~Cleared(local, pos)
      BY <1>3, <1>6, <1>10, <2>1, <3>1
    <3> QED BY <2>2, <3>2 DEF next
  <2>3. CASE ~(pos < at)
    <3>1. CASE ~(n < m)
      <4>1. pos \notin at + n..at + m - 1
        BY <1>1, <1>3, <3>1
      <4>2. ~Cleared(next, pos)
        <5>1. ~next.fault
          BY <1>1, <3>1
        <5> QED BY <1>6, <5>1
      <4>3. Cleared(next, pos) <=> pos \in at + n..at + m - 1
        BY <4>1, <4>2
      <4> QED BY <2>3, <4>3 DEF next, m
    <3>2. CASE n < m
      <4>0. n \in Nat /\ m \in Nat /\ m <= PAGE_SIZE - r
        BY <1>1, <1>3, <1>5
      <4>1. at + n < base + PAGE_SIZE /\ base <= at + n /\ at + n \in Nat
        BY <1>4, <1>8, <3>2, <4>0
      <4>2. pos \div PAGE_SIZE = q /\ nstop \div PAGE_SIZE = q
        <5>1. base <= pos /\ pos < base + PAGE_SIZE
          BY <1>4, <1>8, <2>3
        <5>2. pos \div PAGE_SIZE = q /\ (at + n) \div PAGE_SIZE = q
          BY <1>4, <4>1, <5>1
        <5> QED BY <2>1, <5>2
      <4>3. into(nstop) = pos - nstop
        BY <4>2
      <4> HIDE DEF into
      <4>4. pos - at < PAGE_SIZE - r
        BY <1>4, <1>8
      <4>5. pos - nstop < next.limit - next.done <=> pos - at < local.limit - local.done
        BY <1>2, <1>3, <2>1
      <4>6. pos - at < local.limit - local.done <=> pos - at < m
        BY <1>1, <1>3, <1>5, <1>8, <4>4
      <4>7. Cleared(next, pos) <=> pos >= at + n /\ pos - at < m
        BY <1>1, <1>6, <2>1, <3>2, <4>3, <4>5, <4>6
      <4>8. pos >= at + n /\ pos - at < m <=> pos \in at + n..at + m - 1
        BY <1>1, <1>3
      <4> QED BY <2>3, <4>7, <4>8 DEF next, m
    <3> QED BY <3>1, <3>2
  <2> QED BY <2>2, <2>3
<1> QED BY <1>9, <1>10

\* The bytes of the disk once a write has copied to one more page.
LEMMA BytesCopied ==
  ASSUME NEW d \in Disks, NEW e \in Disks, e.list = d.list, Distinct(d.list),
         NEW local \in Locals, local.done <= local.limit, NEW n \in 0..PAGE_SIZE,
         CanCopy(local, n), local.curr \in Frames, NEW at \in Nat, WalkAt(d, local, at),
         PageStored(d, e, local, n)
  PROVE  BytesStored(d, e, Len(d.list) * PAGE_SIZE, local, at, n)
<1> DEFINE m == InPage(local)
           byte(i) == IF i \in local.begin_offset..local.begin_offset + n - 1
                      THEN local.data[local.done + i - local.begin_offset + 1]
                      ELSE IF i \in local.begin_offset + n..local.begin_offset + m - 1
                      THEN Zero ELSE d.page[local.curr][i]
           new == [i \in 0..PAGE_SIZE - 1 |-> byte(i)]
<1>1. /\ n \in Nat /\ local.done \in Nat /\ local.begin_offset \in Nat
      /\ d.page \in Content
  BY Fields, SizeAssumption DEF Disks
<1>2. /\ \A g \in Frames : g # local.curr => e.page[g] = d.page[g]
      /\ e.page[local.curr] = new
  BY <1>1 DEF PageStored, Content
<1>3. m \in Nat /\ n <= m /\ m <= PAGE_SIZE - local.begin_offset
  BY CutShort
<1>4. /\ local.curr = PageAt(d.list, at \div PAGE_SIZE)
      /\ local.begin_offset = at % PAGE_SIZE
  BY DEF WalkAt
<1> HIDE DEF m
<1>5. local.begin_offset + m <= PAGE_SIZE /\ WithinPage(at, m)
  BY <1>1, <1>3, <1>4, SizeAssumption DEF WithinPage
<1>6. ASSUME NEW i \in Nat, i < m
      PROVE  /\ ByteAt(e, at + i) = new[local.begin_offset + i]
             /\ local.begin_offset + i \in 0..PAGE_SIZE - 1
  <2>1. ByteAt(e, at + i) =
          e.page[PageAt(e.list, at \div PAGE_SIZE)][(at % PAGE_SIZE) + i]
    BY <1>3, <1>5, <1>6, BytesWritten
  <2>2. local.begin_offset + i \in 0..PAGE_SIZE - 1
    BY <1>1, <1>3, <1>5, <1>6, SizeAssumption
  <2> HIDE DEF new
  <2> QED BY <1>2, <1>4, <2>1, <2>2
<1>7. ASSUME NEW i \in Nat, i < n
      PROVE  ByteAt(e, at + i) = local.data[local.done + i + 1]
  <2> DEFINE b == local.begin_offset + i
  <2>1. b \in local.begin_offset..local.begin_offset + n - 1 /\ i < m
        /\ local.done + b - local.begin_offset + 1 = local.done + i + 1
    BY <1>1, <1>3, <1>7
  <2>2. ByteAt(e, at + i) = new[b] /\ b \in 0..PAGE_SIZE - 1
    BY <1>6, <2>1
  <2> HIDE DEF b
  <2>3. new[b] = local.data[local.done + b - local.begin_offset + 1]
    BY <2>1, <2>2
  <2> HIDE DEF new
  <2> QED BY <2>1, <2>2, <2>3
<1>8. ASSUME NEW i \in Nat, n <= i, i < m
      PROVE  ByteAt(e, at + i) = Zero
  <2> DEFINE b == local.begin_offset + i
  <2>1. b \in local.begin_offset + n..local.begin_offset + m - 1
        /\ b \notin local.begin_offset..local.begin_offset + n - 1
    BY <1>1, <1>3, <1>8
  <2>2. ByteAt(e, at + i) = new[b] /\ b \in 0..PAGE_SIZE - 1
    BY <1>6, <1>8
  <2> HIDE DEF b
  <2>3. new[b] = Zero
    BY <2>1, <2>2
  <2> HIDE DEF new
  <2> QED BY <2>2, <2>3
<1>9. LeftAlone(d, e, at, m)
  <2>1. ASSUME NEW i \in 0..PAGE_SIZE - 1,
               i \notin local.begin_offset..local.begin_offset + m - 1
        PROVE  e.page[local.curr][i] = d.page[local.curr][i]
    <3>1. /\ i \notin local.begin_offset..local.begin_offset + n - 1
          /\ i \notin local.begin_offset + n..local.begin_offset + m - 1
      BY <1>1, <1>3, <2>1, SizeAssumption
    <3> QED BY <1>2, <3>1
  <2> HIDE DEF new
  <2> QED BY <1>2, <1>4, <2>1 DEF LeftAlone
<1>10. ASSUME NEW pos \in Nat, pos < Len(d.list) * PAGE_SIZE, pos \notin at..at + m - 1
       PROVE  ByteAt(e, pos) = ByteAt(d, pos)
  BY <1>3, <1>9, <1>10, BytesLeft
<1> QED BY <1>7, <1>8, <1>10 DEF BytesStored, m

\* A write that has copied to one more page is as well as it was.
LEMMA BytesStay ==
  ASSUME NEW d \in Disks, NEW e \in Disks, e.file = d.file, NEW size \in Nat,
         Len(d.file) <= size, NEW local \in Locals, local.done <= local.limit,
         NEW n \in 0..PAGE_SIZE, CanCopy(local, n), local.f_pos + local.limit <= size,
         NEW at \in Nat, WalkAt(d, local, at), WritingWell(d, local, at),
         BytesStored(d, e, size, local, at, n)
  PROVE  WritingWell(e, Copied(local, n), NextStart(at))
<1> DEFINE next == Copied(local, n)
           m == InPage(local)
           to == NextStart(at)
           stop == local.f_pos + local.done
<1>1. /\ {local.f_pos, local.done, local.limit, n, stop} \subseteq Nat
      /\ d.file \in Seq(FileBytes)
  BY Fields, SizeAssumption DEF Disks
<1>2. m \in Nat /\ n <= m /\ (local.fault => n = 0)
  BY CutShort
<1>3. /\ next.f_pos = local.f_pos /\ next.done = local.done + n /\ next.data = local.data
      /\ next.done <= next.limit /\ next.limit = local.limit
  BY CopiedFields
<1>4. \A pos \in Nat : pos < to =>
        (Cleared(next, pos) <=> IF pos < at THEN Cleared(local, pos)
                                ELSE pos \in at + n..at + m - 1)
  BY ClearsHere
<1>5. at + m <= to /\ to \in Nat
  <2>1. m <= PAGE_SIZE - local.begin_offset /\ local.begin_offset = at % PAGE_SIZE
    BY CutShort DEF WalkAt
  <2>2. PICK q \in Nat, base \in Nat, r \in 0..PAGE_SIZE - 1 :
          r = at % PAGE_SIZE /\ at = base + r /\ to = base + PAGE_SIZE
    BY WalkPlace
  <2> HIDE DEF m, to
  <2> QED BY <1>2, <2>1, <2>2, SizeAssumption
<1>6. stop <= at /\ (~local.fault => at = stop)
  <2>1. /\ ~local.fault => at = local.f_pos + local.done
        /\ local.fault => local.f_pos + local.done < at
    BY DEF WalkAt
  <2> QED BY <1>1, <2>1
<1> HIDE DEF next, m, to
<1>7. ASSUME NEW i \in DOMAIN e.file, i \notin next.f_pos + 1..next.f_pos + next.done
      PROVE  IF i - 1 < to /\ Cleared(next, i - 1) THEN ByteAt(e, i - 1) = Zero
             ELSE Kept(e, i)
  <2> DEFINE pos == i - 1
  <2>1. i \in DOMAIN d.file /\ pos \in Nat /\ pos < size /\ i \in Nat /\ i = pos + 1
    BY <1>1, SMTT(30)
  <2>2. i \notin local.f_pos + 1..local.f_pos + local.done /\ pos \notin stop..stop + n - 1
    BY <1>1, <1>3, <1>7, <2>1, SMTT(30)
  <2>3. IF pos < at /\ Cleared(local, pos) THEN ByteAt(d, pos) = Zero ELSE Kept(d, i)
    BY <2>1, <2>2 DEF WritingWell
  <2>4. pos \notin at..at + n - 1
    BY <1>1, <1>2, <1>6, <2>1, <2>2
  <2> HIDE DEF pos
  <2>5. CASE pos \in at + n..at + m - 1
    <3>1. PICK k \in Nat : k = pos - at /\ pos = at + k /\ n <= k /\ k < m
      BY <1>1, <1>2, <2>1, <2>5
    <3>2. ByteAt(e, pos) = Zero
      BY <3>1 DEF BytesStored, m
    <3>3. pos < to /\ ~(pos < at)
      BY <1>1, <1>2, <1>5, <2>1, <3>1
    <3>4. Cleared(next, pos)
      BY <1>4, <2>1, <2>5, <3>3
    <3> QED BY <3>2, <3>3, <3>4 DEF pos
  <2>6. CASE pos \notin at + n..at + m - 1
    <3>1. pos \notin at..at + m - 1
      BY <1>1, <1>2, <2>1, <2>4, <2>6
    <3>2. ByteAt(e, pos) = ByteAt(d, pos)
      BY <2>1, <3>1 DEF BytesStored, m
    <3>3. pos < to /\ Cleared(next, pos) <=> pos < at /\ Cleared(local, pos)
      <4>1. pos < at => pos < to
        BY <1>2, <1>5, <2>1
      <4> QED BY <1>4, <2>1, <2>6, <4>1
    <3> QED BY <2>1, <2>3, <3>2, <3>3 DEF Kept, pos
  <2> QED BY <2>5, <2>6
<1>8. ASSUME NEW j \in 1..next.done
      PROVE  ByteAt(e, next.f_pos + j - 1) = next.data[j]
  <2> DEFINE pos == local.f_pos + j - 1
  <2>1. j \in Nat /\ j >= 1 /\ j <= local.done + n /\ local.done + n <= local.limit
    BY <1>1, <1>3, <1>8
  <2>2. pos \in Nat /\ pos < size
    BY <1>1, <2>1, SMTT(30)
  <2>3. CASE j <= local.done
    <3>1. pos \notin at..at + m - 1 /\ j \in 1..local.done
      BY <1>1, <1>2, <1>6, <2>1, <2>3
    <3>2. ByteAt(d, pos) = local.data[j]
      BY <3>1 DEF WritingWell
    <3>3. ByteAt(e, pos) = ByteAt(d, pos)
      BY <2>2, <3>1 DEF BytesStored, m
    <3> QED BY <1>3, <3>2, <3>3
  <2>4. CASE ~(j <= local.done)
    <3> DEFINE i == j - local.done - 1
    <3>0. i \in Nat /\ i < n /\ local.done + i + 1 = j /\ n # 0
      BY <1>1, <2>1, <2>4, SMTT(30)
    <3> HIDE DEF stop
    <3>1. at = stop
      BY <1>2, <1>6, <3>0
    <3>2. pos = at + i
      <4>1. stop = local.f_pos + local.done /\ {local.f_pos, local.done} \subseteq Nat
        BY <1>1 DEF stop
      <4>2. pos = (local.f_pos + local.done) + i
        BY <2>1, <4>1
      <4> HIDE DEF pos, i
      <4> QED BY <3>1, <4>1, <4>2
    <3> HIDE DEF i, pos
    <3>3. ByteAt(e, pos) = local.data[j]
      BY <3>0, <3>2 DEF BytesStored
    <3> QED BY <1>3, <3>3 DEF pos
  <2> QED BY <2>3, <2>4
<1> QED BY <1>7, <1>8 DEF WritingWell, next, to

\* What has been written is in the file, what the write has cleared is cleared, and nothing
\* else has changed there.
LEMMA WrittenBytes ==
  ASSUME file \in Seq(FileBytes), NEW local \in Locals, local.data \in Seq(Values),
         local.done <= Len(local.data)
  PROVE  LET new == Written(local)
         IN  /\ new \in Seq(FileBytes)
             /\ Len(new) = Max({Len(file), local.f_pos + local.done})
             /\ \A i \in DOMAIN new :
                  new[i] = IF i \in local.f_pos + 1..local.f_pos + local.done
                           THEN local.data[i - local.f_pos]
                           ELSE IF i <= Len(file)
                                THEN IF Cleared(local, i - 1) THEN Zero ELSE file[i]
                           ELSE Unknown
<1> DEFINE pos == local.f_pos
           m == local.done
           rest(i) == IF i <= Len(file)
                      THEN IF Cleared(local, i - 1) THEN Zero ELSE file[i]
                      ELSE Unknown
           byte(i) == IF i > pos /\ i <= pos + m THEN local.data[i - pos] ELSE rest(i)
           size == Max({Len(file), pos + m})
           new == Written(local)
<1>1. new \in Seq(FileBytes) /\ Len(new) = size
  BY WrittenTyped
<1>2. new = [i \in 1..size |-> byte(i)]
  BY DEF Written
<1>3. pos \in Nat /\ m \in Nat
  BY Fields
<1> HIDE DEF size, rest, new
<1>4. ASSUME NEW i \in DOMAIN new
      PROVE  new[i] = IF i \in pos + 1..pos + m THEN local.data[i - pos] ELSE rest(i)
  <2>1. i \in Nat /\ new[i] = byte(i)
    <3>1. i \in Nat /\ i \in 1..size
      BY <1>1
    <3> HIDE DEF byte
    <3> QED BY <1>2, <3>1
  <2>2. i \in pos + 1..pos + m <=> i > pos /\ i <= pos + m
    BY <1>3, <2>1
  <2> QED BY <2>1, <2>2
<1> QED BY <1>1, <1>4 DEF size, new, rest

LEMMA IdleBlank ==
  ASSUME NEW local
  PROVE  Idle(local).data = <<>> /\ Idle(local).count = 0
BY DEF Idle, Closed

\* A process in user mode that has moved, as it is after lseek, mmap and write.
LEMMA IdleKeepsData ==
  ASSUME TypeInv, NEW p \in Procs, Alone(p), NEW next \in Locals, next.pc = "open",
         next.data = <<>>, next.count = 0, proc' = [proc EXCEPT ![p] = next],
         Distinct(mem_list'), data_size' = Len(file'), Disk' \in Disks, AllKept(Disk')
  PROVE  DataInv'
<1>1. \A d \in Disks : AllKept(d) => DataOf(d, next)
  BY Blank
<1> QED BY <1>1, UserMoves

\* A write returns: the disk has what it has stored.
LEMMA WriteReturnsKeepsData ==
  ASSUME TypeInv, DataInv, NEW p \in Procs, Alone(p), NEW local \in Locals,
         WriteReturns(p, local), local.data \in Seq(Values),
         local.done <= Len(local.data), Distinct(mem_list'), mem_list' \in Seq(Frames),
         page' \in Content, NEW at \in Nat,
         WritingWell([list |-> mem_list', page |-> page', file |-> file], local, at),
         \A pos \in Nat : pos < Len(file) /\ Cleared(local, pos) => pos < at
  PROVE  DataInv'
<1> DEFINE d == [list |-> mem_list', page |-> page', file |-> file]
           pos == local.f_pos
           m == local.done
           next == [Idle(local) EXCEPT !.f_pos = @ + m]
<1>1. /\ proc' = [proc EXCEPT ![p] = next] /\ data_size' = Max({data_size, pos + m})
      /\ file' = Written(local)
  BY DEF WriteReturns
<1>2. /\ pos \in Nat /\ m \in 0..Len(local.data) /\ m \in Nat
      /\ file \in Seq(FileBytes) /\ data_size = Len(file)
  BY Fields DEF TypeInv, Globals, DataInv
<1>3. /\ file' \in Seq(FileBytes) /\ Len(file') = Max({Len(file), pos + m})
      /\ \A i \in DOMAIN file' :
           file'[i] = IF i \in pos + 1..pos + m THEN local.data[i - pos]
                      ELSE IF i <= Len(file)
                           THEN IF Cleared(local, i - 1) THEN Zero ELSE file[i]
                      ELSE Unknown
  BY <1>1, <1>2, WrittenBytes
<1>4. file' \in Seq(FileBytes)
  BY <1>3
<1>5. /\ Disk' \in Disks /\ Disk'.list = d.list /\ Disk'.page = d.page /\ Disk'.file = file'
      /\ d.file = file
  BY <1>4 DEF Disks, Disk
<1> HIDE DEF d
<1>6. ASSUME NEW i \in DOMAIN file', file'[i] # Unknown
      PROVE  ByteAt(Disk', i - 1) = file'[i]
  <2>1. ByteAt(Disk', i - 1) = ByteAt(d, i - 1)
    BY <1>5 DEF ByteAt
  <2>2. i \in Nat /\ i >= 1
    BY <1>4
  <2>3. CASE i \in pos + 1..pos + m
    <3> DEFINE j == i - pos
    <3>1. j \in 1..m /\ pos + j - 1 = i - 1
      BY <1>2, <2>2, <2>3
    <3>2. ByteAt(d, pos + j - 1) = local.data[j]
      BY <3>1 DEF WritingWell, d
    <3>3. file'[i] = local.data[j]
      BY <1>3, <2>3
    <3> QED BY <2>1, <3>1, <3>2, <3>3
  <2>4. CASE i \notin pos + 1..pos + m
    <3>1. file'[i] = (IF Cleared(local, i - 1) THEN Zero ELSE file[i]) /\ i \in DOMAIN file
      <4>1. file'[i] = IF i <= Len(file)
                       THEN IF Cleared(local, i - 1) THEN Zero ELSE file[i] ELSE Unknown
        BY <1>3, <2>4
      <4>2. i <= Len(file)
        BY <1>6, <4>1
      <4>3. i \in DOMAIN file
        BY <1>2, <2>2, <4>2
      <4> QED BY <4>1, <4>2, <4>3
    <3>2. i - 1 \in Nat /\ i - 1 < Len(file)
      BY <1>2, <2>2, <3>1
    <3>3. Cleared(local, i - 1) => i - 1 < at
      BY <3>2
    <3>4. IF i - 1 < at /\ Cleared(local, i - 1) THEN ByteAt(d, i - 1) = Zero ELSE Kept(d, i)
      BY <1>5, <2>4, <3>1 DEF WritingWell, d
    <3>5. CASE Cleared(local, i - 1)
      BY <2>1, <3>1, <3>3, <3>4, <3>5
    <3>6. CASE ~Cleared(local, i - 1)
      BY <1>5, <1>6, <2>1, <3>1, <3>4, <3>6 DEF Kept
    <3> QED BY <3>5, <3>6
  <2> QED BY <2>3, <2>4
<1>7. AllKept(Disk')
  BY <1>5, <1>6 DEF AllKept, Kept
<1>8. next \in Locals /\ next.pc = "open" /\ next.data = <<>> /\ next.count = 0
  <2> DEFINE to == pos + m
  <2>1. next = [Idle(local) EXCEPT !.f_pos = to] /\ to \in Nat
    BY <1>2, IdleSound
  <2> HIDE DEF to, next
  <2> QED BY <2>1, IdleSound, IdleBlank, ZenonT(30) DEF Sound, Locals
<1> HIDE DEF next
<1>9. data_size' = Len(file')
  BY <1>1, <1>2, <1>3
<1> QED BY <1>1, <1>5, <1>7, <1>8, <1>9, IdleKeepsData

\* A write that has stored nothing yet.
LEMMA NothingStored ==
  ASSUME NEW d \in Disks, AllKept(d), NEW local, local.done = 0, ~local.fault, NEW at
  PROVE  WritingWell(d, local, at)
BY DEF WritingWell, AllKept, Cleared

LEMMA PreparedKeepsData ==
  ASSUME TypeInv, DataInv, NEW p \in Procs, Alone(p), NEW local \in Locals,
         Prepared(p, local, mem_list', num_pages'), local.data \in Seq(Values),
         local.done = 0, ~local.fault, Distinct(mem_list'), mem_list' \in Seq(Frames),
         UNCHANGED page, AllKept([list |-> mem_list', page |-> page, file |-> file])
  PROVE  DataInv'
<1> DEFINE d == [list |-> mem_list', page |-> page, file |-> file]
           first == OnPage(local, mem_list', "writing")
           needed == num_pages' * PAGE_SIZE < local.f_pos + local.limit
<1>1. d \in Disks /\ data_size = Len(file) /\ d.list = mem_list' /\ page' = page
      /\ page \in Content
  BY DEF TypeInv, Globals, DataInv, Disks
<1>2. WritingWell(d, local, local.f_pos) /\ AllKept(d) /\ local.f_pos \in Nat
  BY <1>1, NothingStored, Fields
<1>3. UNCHANGED file => Disk' = d
  BY <1>1 DEF Disk
<1>4. IF needed
      THEN proc' = [proc EXCEPT ![p] = [local EXCEPT !.pc = "alloc"]]
           /\ UNCHANGED <<data_size, file>>
      ELSE IF first.curr = NoPage THEN WriteReturns(p, local)
      ELSE proc' = [proc EXCEPT ![p] = first] /\ UNCHANGED <<data_size, file>>
  BY DEF Prepared
<1> HIDE DEF d, needed
<1>5. CASE needed
  <2> DEFINE next == [local EXCEPT !.pc = "alloc"]
  <2>1. proc' = [proc EXCEPT ![p] = next] /\ UNCHANGED <<data_size, file>>
    BY <1>4, <1>5
  <2>2. next \in Locals /\ next.pc = "alloc"
    BY DEF Locals
  <2> HIDE DEF next
  <2>3. DataOf(d, next)
    BY <1>1, <1>2, <2>2, Blank
  <2>4. DataOf(Disk', next) /\ data_size' = Len(file')
    BY <1>1, <1>3, <2>1, <2>3
  <2> QED BY <2>1, <2>4, UserMoves
<1>6. CASE ~needed /\ first.curr = NoPage
  <2>1. WriteReturns(p, local)
    BY <1>4, <1>6
  <2>2. local.done <= Len(local.data)
    OBVIOUS
  <2>3. WritingWell([list |-> mem_list', page |-> page', file |-> file], local, local.f_pos)
    BY <1>1, <1>2 DEF d
  <2>4. \A pos : ~Cleared(local, pos)
    BY DEF Cleared
  <2> QED BY <1>1, <1>2, <2>1, <2>2, <2>3, <2>4, WriteReturnsKeepsData
<1>7. CASE ~needed /\ first.curr # NoPage
  <2>1. proc' = [proc EXCEPT ![p] = first] /\ UNCHANGED <<data_size, file>>
    BY <1>4, <1>7
  <2>2. first.pc = "writing" /\ first.done = 0 /\ first.f_pos = local.f_pos
    BY OnPageFields
  <2>3. /\ first.curr = PageAt(d.list, local.f_pos \div PAGE_SIZE)
        /\ first.begin_offset = local.f_pos % PAGE_SIZE /\ first.fault = local.fault
    BY <1>1, FirstPage
  <2> HIDE DEF first
  <2>4. WritingWell(d, first, local.f_pos)
    BY <1>1, <1>2, <2>2, <2>3, NothingStored
  <2>5. WalkAt(d, first, local.f_pos)
    BY <1>2, <2>2, <2>3 DEF WalkAt
  <2>6. DataOf(d, first)
    BY <1>2, <2>2, <2>4, <2>5 DEF DataOf
  <2>7. DataOf(Disk', first) /\ data_size' = Len(file')
    BY <1>1, <1>3, <2>1, <2>6
  <2> QED BY <2>1, <2>7, UserMoves
<1> QED BY <1>5, <1>6, <1>7

LEMMA WriteKeepsData ==
  ASSUME TypeInv, DataInv, NEW p \in Procs, Alone(p), NEW data \in Payloads,
         Write(p, data)
  PROVE  DataInv'
<1> DEFINE local == [Idle(proc[p]) EXCEPT !.data = data, !.limit = Len(data)]
<1>1. /\ proc[p].pc = "open" /\ Prepared(p, local, mem_list, num_pages)
      /\ UNCHANGED <<mem_list, page, num_pages, nprocs, max_nprocs>>
  BY DEF Write
<1>2. data \in Seq(Values) /\ data \in Seq(Bytes) /\ Len(data) \in Nat
  BY InputAssumption DEF Bytes
<1>3. proc[p] \in Locals /\ mem_list' \in Seq(Frames) /\ Distinct(mem_list')
      /\ DataOf(Disk, proc[p])
  BY <1>1 DEF TypeInv, Globals, DataInv
<1>4. local \in Locals /\ local.done = 0 /\ local.data = data /\ local.fault = FALSE
  <2>1. Idle(proc[p]).fault = FALSE
    BY DEF Idle, Closed
  <2> QED BY <1>2, <1>3, <2>1, IdleSound DEF Sound, Locals
<1> HIDE DEF local
<1>5. AllKept([list |-> mem_list', page |-> page, file |-> file])
  BY <1>1, <1>3 DEF DataOf, Disk
<1>6. Prepared(p, local, mem_list', num_pages') /\ page' = page
  BY <1>1
<1> QED BY <1>2, <1>3, <1>4, <1>5, <1>6, PreparedKeepsData

LEMMA AllocKeepsData ==
  ASSUME TypeInv, FitInv, DataInv, NEW p \in Procs, Alone(p), NEW f \in Frames,
         Alloc(p, f)
  PROVE  DataInv'
<1> DEFINE e == [list |-> mem_list', page |-> page, file |-> file]
<1>1. /\ proc[p].pc = "alloc" /\ Prepared(p, proc[p], mem_list', num_pages')
      /\ mem_list' = Append(mem_list, f) /\ page' = page /\ f \notin ToSet(mem_list)
  BY DEF Alloc, Available
<1>2. /\ proc[p] \in Locals /\ Sound(proc[p]) /\ mem_list \in Seq(Frames)
      /\ DataOf(Disk, proc[p]) /\ Distinct(mem_list) /\ data_size = Len(file)
      /\ data_size <= Len(mem_list) * PAGE_SIZE /\ Disk \in Disks
      /\ page \in Content /\ file \in Seq(FileBytes)
  BY <1>1, DiskTyped DEF TypeInv, Globals, DataInv, FitInv, BufferSize
<1>3. proc[p].data \in Seq(Values) /\ proc[p].done = 0 /\ ~proc[p].fault
  BY <1>1, <1>2 DEF Sound
<1>4. mem_list' \in Seq(Frames) /\ Distinct(mem_list')
  <2>1. mem_list' \in Seq(Frames) /\ DOMAIN mem_list' = 1..Len(mem_list) + 1
        /\ Len(mem_list) \in Nat /\ DOMAIN mem_list = 1..Len(mem_list)
        /\ mem_list'[Len(mem_list) + 1] = f
        /\ \A i \in DOMAIN mem_list : mem_list'[i] = mem_list[i]
    BY <1>1, <1>2
  <2>2. \A i \in DOMAIN mem_list : mem_list[i] # f
    BY <1>1 DEF ToSet
  <2>3. \A i \in DOMAIN mem_list' : i \in DOMAIN mem_list \/ i = Len(mem_list) + 1
    BY <2>1
  <2>4. Distinct(mem_list')
    BY <1>2, <2>1, <2>2, <2>3 DEF Distinct
  <2> QED BY <2>1, <2>4
<1>5. e \in Disks /\ e.list = Append(Disk.list, f) /\ e.page = Disk.page
      /\ e.file = file /\ Disk.file = file /\ Disk.list = mem_list
  BY <1>1, <1>2, <1>4 DEF Disks, Disk
<1> HIDE DEF e
<1>6. AllKept(Disk)
  BY <1>1, <1>2 DEF DataOf
<1>7. ASSUME NEW i \in DOMAIN file PROVE Kept(e, i)
  <2>1. i - 1 \in Nat /\ i - 1 < Len(Disk.list) * PAGE_SIZE
    <3>1. Len(mem_list) * PAGE_SIZE \in Nat /\ i \in 1..Len(file) /\ Len(file) \in Nat
      BY <1>2, Product, SizeAssumption
    <3> QED BY <1>2, <1>5, <3>1
  <2>2. ByteAt(e, i - 1) = ByteAt(Disk, i - 1)
    BY <1>2, <1>5, <2>1, LongerList
  <2>3. Kept(Disk, i)
    BY <1>5, <1>6 DEF AllKept
  <2> QED BY <1>5, <2>2, <2>3 DEF Kept
<1>8. AllKept(e)
  BY <1>5, <1>7 DEF AllKept
<1> QED BY <1>1, <1>2, <1>3, <1>4, <1>8, PreparedKeepsData DEF e

LEMMA WriteCopyKeepsData ==
  ASSUME TypeInv, FitInv, DataInv, NEW p \in Procs, Alone(p), NEW n \in 0..PAGE_SIZE,
         WriteCopy(p, n)
  PROVE  DataInv'
<1> DEFINE local == proc[p]
           next == Copied(local, n)
           onward == [next EXCEPT !.curr = After(local.curr)]
           e == [list |-> mem_list', page |-> page', file |-> file]
<1>1. /\ local.pc = "writing" /\ CanCopy(local, n)
      /\ page' = [page EXCEPT ![local.curr] = [i \in 0..PAGE_SIZE - 1 |->
                    IF i \in local.begin_offset..local.begin_offset + n - 1
                    THEN local.data[local.done + i - local.begin_offset + 1]
                    ELSE IF i \in local.begin_offset + n
                                  ..local.begin_offset + InPage(local) - 1
                    THEN Zero ELSE @[i]]]
      /\ IF next.done = next.limit \/ After(local.curr) = NoPage
         THEN WriteReturns(p, next)
         ELSE proc' = [proc EXCEPT ![p] = onward] /\ UNCHANGED <<data_size, file>>
      /\ mem_list' = mem_list
  BY DEF WriteCopy
<1>2. /\ local \in Locals /\ Sound(local) /\ n \in Nat /\ data_size = Len(file)
      /\ Distinct(mem_list) /\ DataOf(Disk, local) /\ Disk \in Disks
      /\ Disk.list = mem_list /\ Disk.file = file /\ Disk.page = page
      /\ Fits(local, mem_list, num_pages, data_size) /\ num_pages = Len(mem_list)
      /\ data_size <= Len(mem_list) * PAGE_SIZE /\ mem_list \in Seq(Frames)
      /\ file \in Seq(FileBytes)
  BY <1>1, DiskTyped, SizeAssumption DEF TypeInv, Globals, DataInv, FitInv, BufferSize, Disk
<1>3. page' \in Content
  <2>1. TypeInv'
    BY NextKeepsTypes DEF Next, Continue
  <2> QED BY <2>1 DEF TypeInv, Globals
<1>4. PageStored(Disk, e, local, n)
  BY <1>1, <1>2 DEF PageStored
<1> HIDE DEF local
<1>5. e \in Disks /\ e.list = mem_list /\ e.file = file
  BY <1>1, <1>2, <1>3 DEF Disks
<1>6. UNCHANGED file => Disk' = e
  BY DEF Disk
<1> HIDE DEF e
<1>7. /\ local.curr \in Frames /\ local.done <= local.limit
      /\ local.data \in Seq(Values) /\ Len(local.data) = local.limit
      /\ local.f_pos + local.limit <= Len(mem_list) * PAGE_SIZE
  BY <1>1, <1>2 DEF Sound, Fits
<1>8. PICK at \in Nat : WalkAt(Disk, local, at) /\ WritingWell(Disk, local, at)
  BY <1>1, <1>2 DEF DataOf
<1> DEFINE to == NextStart(at)
<1>9. /\ next \in Locals /\ next.pc = "writing" /\ next.f_pos = local.f_pos
      /\ next.limit = local.limit /\ next.done = local.done + n
      /\ next.done <= next.limit /\ next.data = local.data
  BY <1>1, <1>2, <1>7, CopiedFields
<1>10. /\ to \in Nat
       /\ next.done # next.limit => WalkAt(Disk, onward, to)
       /\ After(local.curr) = NoPage => Len(mem_list) * PAGE_SIZE <= to
  BY <1>1, <1>2, <1>7, <1>8, WalkGoesOn
<1>11. {local.f_pos, local.done, local.limit} \subseteq Nat
       /\ Len(mem_list) * PAGE_SIZE \in Nat
  BY <1>2, Fields, Product, SizeAssumption
<1>12. BytesStored(Disk, e, Len(mem_list) * PAGE_SIZE, local, at, n)
  BY <1>1, <1>2, <1>4, <1>5, <1>7, <1>8, BytesCopied
<1>13. WritingWell(e, next, to)
  <2> DEFINE size == Len(mem_list) * PAGE_SIZE
  <2>1. size \in Nat /\ Len(Disk.file) <= size /\ e.file = Disk.file
        /\ BytesStored(Disk, e, size, local, at, n) /\ local.f_pos + local.limit <= size
    BY <1>2, <1>5, <1>7, <1>11, <1>12
  <2> HIDE DEF size, next, to
  <2> QED BY <1>1, <1>2, <1>5, <1>7, <1>8, <2>1, BytesStay DEF next, to
<1> HIDE DEF next, to
<1>14. CASE next.done = next.limit \/ After(local.curr) = NoPage
  <2>1. WriteReturns(p, next)
    BY <1>1, <1>14
  <2>2. next.data \in Seq(Values) /\ next.done <= Len(next.data)
    BY <1>7, <1>9
  <2>3. ASSUME NEW pos \in Nat, pos < Len(file), Cleared(next, pos)
        PROVE  pos < to
    <3>1. next.done # next.limit
      <4>1. next.f_pos + next.done \in Nat /\ next.done \in Nat
        BY <1>9, Fields
      <4> DEFINE stop == next.f_pos + next.done
                 into == IF pos \div PAGE_SIZE = stop \div PAGE_SIZE THEN pos - stop
                         ELSE pos % PAGE_SIZE
      <4>2. pos >= stop /\ into < next.limit - next.done
        BY <2>3 DEF Cleared
      <4>3. pos % PAGE_SIZE >= 0 /\ pos % PAGE_SIZE \in Int
        BY PlaceOfByte, SizeAssumption
      <4> HIDE DEF stop
      <4>4. into >= 0 /\ into \in Int
        BY <4>1, <4>2, <4>3 DEF stop
      <4> HIDE DEF into
      <4> QED BY <4>1, <4>2, <4>4
    <3>2. Len(mem_list) * PAGE_SIZE <= to
      BY <1>10, <1>14, <3>1
    <3>3. Len(file) <= Len(mem_list) * PAGE_SIZE /\ Len(file) \in Nat
      BY <1>2
    <3> QED BY <1>10, <1>11, <2>3, <3>2, <3>3
  <2>4. Distinct(mem_list') /\ mem_list' \in Seq(Frames)
    BY <1>1, <1>2
  <2> QED BY <1>3, <1>9, <1>10, <1>13, <2>1, <2>2, <2>3, <2>4, WriteReturnsKeepsData DEF e
<1>15. CASE ~(next.done = next.limit \/ After(local.curr) = NoPage)
  <2>1. proc' = [proc EXCEPT ![p] = onward] /\ UNCHANGED <<data_size, file>>
    BY <1>1, <1>15
  <2>2. /\ onward.pc = "writing" /\ onward.f_pos = next.f_pos
        /\ onward.done = next.done /\ onward.data = next.data
        /\ onward.fault = next.fault /\ onward.limit = next.limit
    BY <1>9 DEF Locals
  <2>3. WalkAt(Disk, onward, to)
    BY <1>10, <1>15
  <2> HIDE DEF onward
  <2>4. WritingWell(e, onward, to)
    BY <1>13, <2>2 DEF WritingWell, Cleared
  <2>5. WalkAt(e, onward, to)
    BY <1>2, <1>5, <2>3 DEF WalkAt
  <2>6. DataOf(e, onward)
    BY <1>10, <2>2, <2>4, <2>5 DEF DataOf
  <2>7. DataOf(Disk', onward) /\ data_size' = Len(file')
    BY <1>2, <1>6, <2>1, <2>6
  <2> QED BY <1>1, <1>2, <2>1, <2>7, UserMoves
<1> QED BY <1>14, <1>15

\* What a step of a process in user mode, or one that gets no page, starts from.
LEMMA QuietData ==
  ASSUME TypeInv, DataInv, NEW p \in Procs, Alone(p), proc[p].pc \in {"closed", "open", "alloc"}
  PROVE  /\ AllKept(Disk) /\ Disk \in Disks /\ Distinct(mem_list)
         /\ data_size = Len(file) /\ proc[p] \in Locals
BY DiskTyped DEF TypeInv, DataInv, DataOf, Alone

LEMMA SameDiskKeepsData ==
  ASSUME TypeInv, DataInv, NEW p \in Procs, Alone(p),
         proc[p].pc \in {"closed", "open", "alloc"}, NEW next \in Locals,
         \/ next.pc = "open" /\ next.data = <<>> /\ next.count = 0
         \/ next.pc = "closed",
         proc' = [proc EXCEPT ![p] = next],
         UNCHANGED <<mem_list, page, data_size, file>>
  PROVE  DataInv'
<1>1. /\ AllKept(Disk) /\ Disk \in Disks /\ Distinct(mem_list)
      /\ data_size = Len(file)
  BY QuietData
<1>2. Disk' = Disk
  BY DEF Disk
<1>3. DataOf(Disk, next)
  BY <1>1, Blank
<1> QED BY <1>1, <1>2, <1>3, UserMoves

LEMMA IdleFields ==
  ASSUME NEW local \in Locals
  PROVE  /\ Idle(local) \in Locals /\ Idle(local).pc = "open"
         /\ Idle(local).data = <<>> /\ Idle(local).count = 0
BY IdleSound, IdleBlank DEF Sound

LEMMA OpenKeepsData ==
  ASSUME TypeInv, DataInv, NEW p \in Procs, Alone(p), NEW mode \in Modes, Open(p, mode)
  PROVE  DataInv'
<1> DEFINE next == [Closed EXCEPT !.pc = "open", !.mode = mode]
<1>1. /\ proc[p].pc = "closed" /\ proc' = [proc EXCEPT ![p] = next] /\ page' = page
      /\ \/ mem_list' = <<>> /\ data_size' = 0 /\ file' = <<>>
         \/ UNCHANGED <<mem_list, data_size, file>>
  BY DEF Open, Goes
<1>2. next \in Locals /\ next.pc = "open" /\ next.data = <<>> /\ next.count = 0
  <2>1. Closed.data = <<>> /\ Closed.count = 0
    BY DEF Closed
  <2> QED BY <2>1, ClosedSound, InputAssumption DEF Sound, Locals
<1> HIDE DEF next
<1>3. CASE UNCHANGED <<mem_list, data_size, file>>
  BY <1>1, <1>2, <1>3, SameDiskKeepsData
<1>4. CASE mem_list' = <<>> /\ data_size' = 0 /\ file' = <<>>
  <2>1. DOMAIN <<>> = {} /\ Len(<<>>) = 0 /\ <<>> \in Seq(Frames)
        /\ <<>> \in Seq(FileBytes)
    OBVIOUS
  <2>2. Distinct(mem_list') /\ data_size' = Len(file')
    BY <1>4, <2>1 DEF Distinct
  <2>3. Disk' = [list |-> <<>>, page |-> page, file |-> <<>>]
    BY <1>1, <1>4 DEF Disk
  <2>4. Disk' \in Disks /\ AllKept(Disk')
    BY <2>1, <2>3 DEF TypeInv, Globals, Disks, AllKept
  <2> QED BY <1>1, <1>2, <2>2, <2>4, IdleKeepsData
<1> QED BY <1>1, <1>3, <1>4

\* The other steps that leave the disk alone: close, ioctl, lseek, mmap, munmap, and a
\* write that gets no page.
LEMMA QuietKeepsData ==
  ASSUME TypeInv, DataInv, NEW p \in Procs, Alone(p),
         \/ Close(p) \/ (\E n \in NprocLimits : SetNproc(p, n)) \/ SeekAny(p)
         \/ (\E len \in Lengths, pgoff \in MapOffsets : Mmap(p, len, pgoff))
         \/ Unmap(p) \/ AllocFail(p)
  PROVE  DataInv'
<1> DEFINE idle == Idle(proc[p])
<1>0. idle \in Locals /\ idle.pc = "open" /\ idle.data = <<>> /\ idle.count = 0
  BY IdleFields DEF TypeInv
<1>1. CASE Close(p)
  <2>1. Closed \in Locals /\ Closed.pc = "closed"
    BY ClosedSound DEF Sound
  <2> QED BY <1>1, <2>1, SameDiskKeepsData DEF Close, Goes
<1>2. CASE \E n \in NprocLimits : SetNproc(p, n)
  <2>1. UNCHANGED <<mem_list, page, data_size, file, proc>>
    BY <1>2 DEF SetNproc
  <2> QED BY <2>1 DEF DataInv, Disk
<1>3. CASE SeekAny(p)
  <2>1. PICK base \in {0, proc[p].f_pos, BufferSize}, offset \in Offsets :
          Seek(p, base, offset)
    BY <1>3 DEF SeekAny
  <2> DEFINE pos == Max({0, Min({BufferSize, base + offset})})
             next == [idle EXCEPT !.f_pos = pos]
  <2>2. /\ proc[p].pc = "open" /\ proc' = [proc EXCEPT ![p] = next]
        /\ UNCHANGED <<mem_list, page, data_size, file>>
    BY <2>1 DEF Seek, Goes
  <2>3. pos \in Nat
    <3>1. proc[p] \in Locals /\ BufferSize \in Nat
      BY SizeAssumption DEF TypeInv, Globals, BufferSize
    <3>2. base + offset \in Int /\ BufferSize \in Int
      BY <3>1, Fields, InputAssumption
    <3> DEFINE there == base + offset
               near == Min({BufferSize, there})
    <3> HIDE DEF there
    <3>3. near \in Int
      BY <3>2, TwoNumbers DEF there
    <3> HIDE DEF near
    <3>4. Max({0, near}) \in Nat
      BY <3>3, Truncated
    <3> QED BY <3>4 DEF near, there
  <2> HIDE DEF pos
  <2>4. next \in Locals /\ next.pc = "open" /\ next.data = <<>> /\ next.count = 0
    <3> HIDE DEF idle
    <3> QED BY <1>0, <2>3 DEF Locals
  <2> QED BY <2>2, <2>4, SameDiskKeepsData
<1>4. CASE \E len \in Lengths, pgoff \in MapOffsets : Mmap(p, len, pgoff)
  <2>1. PICK len \in Lengths, pgoff \in MapOffsets : Mmap(p, len, pgoff)
    BY <1>4
  <2> DEFINE vma == [i \in 1..len |-> IF i - 1 >= pgoff * PAGE_SIZE
                                      THEN PageAt(mem_list, i - 1) ELSE NoPage]
             next == [idle EXCEPT !.vma = vma, !.vm_pgoff = pgoff]
  <2>2. /\ proc[p].pc = "open" /\ proc' = [proc EXCEPT ![p] = next]
        /\ UNCHANGED <<mem_list, page, data_size, file>>
    BY <2>1 DEF Mmap, Goes
  <2>3. len \in Nat /\ pgoff \in Nat /\ \A i \in 1..len : vma[i] \in Pages
    <3>1. len \in Nat /\ pgoff \in Nat
      BY InputAssumption
    <3>2. \A i \in 1..len : PageAt(mem_list, i - 1) \in Pages /\ NoPage \in Pages
      BY <3>1, PageFound DEF TypeInv, Globals, Pages
    <3> QED BY <3>1, <3>2
  <2>4. vma \in Seq(Pages)
    BY <2>3
  <2> HIDE DEF vma
  <2>5. next \in Locals /\ next.pc = "open" /\ next.data = <<>> /\ next.count = 0
    <3> HIDE DEF idle
    <3> QED BY <1>0, <2>3, <2>4 DEF Locals
  <2> QED BY <2>2, <2>5, SameDiskKeepsData
<1>5. CASE Unmap(p)
  <2> DEFINE next == [idle EXCEPT !.vma = <<>>, !.vm_pgoff = 0]
  <2>1. /\ proc[p].pc = "open" /\ proc' = [proc EXCEPT ![p] = next]
        /\ UNCHANGED <<mem_list, page, data_size, file>>
    BY <1>5 DEF Unmap, Goes
  <2>2. <<>> \in Seq(Pages)
    OBVIOUS
  <2>3. next \in Locals /\ next.pc = "open" /\ next.data = <<>> /\ next.count = 0
    <3> HIDE DEF idle
    <3> QED BY <1>0, <2>2 DEF Locals
  <2> QED BY <2>1, <2>3, SameDiskKeepsData
<1>6. CASE AllocFail(p)
  BY <1>0, <1>6, SameDiskKeepsData DEF AllocFail, Goes
<1> QED BY <1>1, <1>2, <1>3, <1>4, <1>5, <1>6

LEMMA StoreKeepsData ==
  ASSUME TypeInv, FitInv, DataInv, NEW p \in Procs, Alone(p), NEW i \in DOMAIN proc[p].vma,
         NEW at \in 0..PAGE_SIZE - 1, NEW v \in Values, Store(p, i, at, v)
  PROVE  DataInv'
<1> DEFINE next == Idle(proc[p])
           no == i - 1
           place == no * PAGE_SIZE + at
<1>1. /\ proc[p].pc = "open" /\ proc' = [proc EXCEPT ![p] = next]
      /\ UNCHANGED <<mem_list, num_pages, data_size>>
      /\ page' = [page EXCEPT ![proc[p].vma[i]][at] = v] /\ proc[p].vma[i] # NoPage
      /\ LET pos == (proc[p].vm_pgoff + i - 1) * PAGE_SIZE + at + 1
         IN  file' = IF pos <= Len(file) THEN [file EXCEPT ![pos] = v] ELSE file
  BY DEF Store, Goes
<1>2. /\ AllKept(Disk) /\ Disk \in Disks /\ Distinct(mem_list)
      /\ data_size = Len(file) /\ proc[p] \in Locals /\ Disk.list = mem_list
      /\ Disk.page = page /\ Disk.file = file
  BY <1>1, QuietData DEF Disk
<1>3. /\ proc[p].vm_pgoff = 0 /\ PageAt(mem_list, i - 1) = proc[p].vma[i]
      /\ data_size <= Len(mem_list) * PAGE_SIZE /\ num_pages = Len(mem_list)
  BY <1>1 DEF FitInv, Fits, BufferSize
<1>4. i \in Nat /\ i >= 1 /\ no \in Nat /\ proc[p].vma[i] \in Frames /\ at \in Nat
  <2>1. proc[p].vma \in Seq(Pages) /\ at \in Nat
    BY <1>2, Fields, SizeAssumption
  <2>2. i \in Nat /\ i >= 1 /\ proc[p].vma[i] \in Pages
    BY <2>1
  <2> QED BY <1>1, <2>1, <2>2 DEF Pages
<1>5. place \in Nat /\ (proc[p].vm_pgoff + i - 1) * PAGE_SIZE + at + 1 = place + 1
  <2>1. proc[p].vm_pgoff + i - 1 = no
    BY <1>3, <1>4
  <2>2. no * PAGE_SIZE \in Nat
    BY <1>4, Product, SizeAssumption
  <2> QED BY <1>4, <2>1, <2>2
<1>6. file' = IF place + 1 <= Len(file) THEN [file EXCEPT ![place + 1] = v] ELSE file
  BY <1>1, <1>5
<1>7. file \in Seq(FileBytes) /\ Len(mem_list) * PAGE_SIZE \in Nat
  BY Product, SizeAssumption DEF TypeInv, Globals
<1>8. TypeInv'
  BY NextKeepsTypes DEF Next, Call
<1>9. Disk' \in Disks /\ Disk'.list = Disk.list /\ Disk'.page = page' /\ Disk'.file = file'
  BY <1>1, <1>8 DEF TypeInv, Globals, Disks, Disk
<1>10. ASSUME NEW pos \in Nat, pos < Len(mem_list) * PAGE_SIZE
       PROVE  ByteAt(Disk', pos) = IF pos = place THEN v ELSE ByteAt(Disk, pos)
  <2> DEFINE f == proc[p].vma[i]
             d == Disk
             e == Disk'
  <2>1. /\ d \in Disks /\ e \in Disks /\ e.list = d.list /\ Distinct(d.list)
        /\ no \in Nat /\ f \in Frames /\ f = PageAt(d.list, no)
        /\ ByteChanged(d, e, f, at, v) /\ pos < Len(d.list) * PAGE_SIZE
    BY <1>1, <1>2, <1>3, <1>4, <1>9, <1>10 DEF ByteChanged
  <2> HIDE DEF f, no, d, e
  <2>2. StoredIn(d, e, no, at, v)
    BY <2>1 DEF StoredIn
  <2>3. NewByteAt(d, e, no * PAGE_SIZE + at, v, pos)
    BY <2>1, <2>2, ByteStored
  <2> QED BY <2>3 DEF NewByteAt, no, d, e
<1> HIDE DEF place
<1>11. /\ DOMAIN file' = DOMAIN file /\ Len(file') = Len(file)
       /\ DOMAIN file = 1..Len(file) /\ Len(file) \in Nat
       /\ \A k \in DOMAIN file : file'[k] = IF k = place + 1 THEN v ELSE file[k]
  <2>1. file' \in Seq(FileBytes)
    BY <1>8 DEF TypeInv, Globals
  <2> QED BY <1>5, <1>6, <1>7, <2>1
<1>12. ASSUME NEW k \in DOMAIN file' PROVE Kept(Disk', k)
  <2>1. k \in Nat /\ k - 1 \in Nat /\ k - 1 < Len(mem_list) * PAGE_SIZE
    BY <1>2, <1>3, <1>7, <1>11
  <2>2. k - 1 = place <=> k = place + 1
    BY <1>5, <2>1
  <2>3. Kept(Disk, k)
    BY <1>2, <1>11 DEF AllKept
  <2> QED BY <1>2, <1>9, <1>10, <1>11, <2>1, <2>2, <2>3 DEF Kept
<1>13. AllKept(Disk')
  BY <1>9, <1>12 DEF AllKept
<1>14. Distinct(mem_list') /\ data_size' = Len(file')
  BY <1>1, <1>2, <1>11
<1>15. next \in Locals /\ next.pc = "open" /\ next.data = <<>> /\ next.count = 0
  BY <1>2, IdleFields
<1> QED BY <1>1, <1>9, <1>13, <1>14, <1>15, IdleKeepsData

-----------------------------------------------------------------------------

LEMMA InitData == Init => DataInv
<1> SUFFICES ASSUME Init PROVE DataInv
  OBVIOUS
<1>1. mem_list = <<>> /\ data_size = 0 /\ proc = [p \in Procs |-> Closed] /\ file = <<>>
  BY DEF Init
<1>2. DOMAIN <<>> = {} /\ Len(<<>>) = 0
  OBVIOUS
<1>3. AllKept(Disk) /\ Distinct(mem_list) /\ data_size = Len(file)
  BY <1>1, <1>2 DEF AllKept, Disk, Distinct
<1>4. DataOf(Disk, Closed)
  BY <1>3, ClosedSound DEF DataOf
<1> QED BY <1>1, <1>3, <1>4 DEF DataInv

LEMMA NextKeepsData ==
  ASSUME OneAtATime
  PROVE  TypeInv /\ TurnInv /\ FitInv /\ DataInv /\ [Next]_vars => DataInv'
<1> SUFFICES ASSUME TypeInv, TurnInv, FitInv, DataInv, [Next]_vars PROVE DataInv'
  OBVIOUS
<1>0. ASSUME NEW p \in Procs, Call(p) \/ Continue(p) PROVE Alone(p)
  <2>1. CASE \E mode \in Modes : Open(p, mode)
    BY <2>1, OpensAlone DEF Alone
  <2>2. CASE ~Close(p) /\ \A mode \in Modes : ~Open(p, mode)
    <3>1. proc[p].pc # "closed"
      BY <1>0, <2>2, OtherStepsMove DEF Moves
    <3> QED BY <3>1 DEF TurnInv
  <2>3. CASE Close(p)
    BY <2>3 DEF Close, Goes, TurnInv
  <2> QED BY <2>1, <2>2, <2>3
<1>1. ASSUME NEW p \in Procs, Call(p) PROVE DataInv'
  <2> Alone(p)
    BY <1>0, <1>1
  <2>1. CASE \E mode \in Modes : Open(p, mode)
    BY <2>1, OpenKeepsData
  <2>2. CASE \E n \in Counts : Read(p, n)
    BY <2>2, ReadKeepsData
  <2>3. CASE \E data \in Payloads : Write(p, data)
    BY <2>3, WriteKeepsData
  <2>4. CASE \E i \in DOMAIN proc[p].vma, at \in 0..PAGE_SIZE - 1, v \in Values :
               Store(p, i, at, v)
    BY <2>4, StoreKeepsData
  <2> QED BY <1>1, <2>1, <2>2, <2>3, <2>4, QuietKeepsData DEF Call
<1>2. ASSUME NEW p \in Procs, Continue(p) PROVE DataInv'
  <2> Alone(p)
    BY <1>0, <1>2
  <2>1. CASE \E f \in Frames : Alloc(p, f)
    BY <2>1, AllocKeepsData
  <2>2. CASE AllocFail(p)
    BY <2>2, QuietKeepsData
  <2>3. CASE \E n \in 0..PAGE_SIZE : ReadCopy(p, n) \/ WriteCopy(p, n)
    BY <2>3, ReadCopyKeepsData, WriteCopyKeepsData
  <2> QED BY <1>2, <2>1, <2>2, <2>3 DEF Continue
<1>3. CASE UNCHANGED vars
  BY <1>3 DEF vars, DataInv, Disk
<1> QED BY <1>1, <1>2, <1>3 DEF Next

LEMMA SteadyData ==
  ASSUME Undisturbed, OneAtATime
  PROVE  Spec => [](TypeInv /\ TurnInv /\ FitInv /\ DataInv)
<1> DEFINE Inv == TypeInv /\ TurnInv /\ FitInv /\ DataInv
<1>1. Inv /\ [Next]_vars => Inv'
  BY NextKeepsTypes, NextKeepsTurn, NextKeepsFit, NextKeepsData
<1>2. Init => Inv
  BY InitOK, InitData
<1> QED BY <1>1, <1>2, PTL DEF Spec

\* While max_nprocs is at most one: whatever the processes that have the disk in turn
\* write, seek, map and empty, the pages keep every byte that was written last at its
\* position.  A failed allocation disturbs none of them; a copy that is cut short keeps
\* what it stored and clears the bytes that Cleared names, and no others
\* (asgn1.c:242-311).
THEOREM KeepsFile == ASSUME Undisturbed, OneAtATime PROVE Spec => []FileKept
<1>1. DataInv => FileKept
  BY DEF DataInv, FileKept, AllKept, Kept, ByteAt, Disk
<1> QED BY <1>1, SteadyData, PTL

\* And a read returns the bytes of the disk at its position, those that a failed write
\* cleared included, as many as there are and it asked for, whoever wrote them
\* (asgn1.c:146-201).
THEOREM ReadsData == ASSUME Undisturbed, OneAtATime PROVE Spec => []ReadsBack
<1>1. DataInv => ReadsBack
  BY DEF DataInv, DataOf, ReadWell, Reaches, ReadsBack, Disk
<1> QED BY <1>1, SteadyData, PTL

=============================================================================
