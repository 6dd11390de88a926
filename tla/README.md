# Verification of COSC440

This directory holds TLA+ models of the kernel modules of this repository,
TLC configurations that check them on small instances, and TLAPS proofs of what
holds for instances of any size.

## 1. The system

| Part | State | Operations | Talks to |
|---|---|---|---|
| `asgn2` top half (`asgn.c` 164-206, `gpio.c` 102-114) | `toggle`, `top_full_byte`, end of `cbuf`, `sessions.count`, `sessions.sizes` | one interrupt per half byte | tasklet (`cbuf`, `tasklet_schedule`), readers (`sessions`) |
| `asgn2` tasklet (`asgn.c` 109-156) | head of `cbuf`, `write_offset`, page list, `num_pages`, `data_size` | copy loop | top half, readers (`mem_list`, wait queue) |
| `asgn2` readers (`asgn.c` 236-399) | `nprocs`, `max_nprocs`, `fin_reading`, `read_offset`, head of `sessions` | open, release, read, ioctl | tasklet, top half, each other |
| `asgn2` load and unload (`asgn.c` 426-525, `gpio.c` 116-153) | device, proc entry, pins, irq | init, exit | everything |
| `asgn1` virtual disk (`asgn1.c`) | page list, `num_pages`, `data_size`, `nprocs`, file positions, mappings | open, release, read, write, lseek, mmap, ioctl | processes |
| `lab01/my_cat` | file offset, buffer | read/write loop with partial writes | standard streams |
| `lab03/wait` | ramdisk, `data_ready`, wait queue | blocking read, write | readers, writers |
| `lab03/seek`, `lab04/private_data` | one ramdisk, or one for each open file | open, read, write, lseek | processes |
| `lab04/mutex`, `lab04/semaphore` | a lock in one module used by two others | lock in init, unlock in exit | the loader |
| `lab04/proc`, `lab04/my_proc`, `lab03/list`, `lab03/taints` | a parameter or nothing | proc read and write | - |

The behaviour that is hard to test is in `asgn2`: an interrupt handler, a
tasklet and reading processes share a circular buffer, a session table and a
list of pages, with one spin lock that only the first two take and that two
early returns never release.  What makes each part correct:

- top half and tasklet: bytes leave the buffer in the order they came, none is
  lost but those dropped when it is full, the sizes promised to readers match
  the data stored, and whatever is in the buffer is eventually copied;
- readers: a read returns one session, whole, and once; a sleeping reader is woken;
- disk: a read returns what was last written at that position, the data is in
  pages the disk holds, and a mapping never shows a page that was freed;
- labs: no data flag is erased, no read or write leaves its ramdisk, no output is lost or
  duplicated;
- load and unload: what is acquired is given back once, in every failure too, nobody
  calls into a module that is not ready, and no load waits for ever.

`PROJECT.json` lists every component with its state in this project, and every
hazard with the line where it bites.

## 2. Modules

| Module | Models |
|---|---|
| `BoundedFifo` | What the circular buffer promises: a queue of bounded length. |
| `Asgn2Port` | Top half, circular buffer, spin lock, tasklet, page list. |
| `MCAsgn2Port` | Its instances for TLC. |
| `Asgn2PortProofs` | Types, mutual exclusion, exact counts, no stranded byte, framed sessions, sizes that add up. |
| `Asgn2FifoProofs` | First in first out, refinement of `BoundedFifo`, bytes stored in order. |
| `Asgn2` | The whole driver: extends `Asgn2Port` with the processes that open the device and read. |
| `MCAsgn2` | Its instances for TLC. |
| `Asgn2Proofs` | Types; a read walks only over pages of the list; no wake-up of a reader is lost; the counters of sessions, pages and data are true; a read returns its session, whole; pages are freed only when read. |
| `RamDisk` | The disk of asgn1, with interleaved calls and mappings. |
| `MCRamDisk` | Its instances for TLC. |
| `RamDiskProofs` | Types; pages hold the data and mappings show them when no open can empty the disk under a call; a disk that processes have in turn is a file. |
| `WaitEvent` | The device of lab03/wait and the kernel's exclusive wait queue. |
| `MCWaitEvent` | Its instance for TLC. |
| `WaitEventProofs` | Types; no write goes unnoticed; a wake-up is lost only to a signal. |
| `Modules` | Loading and unloading of every kernel module here, with its failures. |
| `MCModules` | Its instance for TLC. |
| `ModulesProofs` | One holder of a lock that is taken at load, and of major 700; what load and unload leave behind; who is called before it is ready. |
| `SeekDevice` | The seekable ramdisks of lab03/seek and lab04/private_data, and `seek_test.c`. |
| `MCSeekDevice` | Its instance for TLC. |
| `SeekDeviceProofs` | Types, reads and writes stay within the ramdisk, private data stays private, the test reads its message back. |
| `MyCat` | The copying loop of lab01. |
| `MCMyCat` | Its instance for TLC. |
| `MyCatProofs` | Nothing is output twice or out of order, nor left out unless a write failed. |

### How `Asgn2Port` corresponds to the code

Records have the C names (`cbuf.head`, `sessions.sizes`).  The handler and the
tasklet each have a program counter and their C locals (`irq.cbuf_end`,
`tasklet.begin_offset`); these are cleared when the activity is idle so that
equal situations are equal states.  An action is a run of loads and stores
between two points where the other activity can intervene: `cbuf.count--` is a
load and a store, and since the compiler may keep the value the loop test
loaded or load it again, `TaskletDec` allows both.  The stores are made in
program order.  The handler computes `cbuf_end` and `session_end` in one step
before it takes the lock, as the code does.

Where the code runs decides everything, so it is a parameter:

- `SMP = FALSE`: a kernel for one CPU.  `spin_lock` compiles to nothing; the
  handler interrupts the tasklet anywhere and runs to its end.
- `SMP = TRUE`, `Arrivals = {Nested}`: the interrupt comes to the CPU that runs
  the tasklet.  The tasklet stands still until the handler returns; a handler
  that finds the lock held by it spins for ever.
- `SMP = TRUE`, `Remote` in `Arrivals`: the interrupt may come to another CPU,
  and both advance.

`accepted`, `taken`, `copied`, `ends` and `received` are history variables: they
record bytes stored, removed, written to pages, and session ends; only
`received`, which bounds the behaviours, occurs in a guard.  `Asgn2Port` never
frees a frame: that is the readers' doing.  A new page keeps the bytes its frame
had.

### How `Asgn2` corresponds to the code

Each process has a program counter and the locals of `asgn2_read`.  A step ends
wherever something shared has been read and will be used, or half of an update is
done: the test of `max_nprocs` and the increment of `nprocs`; the two halves of
the wait condition; the size, the head and the count of the table; each page;
the page freed and the counters lowered.  The walk keeps `next` as
`list_for_each_entry_safe` does, one page ahead.

On one CPU (`MayRun`) a process runs only when neither the handler nor a
scheduled tasklet does, and the kernel does not preempt: another process gets the
CPU only when the first is asleep (`asleep`), woken and not yet running (`woken`),
on a page fault of `copy_to_user` (`copy`), or in user mode.  Interrupts come at
any step.  With `SMP` everything interleaves; no run uses that for readers.

`wait_event_interruptible` puts the process on the queue, tests the condition and
sleeps only if it is false; `ReadWait` is that, as one step.  A signal ends the
wait and the code ignores the result.  `got` is a history variable: the bytes each
read returned.

`Manners` states what the world around the driver refrains from, each run naming
its own: `between` (no byte while a call is under way), `one_page` (no second page
before the first was read), `nonempty` (no empty session), `patient` (nobody reads
a session that is only partly stored).  Without them the driver does not return
whole sessions; section 5 says what goes wrong.  `InTable` ends a behaviour when
the table index is negative: in C `sizes[-1]` is the variable before the table.

### How `RamDisk` corresponds to the code

The disk has no lock; on the one CPU of the board, whose kernel does not preempt,
calls interleave only where one can sleep: in `kmalloc` and `alloc_page` with
`GFP_KERNEL`, and on a page fault of `copy_to_user` and `copy_from_user`.  A step
runs from one such point to the next; `open`, `release`, `lseek`, `ioctl` and
`mmap` are one step each.  The test and increment in `asgn1_open` cannot be
separated there.  An allocation fails when no frame is left, or at any time if
`AllocMayFail`; a copy that fails part of the way fails at every later page too
(`fault`), and the loop goes on over the pages as the code's does.  `copy_from_user`
clears what it could not copy: the rest of the page's share of the write, and, as the
count of what is left does not shrink any more, as many bytes again at the beginning of
every later page of the disk, also of pages behind the write (`WriteCopy`).

`file` is a history variable: the bytes that the completed writes and the stores
through mappings should have left, and `Zero` where a write that was cut short
clears (`Cleared`).  A mapping keeps the file open, as the kernel's
reference does.  `SEEK_END` and the upper limit of `lseek` are the end of the last
page and not of the data, so a write may leave a gap of unknown bytes.
`Linked` ends a behaviour when a call would follow the link of a freed page.

### How `WaitEvent` corresponds to the code

`wait_event_interruptible_exclusive` and `wake_up_interruptible` are the kernel's, and
are modelled by the steps their macros take, since the driver is right or wrong by
their order: get in line and be asleep for wakers (`Prepare`), test again (`Test`),
`schedule` (`asleep`, `Resume`), leave the line (`Finish`), or give up because of a
signal and pass the wake-up on (`Abort`).  A waker takes the first in line that is
still `TASK_INTERRUPTIBLE`; a signal makes a process runnable but leaves it in line.
Every process may read and write, and all interleave at every step, on any number of
CPUs.  `news` and `given_up` are history variables: a write that no read has begun to
copy after, and a reader that returned for a signal with `data_ready` up.
The content of the ramdisk is left out; a read or write chooses its length where it is
first used.

### How `Modules` corresponds to the code

What an init function does is a sequence of named steps (`Asgn2Init`, ...), and so is what
its exit function gives back and what its error labels give back (`Asgn2Undo`, ...): these
tables are the code, and the actions walk along them.  `Take` is a step that succeeds,
`StepFails` one that fails, `Release` and `FreePages` give back.  Between any two steps
comes whatever the kernel allows by then: an open as soon as `cdev_add` or `misc_register`
is done and, in the asgn modules, the device node exists; an interrupt from `request_irq`
on.  The tasklet may run late, since nothing kills it.  `cdev_add` and the
`INIT_LIST_HEAD` after it are one step: the kernel does not preempt, and no interrupt is
requested yet.

`res` remembers what became of each resource since the module was loaded: never had, held,
released, released twice.  A module that left something behind is not loaded again, and
the interrupt that a failed load of asgn2 leaves behind, which calls code that is gone, is
not followed.  `mutex_lock_interruptible` and `down_interruptible` sleep; a signal makes
init fail (a restart of the call is a new `Load`).  `gpiochip_find`, whose result
`gpio_dummy_init` uses unchecked, is a step that acquires nothing and may fail.  A mutex goes to whoever comes first, a
semaphore is handed to one that waits (`HandOver`).  An insmod that uses what a failed
allocation returned crashes (`oops`) and goes no further.

### How `SeekDevice` corresponds to the code

The two drivers have the same calls, and differ in where the ramdisk is (`Ramdisk`): one
module describes both and `driver` says which is loaded.  The kernel of that time gives
`read` and `write` a copy of the file's position and stores it afterwards, without a lock
(what the drivers see as `ppos`), and copying may sleep on a page fault, so processes that
share an open file by `fork` can be in their calls at once: `Enter` is a call up to the
copying, `ReadLeave` and `WriteLeave` the rest.  A copy from an invalid buffer is cut short
and the rest of the target cleared, as `copy_from_user` does.

`seek_test.c` is a process of its own (`TestWrites`, `TestReads`).  A byte of its message
is modelled by its place in the message; the others are what was cleared (`Zero`), what was
in the memory before (`Old`) and what other processes write (`Theirs`).

`maxbytes`, an int, is compared with a `size_t`: one below zero counts as the larger
(`BytesToDo`).  `lseek` and the position that `read` and `write` leave never go past the
end, so only `pread` and `pwrite` (`AtOwn`), for which the kernel takes any position that
is not negative, get there.  A write that leaves the ramdisk is not followed into the
memory behind it.  A failing `kmalloc` in `open` is left out.

### How `MyCat` corresponds to the code

The actions are the calls; `read` may give less than there is, `write` may take less than
it is given, nothing, or fail, and either may be interrupted; `size_read` is what the last
`read` returned, 0 at the end and -1 when it failed.  `size_write` is an int
and is compared with a `size_t`: `AsSize` is that conversion, modulo `SizeMod`.  The
output has room for `room` bytes.  `refused` is a history variable: a write has failed.

## 3. Runs

| Run | Setting | Checks | Result |
|---|---|---|---|
| `port_pinned` | SMP, nested, allocation may fail | types, FIFO order, session framing, the first page, refinement | hold |
| `port_spread` | SMP, any CPU, allocation may fail | mutual exclusion, counts, sizes against data | hold |
| `port_up` | one CPU | no stranded byte, eventually drained | hold |
| `port_up_order` | one CPU | FIFO order | violated: the lock protects nothing |
| `readers_whole` | all manners | whole sessions, counted sessions, counted pages, pages removed when read, sleepers served | hold |
| `readers_wake` | no manners, signals, failing copies, a limit that is raised to 2 | types, no lost wake-up; with a limit of 1 a read's pages are on the list | hold |
| `disk_alone` | two processes in turn (a limit of 1), every mode, failures | the disk is a file: kept, but for what a write cut short clears; read back | hold |
| `disk_pair` | two processes, none write-only | types, pages hold the data, mappings show the disk | hold |
| `waiters` | any interleaving, signals, failing copies | types, no write missed, no lost wake-up, data taken | hold |
| `modules` | each module, and those used together; every step may fail | types; unloaded and failed modules leave nothing but what is named; nothing given back twice but what is named; callers find data; one holder; waiters served | hold |
| `seek` | both drivers, `seek_test` and two other processes, with `pread` and `pwrite` | within the device, but for a `pread` or `pwrite` that starts behind it; message read back, private data | hold |
| `cat` | any cuts and failures of read and write | types, output in order and complete, ends or is stuck | hold |

Bounds of the port: 4 or 5 bytes of 4 kinds (NUL and three different ones) through
a buffer of 2 and pages of 2 or 3.  The buffer wraps more than twice, fills and
drops; a page fills and a second is begun; the session table wraps in the
runs with 2 or 3 entries.  `PinLevels` has two members, so `HalfByte` yields 0 and
8 and the halves of a byte are told apart.

Bounds of the readers: `readers_whole` has 6 bytes, pages of 3, a table of 4, two
processes that hold the device in turn and three reads: up to three sessions, one
that ends where its page does, the next that begins on a new page, and one that
begins inside a page.  `readers_wake` has two
processes, a buffer of 1, two pages of 2, 3 bytes and 2 reads: a NUL comes at every step
of a call that is about to sleep, one process takes what the other was woken for, and a
second page is begun while a read sleeps.  The limit goes from 1 to 2 at any time:
`PagesHeld` speaks of the states before that, the other two of all.

Bounds of the disk: pages of 2 bytes, 2 frames, writes of up to 3 bytes, so that a
write ends inside a page, at its end, or in the second page, and a third page
cannot be had.  `disk_pair` uses one value and pages that already hold it, for its
properties speak of pages and sizes and not of content.  Nobody opens the disk
write-only there: see section 5.
`MapOffsets` is 0: an offset of one page is 4096 bytes, compared with a number of
pages, so a disk of fewer than 4096 pages accepts no other.

Bounds of the waiters: three processes, the least with which one writes while another
is between two steps of its wait and a third is in line; a ramdisk of one byte, so
that writes with and without room occur.

Bounds of the modules: the groups are the modules that can have to do with each other (they
share a major number or a lock); `MaxFiles` is 2 and `MaxPages` 2, so that one file is
closed while another is open, and a list is empty, grows and shrinks.  Every step that can
fail may.

Bounds of `seek`: a ramdisk of 3 bytes, calls of 1 and 2, offsets -1, 1 and 4: positions
before the start, at the last byte, at the end and past it; a message that fits twice, once and
a half, or not at all; two other processes on two files, so that one file is shared and
one is not.  The run names no types: `WithinDevice` says more of the positions, and
`TypesKept` (section 4) has the rest.

Bounds of `cat`: a file of two buffers and a bit, outputs with no room, with room for all
but a byte, and for all; a `size_t` just wider than the buffer, where -1 is still above
every count.

Fairness: `FairPortSpec` and `FairSpec` say that a handler that can advance does,
since nothing preempts an interrupt, and that a scheduled tasklet that can advance
does, since softirqs run when the interrupt returns.  `FairSpec` adds that a call
that was begun goes on, and so does `FairSpec` of `WaitEvent`: the scheduler
forgets nobody.  `FairSpec` of `Modules` says that an insmod or rmmod that was begun goes
on, and that of `MyCat` that the process runs, that a read is not interrupted for ever,
and that an output that has room does not take nothing for ever.  Interrupts need not
come and nobody has to open, read, write or close.  Spinning on a lock that is held is not
a step, so a lock that is never released shows as a system that stands still.

Deadlock is checked in the runs of the disk and of the waiters.  The port and the readers
stop when `MaxBytes` have come, `modules` when an insmod has crashed, and in `seek` and
`cat` programs end.

## 4. Proofs

All of it holds for every buffer capacity, session table, page size, set of
frames, number of bytes and number of processes (finitely many where somebody
counts them: `RamDisk`, `Asgn2`).  The constants are assumed to be what their comments
say, nothing more: `Modules` assumes that only resources and the interrupt number can
fail to be had (`gpio_free_array` cannot), `SeekDevice` that `None` and `Shared` are no
files.  A theorem that needs a hypothesis on the kernel or on the world has it in its
statement.

Each invariant is proved from an inductive one: it holds at the start, every
action keeps it, and it implies the invariant.  TLC finds each of them to hold on the
instances of section 3 (those with the hypothesis of the theorem).

The port (`Asgn2PortProofs`, `Asgn2FifoProofs`):

- `TypeCorrect`: `TypeOK` on every kernel, with or without a lock.  `TypeOK` alone
  is not inductive: the decrement needs that the count loaded by the loop test
  is at least one and not above the present count (`LoadedCount`), and the store
  needs that a page exists once the offset has left zero (`FirstPage`).
- `Exclusion` and `CountedBytes`: by `LockInv`, which adds that whoever is inside
  a critical section holds the lock and, from that, that the tasklet's loaded
  count is the present one.  The leaks keep the invariant: the lock stays taken.
- `SomebodyComes`, on one CPU and when allocation succeeds: by `AwaitInv`, which says which
  stages of the tasklet will still test the buffer, and that a tasklet that found it empty
  has not been overtaken unless the handler is about to schedule it again.  On an SMP
  kernel the drop path keeps the lock, and the tasklet that would come waits for it for
  ever: there the theorem is not claimed.
- `SessionsFramed`, on every kernel: by `FrameInv`, which adds what the entries mean that
  are not closed: the open session's holds the bytes accepted since the last end, the
  later ones hold none, and the index the handler computed before it took the lock is
  still that of the open session (only the handler moves it).
- `SizesAddUp`, assuming SMP: by `SizesInv`, which is the equation itself and that a tasklet
  about to wake the readers has let go of the lock; it rests on `LockInv`, for each side of
  the equation is a sum of what two activities change.  The sum over the table is a fold:
  `SumOneMore` says that it grows by one when one entry does, by induction on the number of
  entries.  The prover takes no induction theorem with an operator parameter; `NatInd`
  says the same of a set, which it does take.
- `FirstInFirstOut` and `Refinement`, assuming `Pinned` (SMP, nested interrupts):
  the slot chosen before the lock is still the end of the buffer when it is used
  (`FreshIndex`).  `StoreAppends`, `TakeRemoves` and `OthersKeep` say what each step
  does to the waiting bytes; the remainder arithmetic is in `ModOneTurn`.  The run
  `port_up_order` shows that one half of `Pinned` is needed; with `Remote` arrivals
  the index computed before the lock can be stale, which breaks the other half.
- `PlacedInOrder`, assuming `Pinned`: by `TakenInv` (what was removed is what is in pages,
  followed by the byte in the tasklet's hand, or by one that a failed allocation lost
  together with the lock, after which nothing moves) and `PlacedInv` (the first page holds
  a beginning of what was copied, and the offset is where it ends).

The readers (`Asgn2Proofs`):

- `TypeCorrectReaders`, on every kernel: by `DriverTypes`.  The port's `TypeOK` is no part
  of it, for it does not hold: a reader that a signal woke takes a session that is not
  there, and count falls below zero.  What holds of a reader's locals is `Measured`: it has
  no more than its session, and begins inside a page unless it has all.  Without the second
  the first is not inductive: what is left of the page could be negative.
- `CountsSessions`, assuming `Undisturbed` (one CPU, bytes come between the calls): by
  `CountInv`, which says what count is while a reader has taken its session and not yet
  counted it off, and that nobody else is then between a load and a store of it.  It needs
  no assumption on signals: what was taken without being there is owed.
- `HoldsPages`, assuming `OneUser` (one CPU, and `max_nprocs` never above one): by `HeldInv`,
  which says that one process has the device (`Alone`), that no page is in the list twice,
  and where the pointers of a read stand (`OnPages`): the page it copies or is about to free
  is on the list, and the next one is another that is.  The tasklet only adds pages at the
  end.  Interrupts come at any step, copies and allocations fail and signals come.
- `CountsPages`, assuming `OneAtATime` (`Undisturbed`, and `max_nprocs` never above one):
  whatever fails and however many pages there are.  `PagesInv` says that no page is in the
  list twice, so that unlinking one takes one away; that pages are filled one after another
  (`PagesFilled`); where a read's pointers point and that what it has loaded of the counters
  is still so (`Points`); and that the counters are true but for the page that is unlinked
  and not yet counted off (`CountersTrue`).
- `NoWakeupLost`, assuming `OneCpu` (one CPU, allocation succeeds): the inductive
  invariant `WakeInv` adds to `NoLostWakeup` that at most one process runs
  (`OneRunner`), that what the handler has loaded of `sessions.count` is the
  present value (`FreshCount`), and that what a reader has loaded is not above it
  (`LoadedLow`): a reader that stores a stale count can hide a session, never
  invent one.  A tasklet that returns early wakes nobody, hence the second
  hypothesis.
- `ReadsSessions`, assuming `WellMannered`: one CPU and all manners, `max_nprocs` never above
  one, no signal, no failing copy or allocation, and reads with room for a page (what the
  run `whole` checks, for every size and number of processes).  The invariant `WholeInv`
  follows a byte from the pin to the reader:
  - `TurnsInv`: one process has the device, and one of handler, tasklet and process moves at
    a time, in that order.
  - `PipeInv`: at most one byte is under way; it is in the buffer (`InBuffer`), with
    somebody to fetch it, or in the tasklet's hand (`InTheHand`), and while it is there is
    room for it on the one page.
  - `TableInv`: the table has the sizes of the sessions and `head` is the next to read; none
    of them is empty, nor is the one that the handler is about to end.
  - `PageInv`: the page holds the last bytes that were stored (`Filled` of them), and
    `read_offset` is where the bytes begin that no session taken from the table has.
  - `ReadInv`: what a call knows of the session it has taken (`Knows`), and that all reads
    that are over returned theirs.

  The last three are claimed until the table is full, as is the property: from then on an
  entry is the sum of several sessions.  `SessionOnPage` and `ReadsAtOnce` are where they
  meet: the session taken is on the page from `read_offset` on, and one copy takes it all,
  so the steps for a list that ends and for a second page never happen.
- `RemovesWhenRead`, assuming `WellMannered`, also when the table is full: by `EnoughInv`.
  What has been returned is at least the pages that were given back, or are about to be, and
  `read_offset` bytes of the next (`Enough`).  `read_offset` comes back to zero with no byte
  read only if a session is empty, hence `Positive`, and with a byte of another page only if
  a read goes on to a second, hence `Sure`.  The bytes of all reads are the length of a
  `FlattenSeq`, whose growth is in `FlatMore`, again by induction over a set.

The disk (`RamDiskProofs`):

- `TypesKept`: `TypeInv` says what a call knows of itself (`Sound`): it moves no
  more than it was asked, has a page while it copies, and as many bytes as it writes.
  `Open` and `Close` change the count of open files; every other step is a `Moves`, for
  which the invariants are proved once.
- `DataInPages` and `MappingsShow`, assuming `Undisturbed`: mappings begin at the disk's
  first page, and if somebody may open the disk write-only then `max_nprocs` is never
  above one (`OneAtATime`).  `DiskFits` alone is not inductive: a
  call that sleeps while it copies must find its whole range in the pages, or in the
  data, when it goes on (`Fits`), and it does because a step only adds pages, at the end
  of the list (`Grown`, `Extended`).  With `OneAtATime`, `TurnInv` says that whoever has
  the disk open has it alone, so that the open that empties it finds no call under way.
- `KeepsFile` and `ReadsData`, assuming `Undisturbed` and `OneAtATime`: by `DataInv`, which
  follows a write and a read page by page: what a call has copied so far is where the
  file says, what it has cleared is so, and what it has not reached yet is as it was.  This is more than the run, in
  which two processes have the disk in turn.

The labs and loading:

- `Noticed` and `WakeUpsKept`: by `WaitInv`, which says that the line has nobody twice
  and that whoever can be woken is in it and between `Prepare` and what follows
  `Test` (`InLine`).  A waker thus always finds a sleeper if there is one
  (`WokenIsOnTheWay`).  What taking one out of a sequence does to it is in `Removal`.
  `TypeCorrect` there is by `TypeOK` itself with the range of what a call has begun to copy.
- `LoadedAlone`: by `ClaimInv`, which says that an exclusive resource has one holder
  (`OneClaim`), that a module which is loaded, or through with its first step, holds what
  it claims (`Claimed`), and that a module which locks gives back only its lock
  (`ExitHolds`); the last is what makes a hand-over of the semaphore safe.
- `TypeCorrect`, `UnloadsClean`, `FailsClean`, `ReturnsOnce` and `CallsFind` of `Modules`:
  by one invariant, `SoundModules`.  It says, for each place a module can be in its init
  function, its error labels or its exit function, what has become of each resource
  (`SoundInv`): those before the place in the list are held, those after it are not had, and
  on the way back the other way round.  That the tables of steps and of what is undone fit
  each other is the content of the proof; where they do not, the exceptions of the four
  properties come out.  `PagesInv` says when a list may still have pages.
- `TypesKept`, `StaysWithin`, `StaysPrivate` of the seekable drivers: by one invariant,
  their conjunction with `CallsHaveFile`: whoever is in a call has a file, and so the
  ramdisk it copies is one in use; `seek_test` makes no `pread` or `pwrite`.  Nothing is
  assumed of processes, files or sizes.
- `ReadsBack`: by `TestInv`: nobody else has the test's file (`FileAlone`), and how far the
  test has come says where its file and its call stand and that its bytes are on the device
  (`Progress`).  In the shared driver `Theirs` may stand in their place, in the one with
  private data nothing may.
- `CountsInBuffer` and `Copies`: by `TypeOK`, `OutputRight` and `Behind`: what is output is
  not beyond the place in the buffer.  A failed write leaves a gap, never a repetition.

Every invariant and every safety action property that a passing run checks is so proved.  Only
model-checked is liveness (`EventuallyDrained`, `SleeperServed`, `DataTaken`, `LockServed`,
`EndsOrStuck`), which the prover does not reach.

## 5. Behaviour found that no run shows

Each of these follows from the code, is present in the models, and is kept out of
the runs that check something else by the manner or parameter named:

- A byte dropped because the buffer is full returns with the lock held
  (`asgn.c:191`), and so does a tasklet that fails to allocate (134, 142): on an SMP
  kernel the next `spin_lock` spins for ever.
- With `Remote` arrivals, `cbuf_end` and `session_end` are read before the lock is
  taken (167-168) and may be stale.
- A read of an empty session copies nothing, finds `read_offset` zero and frees the
  first page (333); the tasklet may then store through the list head (`nonempty`).
- The last part of a session is copied whole, whatever count the caller passed
  (315); a session of a page or more read with a smaller count ends early and the
  rest stays behind.
- `sessions.count--` in a reader and `sessions.count++` in the handler are not
  atomic with each other (303, 185): a NUL between the two halves is lost
  (`between`).
- `num_pages--` and `data_size -= PAGE_SIZE` in a reader (337-338) and what the tasklet adds
  to the two (137, 148) are not atomic either, on one CPU too: the tasklet of an interrupt
  between load and store begins a page that is then not counted (without `between` TLC
  finds `PagesCounted` violated with one process, pages of 2 and four bytes).
- On SMP two processes can both pass the test in `asgn2_open` (244-250), so that more have
  the device open than `max_nprocs`.
- With a limit above one, a read that ends a page frees it (335-336) while another process,
  asleep in `copy_to_user`, is reading it or will go on to it: without `max_nprocs <= 1` TLC
  finds `PagesHeld` violated in the run `readers_wake`.
- With a limit above one, an open resets `fin_reading` for everybody (249): a process that
  has read its session to the end, and would next be told so, goes on to another session.
- `sizes[]` is never reset and nothing compares the sessions with `MAX_SESSIONS` (185,
  197): from the session that reuses an entry on, sizes are sums of several sessions.
- The tasklet writes to the page after the list head, the first, whatever `write_offset`
  says (`asgn.c:124`): once a second page exists, the first is overwritten (`one_page`).
- A read that comes when only a part of a session is stored returns the part, and the rest
  is taken for the next session (`asgn.c:292`, `patient`).
- A write to the disk sleeps while it copies; a process that opens the disk write-only
  meanwhile frees the pages, and the write then counts bytes that are in no page
  (`asgn1.c:302-306`).  `disk_pair` has no write-only opens.
- A write to the disk whose buffer turns out invalid clears bytes that it was not asked to
  write: at the beginning of every later page, up to the number it had left
  (`asgn1.c:282`, the loop goes on with the same count).  `Cleared` says which.
- A `pread` or `pwrite` that starts behind the end of a seekable ramdisk goes on copying
  there: the negative `maxbytes` counts as large (`lab03/seek/seek.c:81`, 97;
  `lab04/private_data/seek.c:95`, 112).  "Watch out for going off the end of the device"
  (`lab03/seek/seek.c:25`) is kept by the other calls: `WithinDevice` names the exception.
- A write to the full ramdisk of lab03/wait stores nothing and announces data all the same
  (`lab_miscdev.h:87`, `wait_event.c:85-86`); the reader it wakes reads nothing.
- In lab03/wait a reader that was woken and has a signal pending returns before it
  clears `data_ready` (`wait_event.c:72`): the next sleeper is not woken until the next
  write.  `NoLostWakeup` there says that this is the only way to lose a wake-up.

Load and unload: the properties of `Modules` name these as the exceptions, and hold
because there are no others.

- In both asgn modules a failure before `INIT_LIST_HEAD` (`asgn.c:452`, 459; `asgn1.c:424`,
  430) goes to the label that walks the list, which is not yet one: insmod crashes
  (`FailedClean`).  So it does when `cdev_alloc` fails, which is not tested.
- `gpiochip_find` is not tested either (`gpio.c:119-121`): where it finds no chip, insmod of
  asgn2 crashes with the region, the device and the proc entry registered (`FailedClean`).
- If the proc entry cannot be made, init returns at once (`asgn.c:464`, `asgn1.c:435`) and
  leaves the region and the device, whose operations are in a module that is gone
  (`FailedClean`).
- If the device node cannot be made, the class is destroyed twice, and asgn2 leaves its
  interrupt requested (`asgn.c:491`, 497; `ReturnedOnce`, `FailedClean`), whose tasklet may
  then leave a page in the list of the module that is gone.
- `gpio_dummy_init` falls through to its failure label and frees the pins (`gpio.c:145`);
  exit frees them again (`ReturnedOnce`).
- Exit does not kill the tasklet; one that runs late may allocate a page that nobody frees
  (`UnloadedClean`).
- A failing `misc_register` leaves the ramdisk of lab03/wait (`FailedClean`).  That of the
  seekable drivers is not tested when allocated (`CallsFindData`), nor is the entry in
  `list.c`.
- A write to my_proc that is not three numbers leaves its buffer allocated
  (`my_proc.c:32-35`, `UnloadedClean`).

In `my_cat` the branch for a failed write is never taken, since -1 counts as the largest
`size_t` (`my_cat.c:45`): what the write should have output is lost and the exit status is
0.  `OutputRight` therefore promises completeness only while no write has failed.  An output that
takes nothing is written to for ever (`EndsOrStuck`).

## 6. Not modelled, and the plan

1. Readers on an SMP kernel, beyond the limit: what a property can promise there is little,
   but `TypeCorrectReaders` covers it.  The disk of asgn1 has the same two steps in its open
   (`asgn1.c:107`); `RamDisk` models the one CPU of the board.
2. What `fin_reading` owes to each process when several have the device: it needs a record
   of who has read a session to its end, which the driver does not keep.

Left out for good: what the proc entries print and parse (counters shown, three numbers
that nothing else uses), `taints.c` (no state), the test binaries, the test programs other than
`seek_test.c`, whose expectations are properties here, and `kmalloc(GFP_KERNEL)` sleeping
inside the tasklet, which is an error whatever the interleaving.
