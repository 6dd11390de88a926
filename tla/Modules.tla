------------------------------- MODULE Modules -------------------------------
(***************************************************************************)
(* Loading and unloading: what the init function of each kernel module of  *)
(* this repository acquires, in which order, what it gives back when a     *)
(* step fails, what its exit function gives back, and who may call into    *)
(* the module meanwhile.  insmod and rmmod of different modules interleave *)
(* at every step, with interrupts, open files and signals.                 *)
(***************************************************************************)
EXTENDS Integers, Sequences

CONSTANTS
  Groups,          \* sets of modules that are used together
  MaxFiles,        \* bound: how many files of a module are open at once
  MaxPages,        \* bound: how many pages its list holds
  MayFail          \* the steps of an init function that may fail

Modules == UNION Groups
Resources == {"region", "major700", "cdev", "add", "proc", "pins", "irq", "class",
              "device", "ramdisk", "misc", "mutex", "semaphore", "entries", "str"}
Exclusive == {"major700", "mutex", "semaphore"}

\* gpio_free_array, which frees the pins at the end of gpio_dummy_init, cannot fail.
ASSUME ModulesAssumption ==
  /\ MaxFiles \in Nat /\ MaxPages \in Nat
  /\ MayFail \subseteq Resources \cup {"irq_number", "gpiochip"}

VARIABLES
  here,            \* the modules of this machine
  st,              \* of each module: out, init, waits (for a lock), live, exit,
                   \* fail (init is giving back), failed, oops (insmod crashed)
  todo,            \* what its init or exit function still has to do
  res,             \* what became of each resource since it was last loaded
  files, pages,    \* its open files, the pages of its list
  tasklet,         \* asgn2's tasklet is scheduled
  late             \* ghost: it has run after its pages had been freed for good

vars == <<here, st, todo, res, files, pages, tasklet, late>>
working == <<here, files, pages, tasklet, late>>

-----------------------------------------------------------------------------
(* What the init functions do, step by step, and the exit functions.       *)

\* gpiochip and irq_number are looked up, not acquired.
GpioInit == <<"gpiochip", "pins", "irq_number", "irq", "unpin">>
GpioExit == <<"irq", "pins">>

Asgn1Init == <<"region", "cdev", "add", "proc", "class", "device">>
Asgn1Exit == <<"device", "class", "pages", "region", "proc", "cdev">>
Asgn1Fail == <<"class", "pages", "region", "class", "proc", "cdev">>
\* (The mutant asks for the interrupt before anything is set up.)
IrqFirst == GpioInit \o <<"region", "cdev", "add", "proc", "class", "device">>
Asgn2Init == <<"region", "cdev", "add", "proc">> \o GpioInit \o <<"class", "device">>
\* (The mutant copies the error path.)
Asgn2ExitCopied == GpioExit \o <<"device", "class", "pages", "region", "class", "proc", "cdev">>
Asgn2Exit == GpioExit \o <<"device", "class", "pages", "region", "proc", "cdev">>
Asgn2Fail == <<"class", "pages", "region", "class", "proc", "cdev">>

Lab03Init == <<"major700", "cdev", "ramdisk", "add">>
\* (The mutant keeps the ramdisk.)
Lab03ExitShort == <<"cdev", "major700">>
Lab03Exit == <<"cdev", "major700", "ramdisk">>
Lab04Init == <<"major700", "cdev", "add">>
Lab04Exit == <<"cdev", "major700">>

MiscInit == <<"ramdisk", "misc">>
MiscExit == <<"misc", "ramdisk">>
ProcInit == <<"proc">>
ProcExit == <<"proc">>
MyProcInit == <<"proc">>
MyProcExit == <<"proc">>
ListInit == <<"entries">>
ListExit == <<"entries">>

\* (The mutant forgets to unlock.)
MutexKept == <<>>
Mutex1Init == <<>>
Mutex1Exit == <<>>
Mutex2Init == <<"mutex">>
Mutex2Exit == <<"mutex">>
Mutex3Init == <<"mutex">>
Mutex3Exit == <<"mutex">>
Semaphore1Init == <<>>
Semaphore1Exit == <<>>
Semaphore2Init == <<"semaphore">>
Semaphore2Exit == <<"semaphore">>
Semaphore3Init == <<"semaphore">>
Semaphore3Exit == <<"semaphore">>

InitOf == [asgn1 |-> Asgn1Init, asgn2 |-> Asgn2Init,
           lab03_seek |-> Lab03Init, lab04_seek |-> Lab04Init,
           wait_event |-> MiscInit, lab4_proc |-> ProcInit, my_proc |-> MyProcInit,
           list |-> ListInit,
           mutex1 |-> Mutex1Init, mutex2 |-> Mutex2Init, mutex3 |-> Mutex3Init,
           semaphore1 |-> Semaphore1Init, semaphore2 |-> Semaphore2Init,
           semaphore3 |-> Semaphore3Init]
ExitOf == [asgn1 |-> Asgn1Exit, asgn2 |-> Asgn2Exit,
           lab03_seek |-> Lab03Exit, lab04_seek |-> Lab04Exit,
           wait_event |-> MiscExit, lab4_proc |-> ProcExit, my_proc |-> MyProcExit,
           list |-> ListExit,
           mutex1 |-> Mutex1Exit, mutex2 |-> Mutex2Exit, mutex3 |-> Mutex3Exit,
           semaphore1 |-> Semaphore1Exit, semaphore2 |-> Semaphore2Exit,
           semaphore3 |-> Semaphore3Exit]

ASSUME GroupsAssumption == Groups \subseteq SUBSET DOMAIN InitOf

\* What init gives back when step r fails.  create_proc_entry's failure returns at
\* once in both asgn modules.
Asgn1Undo(r) == IF r = "proc" THEN <<>> ELSE Asgn1Fail
GpioUndo(r) == IF r \in {"irq_number", "irq"} THEN <<"pins">> ELSE <<>>
Asgn2Undo(r) == IF r = "proc" THEN <<>> ELSE GpioUndo(r) \o Asgn2Fail
\* (The mutant forgets the character device region.)
Lab03UndoShort(r) == IF r = "add" THEN <<"cdev", "ramdisk">> ELSE <<>>
Lab03Undo(r) == CASE r = "add" -> <<"cdev", "major700", "ramdisk">>
                  [] r = "cdev" -> <<"major700">>
                  [] OTHER -> <<>>
Lab04Undo(r) == CASE r = "add" -> <<"cdev", "major700">>
                  [] r = "cdev" -> <<"major700">>
                  [] OTHER -> <<>>
Undo(m, r) == CASE m = "asgn1" -> Asgn1Undo(r)
                [] m = "asgn2" -> Asgn2Undo(r)
                [] m = "lab03_seek" -> Lab03Undo(r)
                [] m = "lab04_seek" -> Lab04Undo(r)
                [] OTHER -> <<>>

Asgn == {"asgn1", "asgn2"}

\* kmalloc of a ramdisk and class_create are not checked: init goes on.
Unnoticed(r) == r \in {"ramdisk", "class"}
\* cdev_alloc in the asgn modules, gpiochip_find and kmalloc in list are not checked
\* either, and what they return is used at once.
Crashes(m, r) == r \in {"entries", "gpiochip"} \/ (m \in Asgn /\ r = "cdev")

-----------------------------------------------------------------------------

Fresh == [r \in Resources |-> "never"]

Init == /\ here \in Groups
        /\ st = [m \in Modules |-> "out"]
        /\ todo = [m \in Modules |-> <<>>]
        /\ res = [m \in Modules |-> Fresh]
        /\ files = [m \in Modules |-> 0] /\ pages = [m \in Modules |-> 0]
        /\ tasklet = FALSE /\ late = FALSE

Holds(m) == {r \in Resources : res[m][r] = "held"}
Free(r) == \A n \in Modules : r \notin Holds(n)
Locks(m) == CASE m \in {"mutex2", "mutex3"} -> {"mutex"}
              [] m \in {"semaphore2", "semaphore3"} -> {"semaphore"}
              [] OTHER -> {}

\* The module that exports the lock another one uses.
Exporter(m) == CASE m \in {"mutex2", "mutex3"} -> {"mutex1"}
                 [] m \in {"semaphore2", "semaphore3"} -> {"semaphore1"}
                 [] OTHER -> {}
Away(m) == st[m] \in {"out", "failed"}

\* insmod, of a module that left nothing behind.
Load(m) ==
  /\ Away(m) /\ Holds(m) = {} /\ pages[m] = 0 /\ ~(m = "asgn2" /\ tasklet)
  /\ \A n \in Exporter(m) : st[n] = "live"
  /\ st' = [st EXCEPT ![m] = "init"]
  /\ todo' = [todo EXCEPT ![m] = InitOf[m]]
  /\ res' = [res EXCEPT ![m] = Fresh] /\ late' = (late /\ m # "asgn2")
  /\ UNCHANGED <<here, files, pages, tasklet>>

Step(m) == Head(todo[m])

\* The next step of init succeeds.
Take(m) ==
  /\ st[m] \in {"init", "waits"} /\ todo[m] # <<>>
  /\ Step(m) \in Exclusive => Free(Step(m))
  /\ Step(m) = "device" => res[m].class = "held"
  /\ res' = [res EXCEPT ![m] =
       [r \in Resources |-> IF r = Step(m) THEN "held"
                            ELSE IF r = "pins" /\ Step(m) = "unpin" THEN "released"
                            ELSE @[r]]]
  /\ st' = [st EXCEPT ![m] = "init"] /\ todo' = [todo EXCEPT ![m] = Tail(@)]
  /\ UNCHANGED working

\* It fails.
StepFails(m) ==
  /\ st[m] = "init" /\ todo[m] # <<>> /\ Step(m) \notin Locks(m)
  /\ \/ Step(m) \in MayFail
     \/ Step(m) = "device" /\ res[m].class # "held"
     \/ Step(m) = "major700" /\ ~Free("major700")
  /\ IF Unnoticed(Step(m))
     THEN todo' = [todo EXCEPT ![m] = Tail(@)] /\ UNCHANGED st
     ELSE /\ todo' = [todo EXCEPT ![m] = Undo(m, Step(m))]
          /\ st' = [st EXCEPT ![m] = IF Crashes(m, Step(m)) THEN "oops" ELSE "fail"]
  /\ UNCHANGED <<res, working>>

\* mutex_lock_interruptible, down_interruptible: sleep while another has it; a signal
\* ends that, and init fails.
Sleep(m) ==
  /\ st[m] = "init" /\ todo[m] # <<>> /\ Step(m) \in Locks(m) /\ ~Free(Step(m))
  /\ st' = [st EXCEPT ![m] = "waits"]
  /\ UNCHANGED <<todo, res, working>>
\* (The mutant does not look at what the lock function returned.)
SignalIgnored(m) ==
  /\ st[m] = "waits"
  /\ st' = [st EXCEPT ![m] = "init"] /\ todo' = [todo EXCEPT ![m] = <<>>]
  /\ UNCHANGED <<res, working>>
Signal(m) ==
  /\ st[m] = "waits"
  /\ st' = [st EXCEPT ![m] = "fail"] /\ todo' = [todo EXCEPT ![m] = <<>>]
  /\ UNCHANGED <<res, working>>

Loaded(m) ==
  /\ st[m] = "init" /\ todo[m] = <<>>
  /\ st' = [st EXCEPT ![m] = "live"]
  /\ UNCHANGED <<todo, res, working>>

\* rmmod: refused while a file is open or another module uses this one.
Unload(m) ==
  /\ st[m] = "live" /\ files[m] = 0
  /\ \A n \in here : m \in Exporter(n) => Away(n)
  /\ st' = [st EXCEPT ![m] = "exit"]
  /\ todo' = [todo EXCEPT ![m] = ExitOf[m]]
  /\ UNCHANGED <<res, working>>

-----------------------------------------------------------------------------
(* Giving back, in exit or after a failed step.                            *)

Leaving(m) == st[m] \in {"fail", "exit"} /\ todo[m] # <<>>

\* What was never had is not given back: NULL, an error pointer, a pointer tested first.
Once(s) == CASE s = "held" -> "released" [] s = "released" -> "twice" [] OTHER -> s
\* cdev_del also ends the device that cdev_add made reachable.
Returns(r) == IF r = "cdev" THEN {"cdev", "add"} ELSE {r}
Without(m) == [r \in Resources |-> IF r \in Returns(Step(m)) THEN Once(res[m][r]) ELSE res[m][r]]

Waiters(r) == {n \in here : st[n] = "waits" /\ r \in Locks(n)}

Release(m) ==
  /\ Leaving(m) /\ Step(m) # "pages"
  /\ Step(m) = "semaphore" => Waiters("semaphore") = {}
  /\ res' = [res EXCEPT ![m] = Without(m)]
  /\ todo' = [todo EXCEPT ![m] = Tail(@)]
  /\ UNCHANGED <<st, working>>

\* up() gives the semaphore to one that waits; a mutex is free for whoever comes first.
HandOver(m, n) ==
  /\ Leaving(m) /\ Step(m) = "semaphore" /\ "semaphore" \in Locks(m)
  /\ n \in Waiters("semaphore")
  /\ res' = [res EXCEPT ![m] = Without(m), ![n].semaphore = "held"]
  /\ st' = [st EXCEPT ![n] = "init"]
  /\ todo' = [todo EXCEPT ![m] = Tail(@), ![n] = Tail(@)]
  /\ UNCHANGED working

\* free_memory_pages walks the list, which INIT_LIST_HEAD set up after cdev_add; before
\* that the walk follows a NULL pointer.
ListReady(m) == res[m].add # "never"
FreePages(m) ==
  /\ Leaving(m) /\ Step(m) = "pages"
  /\ IF ListReady(m)
     THEN pages' = [pages EXCEPT ![m] = 0] /\ UNCHANGED st
     ELSE st' = [st EXCEPT ![m] = "oops"] /\ UNCHANGED pages
  /\ todo' = [todo EXCEPT ![m] = Tail(@)]
  /\ UNCHANGED <<here, res, files, tasklet, late>>

Gone(m) ==
  /\ st[m] \in {"fail", "exit"} /\ todo[m] = <<>>
  /\ st' = [st EXCEPT ![m] = IF @ = "fail" THEN "failed" ELSE "out"]
  /\ UNCHANGED <<todo, res, working>>

-----------------------------------------------------------------------------
(* Who calls into a module while it is loaded.                             *)

Devices == Asgn \cup {"lab03_seek", "lab04_seek", "wait_event"}

\* The asgn modules have a device node only once device_create has made it.
Open(m) ==
  /\ m \in Devices /\ st[m] \in {"init", "live"} /\ files[m] < MaxFiles
  /\ Holds(m) \cap {"add", "misc"} # {} /\ (m \in Asgn => "device" \in Holds(m))
  /\ files' = [files EXCEPT ![m] = @ + 1]
  /\ UNCHANGED <<here, st, todo, res, pages, tasklet, late>>
Close(m) ==
  /\ files[m] > 0 /\ files' = [files EXCEPT ![m] = @ - 1]
  /\ UNCHANGED <<here, st, todo, res, pages, tasklet, late>>
\* Writing to the disk adds pages, reading asgn2 removes them.  (The mutant removes one
\* when there is none.)
UseBelow(m) ==
  /\ m \in Asgn /\ files[m] > 0
  /\ pages' = [pages EXCEPT ![m] = @ - 1]
  /\ UNCHANGED <<here, st, todo, res, files, tasklet, late>>
Use(m) ==
  /\ m \in Asgn /\ files[m] > 0
  /\ \E n \in 0..(IF m = "asgn1" THEN MaxPages ELSE pages[m]) :
       pages' = [pages EXCEPT ![m] = n]
  /\ UNCHANGED <<here, st, todo, res, files, tasklet, late>>

\* asgn2's interrupt, from request_irq to free_irq, schedules the tasklet, which may run
\* late: on another CPU, or in ksoftirqd.
Interrupt ==
  /\ "asgn2" \in here /\ "irq" \in Holds("asgn2") /\ ~Away("asgn2")
  /\ tasklet' = TRUE
  /\ UNCHANGED <<here, st, todo, res, files, pages, late>>
\* (A load that failed has freed them too, and its interrupt may still be requested.)
PagesFreed ==
  \/ st["asgn2"] \in {"out", "failed"}
  \/ st["asgn2"] \in {"exit", "fail"} /\ \A i \in DOMAIN todo["asgn2"] : todo["asgn2"][i] # "pages"
Tasklet ==
  /\ tasklet /\ tasklet' = FALSE
  /\ \E n \in {pages["asgn2"], pages["asgn2"] + 1} :
       n <= MaxPages /\ pages' = [pages EXCEPT !["asgn2"] = n]
  /\ late' = (late \/ PagesFreed)
  /\ UNCHANGED <<here, st, todo, res, files>>

\* A write to a proc entry puts the text in a buffer and frees that again; my_proc does
\* not when the text is not three numbers.
ProcLeft == {"released"}
MyProcLeft == {"released", "held"}
ProcWrite(m) ==
  /\ m \in {"lab4_proc", "my_proc"} /\ st[m] \in {"init", "live"} /\ "proc" \in Holds(m)
  /\ \E left \in (IF m = "my_proc" THEN MyProcLeft ELSE ProcLeft) :
       res' = [res EXCEPT ![m].str = IF @ = "held" THEN @ ELSE left]
  /\ UNCHANGED <<st, todo, working>>

-----------------------------------------------------------------------------

\* What insmod and rmmod do once begun.
Continue(m) ==
  \/ Take(m) \/ StepFails(m) \/ Sleep(m) \/ Loaded(m)
  \/ Release(m) \/ (\E n \in here : HandOver(m, n)) \/ FreePages(m) \/ Gone(m)

Next == \/ \E m \in here :
             \/ Load(m) \/ Unload(m) \/ Continue(m) \/ Signal(m)
             \/ Open(m) \/ Close(m) \/ Use(m) \/ ProcWrite(m)
        \/ Interrupt \/ Tasklet

Spec == Init /\ [][Next]_vars
\* insmod and rmmod go on; nobody has to start them, and no signal need come.
FairSpec == Spec /\ \A m \in Modules : WF_vars(m \in here /\ Continue(m))

-----------------------------------------------------------------------------
(* Properties.                                                             *)

TypeOK ==
  /\ here \in Groups /\ {tasklet, late} \subseteq BOOLEAN
  /\ st \in [Modules -> {"out", "init", "waits", "live", "exit", "fail", "failed", "oops"}]
  /\ res \in [Modules -> [Resources -> {"never", "held", "released", "twice"}]]
  /\ files \in [Modules -> 0..MaxFiles] /\ pages \in [Modules -> 0..MaxPages]

\* A module that was loaded and unloaded leaves nothing registered and no memory ("make
\* sure you remove the entry when you unload", lab04/proc/proc.c:32), but for what a
\* write to my_proc lost, and the page of a tasklet that ran after asgn2's had been freed.
UnloadedClean ==
  \A m \in Modules : st[m] = "out" =>
    /\ Holds(m) \subseteq (IF m = "my_proc" THEN {"str"} ELSE {})
    /\ pages[m] = 0 \/ (m = "asgn2" /\ late)

\* A load that failed leaves nothing either, but in these cases: asgn when its proc entry
\* cannot be made, asgn2's interrupt when its device cannot, and then also the page of a
\* tasklet that this interrupt scheduled, the ramdisk of lab_miscdev.  insmod crashes only
\* in list, in asgn before its page list is set up, and in asgn2 where there is no GPIO
\* chip: by then its region, device and proc entry are there, and nobody takes them back.
FailedClean ==
  \A m \in Modules :
    /\ st[m] = "failed" =>
         /\ \/ Holds(m) = {}
            \/ m \in Asgn /\ Holds(m) = {"region", "cdev", "add"}
            \/ m = "asgn2" /\ Holds(m) = {"irq"}
            \/ m = "wait_event" /\ Holds(m) = {"ramdisk"}
         /\ pages[m] = 0 \/ (m = "asgn2" /\ late /\ Holds(m) = {"irq"})
    /\ st[m] = "oops" =>
         \/ m = "list"
         \/ m \in Asgn /\ ~ListReady(m)
         \/ m = "asgn2" /\ Holds(m) = {"region", "cdev", "add", "proc"}

\* Nothing is given back twice but the class when asgn's device cannot be made, and the
\* pins, freed at load, when asgn2 is unloaded.
ReturnedOnce ==
  \A m \in Modules, r \in Resources : res[m][r] = "twice" =>
    \/ m \in Asgn /\ r = "class" /\ st[m] \in {"fail", "failed"}
    \/ m = "asgn2" /\ r = "pins" /\ st[m] \in {"exit", "out"}

\* Whoever can call into a module finds what the call will use: an interrupt the list
\* and the buffer, an open file the list or the ramdisk that was allocated.
CallsFindData ==
  /\ \A m \in Asgn \cap Modules :
       files[m] > 0 \/ ("irq" \in Holds(m) /\ st[m] # "failed") => ListReady(m)
  /\ \A m \in {"lab03_seek", "wait_event"} \cap Modules :
       files[m] > 0 \/ (Holds(m) \cap {"add", "misc"} # {} /\ st[m] # "failed") =>
         \/ res[m].ramdisk = "held"
         \/ res[m].ramdisk = "never" /\ (st[m] = "init" => todo[m] = <<>>)

\* Of the modules that lock in init one at most is loaded (lab4_mutex2.c:41,
\* semaphore2.c:39), and of the drivers that claim major 700.
OneHolder ==
  \A m, n \in Modules : m # n /\ st[m] = "live" /\ st[n] = "live" =>
    Locks(m) \cap Locks(n) = {} /\ {m, n} # {"lab03_seek", "lab04_seek"}

\* An insmod that waits is no longer alone once the holder is being unloaded: it, or
\* another that was quicker, gets the lock, or it was interrupted.
Unlocked(m) == \A n \in Modules : Locks(m) \cap Holds(n) # {} => st[n] \in {"exit", "out"}
LockServed == \A m \in Modules : (st[m] = "waits" /\ Unlocked(m)) ~> (st[m] # "waits" \/ ~Unlocked(m))
=============================================================================
