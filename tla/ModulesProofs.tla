--------------------------- MODULE ModulesProofs ---------------------------
(***************************************************************************)
(* Proofs about loading and unloading, whichever modules are used together *)
(* and whichever steps of init functions fail: of the modules that claim   *)
(* the same lock, or major 700, one at most is loaded; what init, exit and *)
(* the error paths take and give back.                                     *)
(***************************************************************************)
EXTENDS Modules, SequenceTheorems, TLAPS

\* What a module must have before it is live, the first thing its init takes.
Claims(m) == Locks(m) \cup (IF m \in {"lab03_seek", "lab04_seek"} THEN {"major700"} ELSE {})

\* Nobody shares what is exclusive.
OneClaim ==
  \A m, n \in Modules, r \in Exclusive :
    res[m][r] = "held" /\ res[n][r] = "held" => m = n

\* A module that is being loaded has its claim, or has not begun; a live one has it.
Claimed ==
  \A m \in Modules : \A r \in Claims(m) :
    /\ st[m] = "live" => res[m][r] = "held"
    /\ st[m] \in {"init", "waits"} => res[m][r] = "held" \/ todo[m] = InitOf[m]

\* A module that locked has the lock when it unlocks, which is all its exit does; when
\* its init fails there is nothing to give back.
ExitHolds ==
  \A m \in Modules : \A r \in Locks(m) :
    /\ st[m] = "exit" => todo[m] = <<>> \/ (todo[m] = <<r>> /\ res[m][r] = "held")
    /\ st[m] = "fail" => todo[m] = <<>>

States == {"out", "init", "waits", "live", "exit", "fail", "failed", "oops"}
Fates == {"never", "held", "released", "twice"}
Shapes ==
  /\ st \in [Modules -> States]
  /\ res \in [Modules -> [Resources -> Fates]]
  /\ todo = [m \in Modules |-> todo[m]]

ClaimInv == Shapes /\ OneClaim /\ Claimed /\ ExitHolds

-----------------------------------------------------------------------------
(* The tables.                                                             *)

LEMMA ClaimsFirst ==
  ASSUME NEW m, NEW r \in Claims(m)
  PROVE  /\ InitOf[m] # <<>> /\ Head(InitOf[m]) = r
         /\ r \in Exclusive /\ r \in Resources /\ ~Unnoticed(r)
  BY DEF Claims, Locks, InitOf, Lab03Init, Lab04Init, Mutex2Init, Mutex3Init,
         Semaphore2Init, Semaphore3Init, Exclusive, Resources, Unnoticed

LEMMA LockTables ==
  ASSUME NEW m, NEW r \in Locks(m)
  PROVE  /\ InitOf[m] = <<r>> /\ ExitOf[m] = <<r>>
         /\ \A q : Undo(m, q) = <<>>
         /\ Locks(m) = {r} /\ r \in Claims(m) /\ r \in Exclusive /\ r \in Resources
  BY DEF Claims, Locks, InitOf, ExitOf, Mutex2Init, Mutex3Init, Mutex2Exit, Mutex3Exit,
         Semaphore2Init, Semaphore3Init, Semaphore2Exit, Semaphore3Exit,
         Exclusive, Resources, Undo

LEMMA SameClaim ==
  ASSUME NEW m, NEW n,
         Locks(m) \cap Locks(n) # {} \/ {m, n} = {"lab03_seek", "lab04_seek"}
  PROVE  \E r \in Exclusive : r \in Claims(m) /\ r \in Claims(n)
<1>1. CASE Locks(m) \cap Locks(n) # {}
  BY <1>1, LockTables DEF Claims
<1>2. CASE {m, n} = {"lab03_seek", "lab04_seek"}
  <2>1. m \in {"lab03_seek", "lab04_seek"} /\ n \in {"lab03_seek", "lab04_seek"}
    BY <1>2
  <2> QED BY <2>1 DEF Claims, Exclusive
<1> QED BY <1>1, <1>2

LEMMA OneChanged ==
  ASSUME NEW f, NEW S, f = [x \in S |-> f[x]], NEW a \in S, NEW v,
         NEW g, g = [f EXCEPT ![a] = v]
  PROVE  /\ g = [x \in S |-> g[x]] /\ g[a] = v
         /\ \A b \in S : b # a => g[b] = f[b]
  OBVIOUS

LEMMA TailOfOne ==
  ASSUME NEW r PROVE Tail(<<r>>) = <<>>
  OBVIOUS

-----------------------------------------------------------------------------
(* The steps.                                                              *)

\* Steps that change neither st, todo nor anything exclusive.
LEMMA Aside ==
  ASSUME ClaimInv, UNCHANGED <<st, todo>>,
         Shapes',
         \A m \in Modules, r \in Exclusive : res'[m][r] = res[m][r]
  PROVE  ClaimInv'
<1>1. OneClaim' /\ ExitHolds'
  BY LockTables DEF ClaimInv, OneClaim, ExitHolds
<1>2. Claimed'
  BY ClaimsFirst DEF ClaimInv, Claimed
<1> QED BY <1>1, <1>2 DEF ClaimInv

LEMMA LoadStep ==
  ASSUME ClaimInv, NEW m \in Modules, Load(m)
  PROVE  ClaimInv'
<1> USE DEF ClaimInv
<1>1. /\ st' = [st EXCEPT ![m] = "init"] /\ todo' = [todo EXCEPT ![m] = InitOf[m]]
      /\ res' = [res EXCEPT ![m] = Fresh]
  BY DEF Load
<1>2. Shapes'
  BY <1>1 DEF Shapes, Fresh, States, Fates
<1>3. \A n \in Modules, r \in Exclusive : res'[n][r] = "held" => n # m /\ res'[n] = res[n]
  BY <1>1 DEF Shapes, Fresh, Exclusive, Resources
<1>4. OneClaim'
  BY <1>3 DEF OneClaim
<1>5. Claimed'
  BY <1>1 DEF Claimed, Shapes
<1>6. ExitHolds'
  BY <1>1 DEF ExitHolds, Shapes
<1> QED BY <1>2, <1>4, <1>5, <1>6

LEMMA TakeStep ==
  ASSUME ClaimInv, NEW m \in Modules, Take(m)
  PROVE  ClaimInv'
<1> USE DEF ClaimInv
<1> DEFINE s == Step(m)
<1>1. /\ st[m] \in {"init", "waits"} /\ todo[m] # <<>>
      /\ st' = [st EXCEPT ![m] = "init"] /\ todo' = [todo EXCEPT ![m] = Tail(@)]
      /\ s \in Exclusive => Free(s)
  BY DEF Take
<1>2. /\ \A n \in Modules : n # m => res'[n] = res[n]
      /\ \A r \in Resources : r # "pins" => res'[m][r] = IF r = s THEN "held" ELSE res[m][r]
  BY DEF Take, Shapes
<1>3. Shapes'
  <2>1. res' \in [Modules -> [Resources -> Fates]]
    BY DEF Take, Shapes, Fates
  <2> QED BY <1>1, <2>1 DEF Shapes, States
<1>4. "pins" \notin Exclusive /\ Exclusive \subseteq Resources
  BY DEF Exclusive, Resources
<1>5. OneClaim'
  BY <1>1, <1>2, <1>4 DEF OneClaim, Free, Holds
<1>6. Claimed'
  <2> SUFFICES ASSUME NEW n \in Modules, NEW r \in Claims(n)
               PROVE  /\ st'[n] = "live" => res'[n][r] = "held"
                      /\ st'[n] \in {"init", "waits"} => res'[n][r] = "held" \/ todo'[n] = InitOf[n]
    BY DEF Claimed
  <2>1. CASE n # m
    BY <2>1, <1>1, <1>2 DEF Claimed, Shapes
  <2>2. CASE n = m
    <3>1. r \in Exclusive /\ (todo[m] = InitOf[m] => s = r)
      BY <2>2, ClaimsFirst DEF Step
    <3>2. res'[m][r] = "held"
      BY <2>2, <3>1, <1>1, <1>2, <1>4 DEF Claimed
    <3> QED BY <2>2, <3>2
  <2> QED BY <2>1, <2>2
<1>7. ExitHolds'
  BY <1>1, <1>2 DEF ExitHolds, Shapes
<1> QED BY <1>3, <1>5, <1>6, <1>7

LEMMA FailStep ==
  ASSUME ClaimInv, NEW m \in Modules, StepFails(m)
  PROVE  ClaimInv'
<1> USE DEF ClaimInv
<1>1. /\ st[m] = "init" /\ todo[m] # <<>> /\ Step(m) \notin Locks(m) /\ res' = res
  BY DEF StepFails
<1>2. \A r \in Claims(m) : ~Unnoticed(Step(m)) \/ res[m][r] = "held"
  BY <1>1, ClaimsFirst DEF Claimed, Step
<1>3. \/ UNCHANGED st /\ todo' = [todo EXCEPT ![m] = Tail(@)] /\ Unnoticed(Step(m))
      \/ /\ st' \in {[st EXCEPT ![m] = "oops"], [st EXCEPT ![m] = "fail"]}
         /\ todo' = [todo EXCEPT ![m] = Undo(m, Step(m))]
  BY DEF StepFails
<1>4. Shapes' /\ OneClaim'
  <2>1. CASE UNCHANGED st
    BY <2>1, <1>1, <1>3, OneChanged DEF Shapes, OneClaim
  <2>2. CASE ~UNCHANGED st
    <3>1. st' \in [Modules -> States]
      BY <2>2, <1>3 DEF Shapes, States
    <3>2. todo' = [n \in Modules |-> todo'[n]]
      BY <2>2, <1>3 DEF Shapes
    <3> QED BY <1>1, <3>1, <3>2 DEF Shapes, OneClaim
  <2> QED BY <2>1, <2>2
<1>5. Claimed'
  BY <1>1, <1>2, <1>3 DEF Claimed, Shapes
<1>6. ExitHolds'
  BY <1>1, <1>3, LockTables DEF ExitHolds, Shapes
<1> QED BY <1>4, <1>5, <1>6

\* Sleep, Signal, Loaded, Gone: only the state and what is to be done changes.
LEMMA StateStep ==
  ASSUME ClaimInv, NEW m \in Modules, Sleep(m) \/ Signal(m) \/ Loaded(m) \/ Gone(m)
  PROVE  ClaimInv'
<1> USE DEF ClaimInv
<1>1. /\ res' = res /\ \E v \in States : st' = [st EXCEPT ![m] = v]
      /\ todo' = todo \/ todo' = [todo EXCEPT ![m] = <<>>]
  BY DEF Sleep, Signal, Loaded, Gone, States
<1>4. st' \in [Modules -> States] /\ todo' = [n \in Modules |-> todo'[n]]
  BY <1>1 DEF Shapes
<1>5. Shapes' /\ OneClaim'
  BY <1>1, <1>4 DEF Shapes, OneClaim
<1>2. \A n \in Modules : n # m => st'[n] = st[n] /\ todo'[n] = todo[n]
  BY DEF Sleep, Signal, Loaded, Gone, Shapes
<1>3. Claimed' /\ ExitHolds'
  <2>1. CASE Sleep(m)
    BY <2>1, <1>1, <1>2 DEF Sleep, Claimed, ExitHolds, Shapes
  <2>2. CASE Signal(m)
    BY <2>2, <1>1, <1>2 DEF Signal, Claimed, ExitHolds, Shapes
  <2>3. CASE Loaded(m)
    BY <2>3, <1>1, <1>2, ClaimsFirst DEF Loaded, Claimed, ExitHolds, Shapes
  <2>4. CASE Gone(m)
    BY <2>4, <1>1, <1>2 DEF Gone, Claimed, ExitHolds, Shapes
  <2> QED BY <2>1, <2>2, <2>3, <2>4
<1> QED BY <1>5, <1>3

LEMMA UnloadStep ==
  ASSUME ClaimInv, NEW m \in Modules, Unload(m)
  PROVE  ClaimInv'
<1> USE DEF ClaimInv
<1>1. /\ st[m] = "live" /\ res' = res
      /\ st' = [st EXCEPT ![m] = "exit"] /\ todo' = [todo EXCEPT ![m] = ExitOf[m]]
  BY DEF Unload
<1>2. Shapes' /\ OneClaim'
  BY <1>1 DEF Shapes, OneClaim, States
<1>3. Claimed'
  BY <1>1 DEF Claimed, Shapes
<1>4. ExitHolds'
  BY <1>1, LockTables DEF ExitHolds, Claimed, Shapes
<1> QED BY <1>2, <1>3, <1>4

LEMMA GivesBack ==
  ASSUME Shapes, NEW m \in Modules
  PROVE  /\ Without(m) \in [Resources -> Fates]
         /\ \A r \in Resources : Without(m)[r] = "held" => res[m][r] = "held"
<1>1. \A s \in Fates : Once(s) \in Fates /\ Once(s) # "held"
  BY DEF Fates, Once
<1> QED BY <1>1 DEF Without, Shapes

LEMMA ReleaseStep ==
  ASSUME ClaimInv, NEW m \in Modules, Release(m)
  PROVE  ClaimInv'
<1> USE DEF ClaimInv
<1>1. /\ st' = st /\ todo' = [todo EXCEPT ![m] = Tail(@)]
      /\ st[m] \in {"fail", "exit"} /\ todo[m] # <<>>
      /\ res' = [res EXCEPT ![m] = Without(m)]
  BY DEF Release, Leaving
<1>2. Shapes'
  BY <1>1, GivesBack DEF Shapes
<1>3. \A n \in Modules, r \in Resources : res'[n][r] = "held" => res[n][r] = "held"
  BY <1>1, GivesBack DEF Shapes
<1>4. OneClaim'
  BY <1>3 DEF OneClaim, Exclusive, Resources
<1>5. Claimed'
  BY <1>1 DEF Claimed, Shapes
<1>6. ExitHolds'
  <2> SUFFICES ASSUME NEW n \in Modules, NEW r \in Locks(n)
               PROVE  /\ st'[n] = "exit" => todo'[n] = <<>> \/ (todo'[n] = <<r>> /\ res'[n][r] = "held")
                      /\ st'[n] = "fail" => todo'[n] = <<>>
    BY DEF ExitHolds
  <2>1. CASE n = m
    <3>1. todo[m] = <<r>>
      BY <2>1, <1>1 DEF ExitHolds
    <3>2. todo'[m] = <<>>
      BY <3>1, <1>1, TailOfOne DEF Shapes
    <3> QED BY <2>1, <3>2
  <2>2. CASE n # m
    BY <2>2, <1>1 DEF ExitHolds, Shapes
  <2> QED BY <2>1, <2>2
<1> QED BY <1>2, <1>4, <1>5, <1>6

LEMMA HandOverStep ==
  ASSUME ClaimInv, NEW m \in Modules, NEW n \in Modules, HandOver(m, n)
  PROVE  ClaimInv'
<1> USE DEF ClaimInv
<1>1. /\ st' = [st EXCEPT ![n] = "init"]
      /\ todo' = [todo EXCEPT ![m] = Tail(@), ![n] = Tail(@)]
      /\ st[m] \in {"fail", "exit"} /\ todo[m] # <<>> /\ st[n] = "waits"
      /\ "semaphore" \in Locks(m) /\ "semaphore" \in Locks(n) /\ m # n
      /\ res' = [res EXCEPT ![m] = Without(m), ![n].semaphore = "held"]
  BY DEF HandOver, Leaving, Waiters
<1>2. todo[m] = <<"semaphore">> /\ res[m].semaphore = "held"
  BY <1>1 DEF ExitHolds
<1>3. Without(m).semaphore # "held"
  BY <1>2 DEF Without, Returns, Step, Once, Resources
<1>4. Shapes'
  <2>1. st' \in [Modules -> States] /\ todo' = [k \in Modules |-> todo'[k]]
    BY <1>1 DEF Shapes, States
  <2> DEFINE given == [res EXCEPT ![m] = Without(m)]
  <2>2. given \in [Modules -> [Resources -> Fates]]
    BY GivesBack DEF Shapes
  <2>3. [given[n] EXCEPT !.semaphore = "held"] \in [Resources -> Fates]
    BY <2>2 DEF Fates
  <2>4. res' = [given EXCEPT ![n] = [given[n] EXCEPT !.semaphore = "held"]]
    BY <1>1 DEF Shapes
  <2> QED BY <2>1, <2>2, <2>3, <2>4 DEF Shapes
<1>5. /\ \A k \in Modules : k \notin {m, n} => res'[k] = res[k]
      /\ res'[m] = Without(m)
      /\ \A r \in Resources : res'[n][r] = IF r = "semaphore" THEN "held" ELSE res[n][r]
  BY <1>1 DEF Shapes, Resources
<1>6. OneClaim'
  <2>1. \A k \in Modules : res'[k].semaphore = "held" => k = n
    BY <1>2, <1>3, <1>5 DEF OneClaim, Exclusive
  <2>2. \A k \in Modules, r \in Exclusive :
          r # "semaphore" /\ res'[k][r] = "held" => res[k][r] = "held"
    BY <1>5, GivesBack DEF Exclusive, Resources
  <2> QED BY <2>1, <2>2 DEF OneClaim
<1>7. /\ st'[n] = "init" /\ \A k \in Modules : k # n => st'[k] = st[k]
      /\ todo'[m] = <<>> /\ \A k \in Modules : k \notin {m, n} => todo'[k] = todo[k]
  BY <1>1, <1>2, TailOfOne DEF Shapes
<1>8. Claimed'
  <2>1. Claims(n) = {"semaphore"} /\ res'[n].semaphore = "held"
    BY <1>1, <1>5 DEF Claims, Locks, Resources
  <2>2. \A k \in Modules : k # n => ~(st'[k] \in {"init", "waits", "live"} /\ k = m)
    BY <1>1, <1>7
  <2>3. ASSUME NEW k \in Modules, k # n, k # m, NEW r \in Claims(k)
        PROVE  /\ st'[k] = "live" => res'[k][r] = "held"
               /\ st'[k] \in {"init", "waits"} => res'[k][r] = "held" \/ todo'[k] = InitOf[k]
    BY <2>3, <1>5, <1>7 DEF Claimed
  <2> QED BY <2>1, <2>2, <2>3, <1>7 DEF Claimed
<1>9. ExitHolds'
  <2> SUFFICES ASSUME NEW k \in Modules, NEW r \in Locks(k)
               PROVE  /\ st'[k] = "exit" => todo'[k] = <<>> \/ (todo'[k] = <<r>> /\ res'[k][r] = "held")
                      /\ st'[k] = "fail" => todo'[k] = <<>>
    BY DEF ExitHolds
  <2>1. CASE k = m
    BY <2>1, <1>7
  <2>2. CASE k = n
    BY <2>2, <1>7
  <2>3. CASE k \notin {m, n}
    <3>1. st'[k] = st[k] /\ todo'[k] = todo[k] /\ res'[k] = res[k]
      BY <2>3, <1>5, <1>7
    <3> QED BY <3>1 DEF ExitHolds
  <2> QED BY <2>1, <2>2, <2>3
<1> QED BY <1>4, <1>6, <1>8, <1>9

LEMMA FreeStep ==
  ASSUME ClaimInv, NEW m \in Modules, FreePages(m)
  PROVE  ClaimInv'
<1> USE DEF ClaimInv
<1>1. /\ res' = res /\ todo' = [todo EXCEPT ![m] = Tail(@)]
      /\ st[m] \in {"fail", "exit"} /\ todo[m] # <<>> /\ Head(todo[m]) = "pages"
      /\ st' \in {st, [st EXCEPT ![m] = "oops"]}
  BY DEF FreePages, Leaving, Step
<1>2. Shapes' /\ OneClaim'
  <2>1. st' \in [Modules -> States]
    BY <1>1 DEF Shapes, States
  <2>2. todo' = [n \in Modules |-> todo'[n]]
    BY <1>1 DEF Shapes
  <2> QED BY <1>1, <2>1, <2>2 DEF Shapes, OneClaim
<1>3. Claimed'
  BY <1>1 DEF Claimed, Shapes
<1>4. Locks(m) = {}
  BY <1>1, LockTables DEF ExitHolds, Resources
<1>5. ExitHolds'
  BY <1>1, <1>4 DEF ExitHolds, Shapes
<1> QED BY <1>2, <1>3, <1>5

\* Those who call into a module, and asgn2's interrupt.
LEMMA CallStep ==
  ASSUME ClaimInv, NEW m \in Modules, Open(m) \/ Close(m) \/ Use(m) \/ ProcWrite(m)
  PROVE  ClaimInv'
<1>1. UNCHANGED <<st, todo>>
  BY DEF Open, Close, Use, ProcWrite
<1>2. res' = res \/ \E v \in Fates : res' = [res EXCEPT ![m].str = v]
  BY DEF Open, Close, Use, ProcWrite, ClaimInv, Shapes, ProcLeft, MyProcLeft, Resources, Fates
<1>3. Shapes' /\ \A n \in Modules, r \in Exclusive : res'[n][r] = res[n][r]
  BY <1>1, <1>2 DEF ClaimInv, Shapes, Exclusive, Resources
<1> QED BY <1>1, <1>3, Aside

LEMMA InterruptStep ==
  ASSUME ClaimInv, Interrupt \/ Tasklet
  PROVE  ClaimInv'
<1>1. UNCHANGED <<st, todo, res>>
  BY DEF Interrupt, Tasklet
<1> QED BY <1>1, Aside DEF ClaimInv, Shapes

-----------------------------------------------------------------------------
(* The theorem.                                                            *)

LEMMA Starts == Init => ClaimInv
<1> SUFFICES ASSUME Init PROVE ClaimInv
  OBVIOUS
<1>1. Shapes
  BY DEF Init, Shapes, States, Fates, Fresh
<1>2. \A m \in Modules, r \in Resources : st[m] = "out" /\ res[m][r] = "never"
  BY DEF Init, Fresh
<1> QED BY <1>1, <1>2 DEF ClaimInv, OneClaim, Claimed, ExitHolds, Exclusive, Resources

LEMMA Kept == ClaimInv /\ here \in Groups /\ [Next]_vars => (ClaimInv /\ here \in Groups)'
<1> SUFFICES ASSUME ClaimInv, here \in Groups, [Next]_vars
             PROVE  ClaimInv' /\ here' \in Groups
  OBVIOUS
<1>1. here \subseteq Modules
  BY DEF Modules
<1>2. here' = here
  BY DEF Next, vars, Load, Unload, Continue, Take, StepFails, Sleep, Loaded, Release,
         HandOver, FreePages, Gone, Signal, Open, Close, Use, ProcWrite, Interrupt,
         Tasklet, working
<1>3. CASE UNCHANGED vars
  BY <1>3, Aside DEF vars, ClaimInv, Shapes
<1>4. ASSUME NEW m \in here,
             Load(m) \/ Unload(m) \/ Continue(m) \/ Signal(m)
             \/ Open(m) \/ Close(m) \/ Use(m) \/ ProcWrite(m)
      PROVE  ClaimInv'
  <2>1. m \in Modules
    BY <1>1
  <2>2. CASE Continue(m)
    BY <2>1, <2>2, <1>1, TakeStep, FailStep, StateStep, ReleaseStep, HandOverStep, FreeStep
       DEF Continue
  <2> QED BY <1>4, <2>1, <2>2, LoadStep, UnloadStep, StateStep, CallStep
<1> QED BY <1>2, <1>3, <1>4, InterruptStep DEF Next

LEMMA LiveAlone == ClaimInv => OneHolder
<1> SUFFICES ASSUME ClaimInv, NEW m \in Modules, NEW n \in Modules, m # n,
                    st[m] = "live", st[n] = "live"
             PROVE  Locks(m) \cap Locks(n) = {} /\ {m, n} # {"lab03_seek", "lab04_seek"}
  BY DEF OneHolder
<1> QED BY SameClaim DEF ClaimInv, OneClaim, Claimed

\* Whichever modules are used together, of those that lock the same mutex or semaphore
\* in init one at most is loaded, and of the two drivers of major 700.
THEOREM LoadedAlone == Spec => []OneHolder
<1>1. Init => ClaimInv /\ here \in Groups
  BY Starts DEF Init
<1> QED BY <1>1, Kept, LiveAlone, PTL DEF Spec

-----------------------------------------------------------------------------
(* What became of every resource, in each state of a module.  t is what is *)
(* left to do, f what became of each resource, k the number of open files. *)

\* What occurs in the tables.
Steps == Resources \cup {"gpiochip", "irq_number", "unpin", "pages"}

\* init has tried r.
Past(m, t, r) == \E i \in 1..Len(InitOf[m]) - Len(t) : InitOf[m][i] = r
\* t is the end of u.
EndsWith(u, t) == /\ Len(t) <= Len(u)
                  /\ \A i \in 1..Len(t) : t[i] = u[Len(u) - Len(t) + i]
\* r is still to be given back.
Due(t, r) == \E i \in DOMAIN t : r \in Returns(t[i])
Held(f) == {r \in Resources : f[r] = "held"}

\* The text of a proc write, which only a loaded module can have lost.
StrFates(m) == CASE m = "my_proc" -> {"never", "held", "released"}
                 [] m = "lab4_proc" -> {"never", "released"}
                 [] OTHER -> {"never"}
\* Until init is done, what it has tried it holds, but for what it did not check.
InitFates(m, t, r) ==
  IF r = "str" THEN IF t = <<>> THEN StrFates(m) ELSE {"never"}
  ELSE IF ~Past(m, t, r) THEN {"never"}
  ELSE IF Unnoticed(r) THEN {"never", "held"}
  ELSE IF r = "pins" /\ Past(m, t, "unpin") THEN {"released"} ELSE {"held"}
Loading(m, t, f) == EndsWith(InitOf[m], t) /\ \A r \in Resources : f[r] \in InitFates(m, t, r)

\* While exit runs, what is not due any more has been given back, once but for the pins.
Returned(m, r, s) == s \in {"never", "released"} \/ (m = "asgn2" /\ r = "pins" /\ s = "twice")
Unloading(m, t, f) ==
  /\ EndsWith(ExitOf[m], t)
  /\ \A r \in Resources \ {"str"} :
       IF Due(t, r) THEN f[r] \in {"never", "held"} \/ (m = "asgn2" /\ r = "pins" /\ f[r] = "released")
       ELSE Returned(m, r, f[r])
  /\ m \in Asgn => f.add # "never"

\* While an error path runs, what it will not give back is what FailedClean allows, and
\* what it has given back it will not give back again, but for asgn's class.
Apart(m, t) ==
  \A i, j \in DOMAIN t : i # j =>
    Returns(t[i]) \cap Returns(t[j]) \subseteq (IF m \in Asgn THEN {"class"} ELSE {})
Remains(m, S) ==
  \/ S = {}
  \/ m \in Asgn /\ S = {"region", "cdev", "add"}
  \/ m = "asgn2" /\ S = {"irq"}
  \/ m = "wait_event" /\ S = {"ramdisk"}
TwiceClass(m, f) == \A r \in Resources : f[r] = "twice" => m \in Asgn /\ r = "class"
Failing(m, t, f) ==
  /\ Apart(m, t) /\ \A i \in DOMAIN t : t[i] \notin {"str", "irq"} /\ (t[i] = "pages" => m \in Asgn)
  /\ Remains(m, {r \in Held(f) : ~Due(t, r)})
  /\ \A r \in Resources : f[r] = "released" => ~Due(t, r) \/ (m \in Asgn /\ r = "class")
  /\ TwiceClass(m, f)
  /\ m \in {"lab03_seek", "wait_event"} => f.add # "held" /\ f.misc # "held"

\* Where an init function crashed.
Crashed(m, f) ==
  \/ m = "list"
  \/ m \in Asgn /\ f.add = "never"
  \/ m = "asgn2" /\ Held(f) = {"region", "cdev", "add", "proc"}

\* The inductive invariant, of one module.
Sound(m, s, t, f, k) ==
  /\ s \in {"init", "waits", "live"} => Loading(m, t, f)
  /\ s = "waits" => t # <<>> /\ Locks(m) # {}
  /\ s = "live" => t = <<>>
  /\ s = "exit" => Unloading(m, t, f)
  /\ s = "out" => \A r \in Resources \ {"str"} : Returned(m, r, f[r])
  /\ s = "fail" => Failing(m, t, f)
  /\ s = "failed" => Remains(m, Held(f)) /\ TwiceClass(m, f)
  /\ s = "oops" => Crashed(m, f) /\ \A r \in Resources : f[r] # "twice"
  /\ k > 0 => m \in Devices /\ (s = "live" \/ (s = "init" /\ t = <<>>))
  /\ f.str \in StrFates(m)
  /\ m \in Asgn /\ (f.class # "never" \/ f.irq # "never") => f.add # "never"

-----------------------------------------------------------------------------
(* Sequences, and the tables of init and exit functions.                   *)

LEMMA TailEnds ==
  ASSUME NEW u \in Seq(Steps), NEW t \in Seq(Steps), t # <<>>, EndsWith(u, t)
  PROVE  /\ Tail(t) \in Seq(Steps) /\ Len(Tail(t)) = Len(t) - 1
         /\ EndsWith(u, Tail(t))
         /\ Len(u) - Len(t) + 1 \in 1..Len(u) /\ Head(t) = u[Len(u) - Len(t) + 1]
<1>1. /\ Len(t) \in Nat /\ Len(t) >= 1 /\ Tail(t) \in Seq(Steps) /\ Len(Tail(t)) = Len(t) - 1
      /\ \A i \in 1..Len(t) - 1 : Tail(t)[i] = t[i + 1]
      /\ Head(t) = t[1] /\ Len(u) \in Nat
  OBVIOUS
<1>2. Len(t) <= Len(u) /\ \A i \in 1..Len(t) : t[i] = u[Len(u) - Len(t) + i]
  BY DEF EndsWith
<1>3. Head(t) = u[Len(u) - Len(t) + 1]
  BY <1>1, <1>2
<1>4. ASSUME NEW i \in 1..Len(t) - 1
      PROVE  Tail(t)[i] = u[Len(u) - (Len(t) - 1) + i]
  <2>1. i + 1 \in 1..Len(t) /\ Len(u) - Len(t) + (i + 1) = Len(u) - (Len(t) - 1) + i
    BY <1>1
  <2>2. Tail(t)[i] = t[i + 1] /\ t[i + 1] = u[Len(u) - Len(t) + (i + 1)]
    BY <1>1, <1>2, <2>1
  <2> QED BY <2>1, <2>2
<1>5. EndsWith(u, Tail(t))
  BY <1>1, <1>2, <1>4 DEF EndsWith
<1> QED BY <1>1, <1>2, <1>3, <1>5

LEMMA DueTail ==
  ASSUME NEW t \in Seq(Steps), t # <<>>
  PROVE  \A r : Due(t, r) <=> r \in Returns(Head(t)) \/ Due(Tail(t), r)
<1>1. /\ Len(t) \in Nat /\ Len(t) >= 1 /\ Tail(t) \in Seq(Steps) /\ Len(Tail(t)) = Len(t) - 1
      /\ \A i \in 1..Len(t) - 1 : Tail(t)[i] = t[i + 1]
      /\ Head(t) = t[1] /\ DOMAIN t = 1..Len(t) /\ DOMAIN Tail(t) = 1..Len(t) - 1
  OBVIOUS
<1>2. ASSUME NEW r, NEW i \in DOMAIN t, r \in Returns(t[i])
      PROVE  r \in Returns(Head(t)) \/ Due(Tail(t), r)
  <2>1. CASE i = 1
    BY <2>1, <1>1, <1>2
  <2>2. CASE i # 1
    <3>1. i - 1 \in DOMAIN Tail(t) /\ Tail(t)[i - 1] = t[i]
      BY <2>2, <1>1
    <3> QED BY <3>1, <1>2 DEF Due
  <2> QED BY <2>1, <2>2
<1>3. ASSUME NEW r, NEW i \in DOMAIN Tail(t), r \in Returns(Tail(t)[i])
      PROVE  Due(t, r)
  <2>1. i + 1 \in DOMAIN t /\ Tail(t)[i] = t[i + 1]
    BY <1>1
  <2> QED BY <2>1, <1>3 DEF Due
<1>4. ASSUME NEW r, r \in Returns(Head(t)) PROVE Due(t, r)
  BY <1>1, <1>4 DEF Due
<1> QED BY <1>2, <1>3, <1>4 DEF Due

LEMMA PastTail ==
  ASSUME NEW m, InitOf[m] \in Seq(Steps), NEW t \in Seq(Steps), t # <<>>, EndsWith(InitOf[m], t)
  PROVE  \A r : Past(m, Tail(t), r) <=> Past(m, t, r) \/ r = Head(t)
<1> DEFINE u == InitOf[m]
           d == Len(u) - Len(t)
<1>1. d \in Nat /\ Len(u) - Len(Tail(t)) = d + 1 /\ Head(t) = u[d + 1]
  BY TailEnds
<1> HIDE DEF u, d
<1>2. \A r : Past(m, t, r) <=> \E i \in 1..d : u[i] = r
  BY DEF u, d, Past
<1>3. \A r : Past(m, Tail(t), r) <=> \E i \in 1..d + 1 : u[i] = r
  BY <1>1 DEF u, Past
<1> QED BY <1>1, <1>2, <1>3

\* The order in which init functions take things.
OrderedInit(m, u) ==
  /\ u \in Seq(Steps)
  /\ \A i, j \in 1..Len(u) : u[i] = u[j] => i = j
  /\ \A i \in 1..Len(u) :
       /\ u[i] # "str" /\ (u[i] = "entries" => m = "list")
       /\ u[i] \in {"unpin", "gpiochip"} => m = "asgn2"
       /\ u[i] = "unpin" => \E j \in 1..i - 1 : u[j] = "pins"
       /\ m \in Asgn /\ u[i] \in {"class", "irq"} => \E j \in 1..i - 1 : u[j] = "add"
       /\ m \in Asgn /\ u[i] = "cdev" => \A j \in 1..i - 1 : u[j] # "add"
       /\ m \in Asgn /\ u[i] = "proc" => \A j \in 1..i - 1 : u[j] # "irq"
       /\ m \in Devices /\ u[i] \in (IF m \in Asgn THEN {"device"} ELSE {"add", "misc"}) => i = Len(u)
  /\ m \in Asgn => \E i \in 1..Len(u) : u[i] = "add"

LEMMA Asgn1Order == OrderedInit("asgn1", Asgn1Init)
<1> DEFINE u == Asgn1Init
<1>1. /\ u \in Seq(Steps) /\ Len(u) = 6
      /\ u[1] = "region" /\ u[2] = "cdev" /\ u[3] = "add" /\ u[4] = "proc"
      /\ u[5] = "class" /\ u[6] = "device"
  BY DEF Asgn1Init, Steps, Resources
<1> HIDE DEF u
<1>2. \A i \in 1..Len(u) : i \in {1, 2, 3, 4, 5, 6}
  BY <1>1
<1>3. OrderedInit("asgn1", u)
  <2>1. \A i, j \in 1..Len(u) : u[i] = u[j] => i = j
    BY <1>1, <1>2
  <2>2. \A i \in 1..Len(u) : u[i] \notin {"str", "entries", "unpin", "gpiochip", "irq"}
    BY <1>1, <1>2
  <2>3. \A i \in 1..Len(u) : u[i] = "class" => \E j \in 1..i - 1 : u[j] = "add"
    BY <1>1, <1>2
  <2>4. \A i \in 1..Len(u) : u[i] = "cdev" => \A j \in 1..i - 1 : u[j] # "add"
    BY <1>1, <1>2
  <2>5. \A i \in 1..Len(u) : u[i] = "device" => i = Len(u)
    BY <1>1, <1>2
  <2>6. "asgn1" \in Asgn /\ \E i \in 1..Len(u) : u[i] = "add"
    BY <1>1 DEF Asgn
  <2> QED BY <1>1, <2>1, <2>2, <2>3, <2>4, <2>5, <2>6 DEF OrderedInit
<1> QED BY <1>3 DEF u

LEMMA Asgn2Steps ==
  /\ Asgn2Init \in Seq(Steps) /\ Len(Asgn2Init) = 11
  /\ Asgn2Init[1] = "region" /\ Asgn2Init[2] = "cdev" /\ Asgn2Init[3] = "add"
  /\ Asgn2Init[4] = "proc" /\ Asgn2Init[5] = "gpiochip" /\ Asgn2Init[6] = "pins"
  /\ Asgn2Init[7] = "irq_number" /\ Asgn2Init[8] = "irq" /\ Asgn2Init[9] = "unpin"
  /\ Asgn2Init[10] = "class" /\ Asgn2Init[11] = "device"
<1> DEFINE front == <<"region", "cdev", "add", "proc">>
           gpio == <<"gpiochip", "pins", "irq_number", "irq", "unpin">>
           back == <<"class", "device">>
           both == front \o gpio
<1>1. /\ front \in Seq(Steps) /\ Len(front) = 4
      /\ front[1] = "region" /\ front[2] = "cdev" /\ front[3] = "add" /\ front[4] = "proc"
  BY DEF Steps, Resources
<1>2. /\ gpio \in Seq(Steps) /\ Len(gpio) = 5
      /\ gpio[1] = "gpiochip" /\ gpio[2] = "pins" /\ gpio[3] = "irq_number"
      /\ gpio[4] = "irq" /\ gpio[5] = "unpin"
  BY DEF Steps, Resources
<1>3. back \in Seq(Steps) /\ Len(back) = 2 /\ back[1] = "class" /\ back[2] = "device"
  BY DEF Steps, Resources
<1>4. Asgn2Init = both \o back /\ both = front \o gpio
  BY DEF Asgn2Init, GpioInit
<1> HIDE DEF front, gpio, back, both
<1>5. /\ both \in Seq(Steps) /\ Len(both) = Len(front) + Len(gpio)
      /\ \A i \in 1..Len(front) + Len(gpio) :
           both[i] = IF i <= Len(front) THEN front[i] ELSE gpio[i - Len(front)]
  BY <1>1, <1>2, <1>4, ConcatProperties, ZenonT(30)
<1>6. /\ Len(both) = 9
      /\ both[1] = "region" /\ both[2] = "cdev" /\ both[3] = "add" /\ both[4] = "proc"
      /\ both[5] = "gpiochip" /\ both[6] = "pins" /\ both[7] = "irq_number"
      /\ both[8] = "irq" /\ both[9] = "unpin"
  BY <1>1, <1>2, <1>5
<1>7. back \in Seq(Steps) /\ both \in Seq(Steps)
  BY <1>3, <1>5
<1>8. Asgn2Init = both \o back
  BY <1>4
<1>9. /\ Asgn2Init \in Seq(Steps) /\ Len(Asgn2Init) = Len(both) + Len(back)
      /\ \A i \in 1..Len(both) + Len(back) :
           Asgn2Init[i] = IF i <= Len(both) THEN both[i] ELSE back[i - Len(both)]
  BY <1>7, <1>8, ConcatProperties, ZenonT(30)
<1> QED BY <1>3, <1>6, <1>9

LEMMA Asgn2Order == OrderedInit("asgn2", Asgn2Init)
<1> DEFINE u == Asgn2Init
<1>1. \A i \in 1..Len(u) : i \in {1, 2, 3, 4, 5, 6, 7, 8, 9, 10, 11}
  BY Asgn2Steps
<1>2. \A i, j \in 1..Len(u) : u[i] = u[j] => i = j
  BY <1>1, Asgn2Steps
<1>3. \A i \in 1..Len(u) : u[i] = "unpin" => \E j \in 1..i - 1 : u[j] = "pins"
  BY <1>1, Asgn2Steps
<1>4. \A i \in 1..Len(u) : u[i] \in {"class", "irq"} => \E j \in 1..i - 1 : u[j] = "add"
  BY <1>1, Asgn2Steps
<1>5. \A i \in 1..Len(u) : u[i] = "cdev" => \A j \in 1..i - 1 : u[j] # "add"
  BY <1>1, Asgn2Steps
<1>6. \A i \in 1..Len(u) : u[i] = "proc" => \A j \in 1..i - 1 : u[j] # "irq"
  BY <1>1, Asgn2Steps
<1>7. \A i \in 1..Len(u) : u[i] \notin {"str", "entries"}
  BY <1>1, Asgn2Steps
<1>8. \A i \in 1..Len(u) : u[i] = "device" => i = Len(u)
  BY <1>1, Asgn2Steps
<1>9. "asgn2" \in Asgn /\ \E i \in 1..Len(u) : u[i] = "add"
  BY Asgn2Steps DEF Asgn
<1> QED BY <1>2, <1>3, <1>4, <1>5, <1>6, <1>7, <1>8, <1>9, Asgn2Steps DEF OrderedInit

LEMMA LabOrder ==
  ASSUME NEW m, m \notin Asgn
  PROVE  /\ OrderedInit(m, Lab03Init) /\ OrderedInit(m, Lab04Init) /\ OrderedInit(m, MiscInit)
         /\ OrderedInit(m, <<>>)
         /\ \A r \in Resources \ {"str", "entries"} : OrderedInit(m, <<r>>)
         /\ OrderedInit("list", ListInit)
<1>1. OrderedInit(m, Lab03Init) /\ OrderedInit(m, Lab04Init)
  BY DEF OrderedInit, Lab03Init, Lab04Init, Steps, Resources
<1>2. OrderedInit(m, MiscInit) /\ OrderedInit(m, <<>>)
  BY DEF OrderedInit, MiscInit, Steps, Resources
<1>3. ASSUME NEW r \in Resources \ {"str", "entries"} PROVE OrderedInit(m, <<r>>)
  <2>1. r \in Steps /\ r \notin {"unpin", "gpiochip", "str", "entries"}
    BY <1>3 DEF Resources, Steps
  <2> QED BY <2>1 DEF OrderedInit
<1>4. OrderedInit("list", ListInit)
  BY DEF OrderedInit, ListInit, Asgn, Devices, Steps, Resources
<1> QED BY <1>1, <1>2, <1>3, <1>4

\* The order in which init functions take things.
LEMMA InitTables == ASSUME NEW m \in DOMAIN InitOf PROVE OrderedInit(m, InitOf[m])
<1>1. CASE m \in Asgn
  BY <1>1, Asgn1Order, Asgn2Order DEF InitOf, Asgn
<1>2. CASE m \notin Asgn
  <2>1. \/ InitOf[m] \in {Lab03Init, Lab04Init, MiscInit, <<>>}
        \/ \E r \in Resources \ {"str", "entries"} : InitOf[m] = <<r>>
        \/ m = "list" /\ InitOf[m] = ListInit
    BY <1>2 DEF InitOf, Asgn, ProcInit, MyProcInit, Mutex1Init,
         Mutex2Init, Mutex3Init, Semaphore1Init, Semaphore2Init, Semaphore3Init, Resources
  <2> QED BY <1>2, <2>1, LabOrder
<1> QED BY <1>1, <1>2

\* The order in which exit functions give back, and that they give everything back.
OrderedExit(m, u) ==
  /\ u \in Seq(Steps)
  /\ \A i, j \in 1..Len(u) : i # j => Returns(u[i]) \cap Returns(u[j]) = {}
  /\ \A i \in 1..Len(u) :
       /\ u[i] # "str" /\ (u[i] = "pages" => m \in Asgn)
       /\ m \in {"lab03_seek", "wait_event"} /\ u[i] \in {"cdev", "misc", "add"} =>
            i = 1 /\ \E j \in 1..Len(u) : u[j] = "ramdisk"
  /\ m \in Asgn => \E i \in 1..Len(u) : u[i] = "pages"

Covers(u, v) == \A i \in 1..Len(u) : u[i] \in Resources => Due(v, u[i])

LEMMA Asgn1ExitTable == OrderedExit("asgn1", Asgn1Exit) /\ Covers(Asgn1Init, Asgn1Exit)
<1> DEFINE u == Asgn1Exit
           v == Asgn1Init
<1>1. /\ u \in Seq(Steps) /\ Len(u) = 6 /\ DOMAIN u = 1..6
      /\ u[1] = "device" /\ u[2] = "class" /\ u[3] = "pages" /\ u[4] = "region"
      /\ u[5] = "proc" /\ u[6] = "cdev"
  BY DEF Asgn1Exit, Steps, Resources
<1>2. /\ Len(v) = 6
      /\ v[1] = "region" /\ v[2] = "cdev" /\ v[3] = "add" /\ v[4] = "proc"
      /\ v[5] = "class" /\ v[6] = "device"
  BY DEF Asgn1Init
<1> HIDE DEF u, v
<1>3. \A i \in 1..Len(u) : i \in {1, 2, 3, 4, 5, 6}
  BY <1>1
<1>4. \A i \in 1..Len(v) : i \in {1, 2, 3, 4, 5, 6}
  BY <1>2
<1>5. \A i, j \in 1..Len(u) : i # j => Returns(u[i]) \cap Returns(u[j]) = {}
  BY <1>1, <1>3 DEF Returns
<1>6. OrderedExit("asgn1", u)
  BY <1>1, <1>3, <1>5 DEF OrderedExit, Asgn
<1>7. Covers(v, u)
  <2>1. \A r \in {"region", "cdev", "add", "proc", "class", "device"} : Due(u, r)
    BY <1>1 DEF Due, Returns
  <2> QED BY <1>2, <1>4, <2>1 DEF Covers
<1> QED BY <1>6, <1>7 DEF u, v

LEMMA Asgn2ExitTable == OrderedExit("asgn2", Asgn2Exit) /\ Covers(Asgn2Init, Asgn2Exit)
<1> DEFINE front == GpioExit
           back == <<"device", "class", "pages", "region", "proc", "cdev">>
           u == Asgn2Exit
<1>1. front \in Seq(Steps) /\ Len(front) = 2 /\ front[1] = "irq" /\ front[2] = "pins"
  BY DEF GpioExit, Steps, Resources
<1>2. /\ back \in Seq(Steps) /\ Len(back) = 6
      /\ back[1] = "device" /\ back[2] = "class" /\ back[3] = "pages" /\ back[4] = "region"
      /\ back[5] = "proc" /\ back[6] = "cdev"
  BY DEF Steps, Resources
<1>3. u = front \o back
  BY DEF Asgn2Exit
<1> HIDE DEF front, back, u
<1>4. /\ u \in Seq(Steps) /\ Len(u) = Len(front) + Len(back)
      /\ \A i \in 1..Len(front) + Len(back) :
           u[i] = IF i <= Len(front) THEN front[i] ELSE back[i - Len(front)]
  BY <1>1, <1>2, <1>3, ConcatProperties, Zenon
<1>5. /\ Len(u) = 8 /\ DOMAIN u = 1..8
      /\ u[1] = "irq" /\ u[2] = "pins" /\ u[3] = "device" /\ u[4] = "class"
      /\ u[5] = "pages" /\ u[6] = "region" /\ u[7] = "proc" /\ u[8] = "cdev"
  BY <1>1, <1>2, <1>4
<1>6. \A i \in 1..Len(u) : i \in {1, 2, 3, 4, 5, 6, 7, 8}
  BY <1>5
<1>7. \A i, j \in 1..Len(u) : i # j => Returns(u[i]) \cap Returns(u[j]) = {}
  BY <1>5, <1>6 DEF Returns
<1>8. OrderedExit("asgn2", u)
  <2>1. u \in Seq(Steps)
    BY <1>4
  <2>2. \A i \in 1..Len(u) : u[i] # "str"
    BY <1>5, <1>6
  <2> QED BY <1>5, <1>7, <2>1, <2>2 DEF OrderedExit, Asgn
<1>9. \A i \in 1..Len(Asgn2Init) : i \in {1, 2, 3, 4, 5, 6, 7, 8, 9, 10, 11}
  BY Asgn2Steps
<1>10. Covers(Asgn2Init, u)
  BY <1>5, <1>9, Asgn2Steps DEF Covers, Due, Returns, Resources
<1> QED BY <1>8, <1>10 DEF u

LEMMA LabExitTables ==
  ASSUME NEW m, m \notin Asgn
  PROVE  /\ OrderedExit(m, Lab03Exit) /\ Covers(Lab03Init, Lab03Exit)
         /\ m \notin {"lab03_seek", "wait_event"} =>
              OrderedExit(m, Lab04Exit) /\ Covers(Lab04Init, Lab04Exit)
         /\ OrderedExit(m, MiscExit) /\ Covers(MiscInit, MiscExit)
         /\ OrderedExit(m, <<>>) /\ Covers(<<>>, <<>>)
         /\ \A r \in Resources \ {"str", "cdev", "misc", "add"} :
              OrderedExit(m, <<r>>) /\ Covers(<<r>>, <<r>>)
<1>1. OrderedExit(m, Lab03Exit) /\ Covers(Lab03Init, Lab03Exit)
  <2>1. OrderedExit(m, Lab03Exit)
    BY DEF OrderedExit, Returns, Lab03Exit, Steps, Resources
  <2>2. Covers(Lab03Init, Lab03Exit)
    BY DEF Covers, Due, Returns, Lab03Init, Lab03Exit
  <2> QED BY <2>1, <2>2
<1>2. m \notin {"lab03_seek", "wait_event"} =>
              OrderedExit(m, Lab04Exit) /\ Covers(Lab04Init, Lab04Exit)
  BY DEF OrderedExit, Covers, Due, Returns, Lab04Init, Lab04Exit, Steps, Resources
<1>3. OrderedExit(m, MiscExit) /\ Covers(MiscInit, MiscExit)
  BY SMTT(30) DEF OrderedExit, Covers, Due, Returns, MiscInit, MiscExit, Steps, Resources
<1>4. OrderedExit(m, <<>>) /\ Covers(<<>>, <<>>)
  BY DEF OrderedExit, Covers
<1>5. ASSUME NEW r \in Resources \ {"str", "cdev", "misc", "add"}
      PROVE  OrderedExit(m, <<r>>) /\ Covers(<<r>>, <<r>>)
  <2>1. r \in Steps /\ r # "pages" /\ r # "cdev" /\ r # "misc" /\ r # "add" /\ r # "str"
    BY <1>5 DEF Resources, Steps
  <2>2. OrderedExit(m, <<r>>)
    BY <2>1 DEF OrderedExit
  <2>3. Covers(<<r>>, <<r>>)
    BY <2>1 DEF Covers, Due, Returns
  <2> QED BY <2>2, <2>3
<1> QED BY <1>1, <1>2, <1>3, <1>4, <1>5

LEMMA ExitTables ==
  ASSUME NEW m \in DOMAIN InitOf
  PROVE  OrderedExit(m, ExitOf[m]) /\ Covers(InitOf[m], ExitOf[m])
<1>1. CASE m \in Asgn
  BY <1>1, Asgn1ExitTable, Asgn2ExitTable DEF InitOf, ExitOf, Asgn
<1>2. CASE m \notin Asgn
  <2>1. \/ InitOf[m] = Lab03Init /\ ExitOf[m] = Lab03Exit
        \/ InitOf[m] = Lab04Init /\ ExitOf[m] = Lab04Exit /\ m \notin {"lab03_seek", "wait_event"}
        \/ InitOf[m] = MiscInit /\ ExitOf[m] = MiscExit
        \/ InitOf[m] = <<>> /\ ExitOf[m] = <<>>
        \/ \E r \in Resources \ {"str", "cdev", "misc", "add"} : InitOf[m] = <<r>> /\ ExitOf[m] = <<r>>
    BY <1>2 DEF InitOf, ExitOf, Asgn, ProcInit, MyProcInit, ListInit, Mutex1Init,
         Mutex2Init, Mutex3Init, Semaphore1Init, Semaphore2Init, Semaphore3Init,
         ProcExit, MyProcExit, ListExit, Mutex1Exit, Mutex2Exit, Mutex3Exit,
         Semaphore1Exit, Semaphore2Exit, Semaphore3Exit, Resources
  <2> QED BY <1>2, <2>1, LabExitTables
<1> QED BY <1>1, <1>2

\* What has been taken before a step of init.
LEMMA BeforeHead ==
  ASSUME NEW m \in DOMAIN InitOf, NEW t \in Seq(Steps), t # <<>>, EndsWith(InitOf[m], t)
  PROVE  \E k \in 1..Len(InitOf[m]) :
           /\ Head(t) = InitOf[m][k]
           /\ \A r : Past(m, t, r) <=> \E i \in 1..k - 1 : InitOf[m][i] = r
<1> DEFINE u == InitOf[m]
           k == Len(u) - Len(t) + 1
<1>1. /\ u \in Seq(Steps) /\ k \in 1..Len(u) /\ Head(t) = u[k]
  BY InitTables, TailEnds DEF OrderedInit
<1>2. Len(u) - Len(t) = k - 1
  BY <1>1
<1>3. \A r : Past(m, t, r) <=> \E i \in 1..k - 1 : u[i] = r
  BY <1>2 DEF Past
<1> QED BY <1>1, <1>3

\* Nothing is taken before it was tried, nothing is given back yet but asgn2's pins.
LEMMA LoadingFates ==
  ASSUME NEW m, NEW t, t # <<>>, NEW f, Loading(m, t, f), NEW r \in Resources
  PROVE  /\ ~Past(m, t, r) => f[r] = "never"
         /\ f[r] \in {"never", "held"} \/ (r = "pins" /\ Past(m, t, "unpin") /\ f[r] = "released")
         /\ r = "str" => f[r] = "never"
         /\ Past(m, t, r) /\ r # "str" /\ ~Unnoticed(r) /\ r # "pins" => f[r] = "held"
         /\ r = "pins" /\ Past(m, t, "unpin") => f[r] # "held"
<1>1. f[r] \in InitFates(m, t, r)
  BY DEF Loading
<1>2. CASE r = "str"
  BY <1>1, <1>2 DEF InitFates
<1>3. CASE r # "str"
  BY <1>1, <1>3 DEF InitFates, Unnoticed
<1> QED BY <1>2, <1>3

AsgnDue == {"class", "pages", "region", "proc", "cdev", "add"}

LEMMA AsgnFailTable ==
  ASSUME NEW front \in {<<>>, <<"pins">>}
  PROVE  /\ Asgn1Fail = Asgn2Fail /\ Asgn2Fail \in Seq(Steps)
         /\ front \o Asgn2Fail \in Seq(Steps)
         /\ \A m \in Asgn : Apart(m, front \o Asgn2Fail)
         /\ \A i \in DOMAIN (front \o Asgn2Fail) : (front \o Asgn2Fail)[i] \notin {"str", "irq"}
         /\ \A r : Due(front \o Asgn2Fail, r) <=> r \in AsgnDue \/ (r = "pins" /\ front # <<>>)
<1> DEFINE back == Asgn2Fail
           u == front \o back
<1>0. Asgn1Fail = back
  BY DEF Asgn1Fail, Asgn2Fail
<1>1. /\ back \in Seq(Steps) /\ Len(back) = 6
      /\ back[1] = "class" /\ back[2] = "pages" /\ back[3] = "region"
      /\ back[4] = "class" /\ back[5] = "proc" /\ back[6] = "cdev"
  BY DEF Asgn2Fail, Steps, Resources
<1>2. front \in Seq(Steps) /\ Len(front) \in {0, 1} /\ (Len(front) = 1 => front[1] = "pins")
      /\ (front # <<>> <=> Len(front) = 1)
  <2>1. CASE front = <<>>
    BY <2>1
  <2>2. CASE front = <<"pins">>
    BY <2>2 DEF Steps, Resources
  <2> QED BY <2>1, <2>2
<1>6. u = front \o back
  OBVIOUS
<1>7. front \in Seq(Steps) /\ back \in Seq(Steps)
  BY <1>1, <1>2
<1> HIDE DEF back, u
<1>3. /\ u \in Seq(Steps) /\ Len(u) = Len(front) + Len(back)
      /\ \A i \in 1..Len(front) + Len(back) :
           u[i] = IF i <= Len(front) THEN front[i] ELSE back[i - Len(front)]
  BY <1>6, <1>7, ConcatProperties, ZenonT(30)
<1>4. CASE Len(front) = 0
  <2>1. /\ DOMAIN u = 1..6 /\ u[1] = "class" /\ u[2] = "pages" /\ u[3] = "region"
        /\ u[4] = "class" /\ u[5] = "proc" /\ u[6] = "cdev"
    BY <1>1, <1>3, <1>4
  <2>2. \A i \in 1..6 : i \in {1, 2, 3, 4, 5, 6}
    OBVIOUS
  <2>3. \A m \in Asgn : Apart(m, u)
    BY <2>1, <2>2 DEF Apart, Returns
  <2>4. \A r : Due(u, r) <=> r \in AsgnDue
    BY <2>1, <2>2 DEF Due, Returns, AsgnDue
  <2>5. \A i \in DOMAIN u : u[i] \notin {"str", "irq"}
    BY <2>1, <2>2
  <2> QED BY <1>0, <1>2, <1>3, <1>4, <2>3, <2>4, <2>5 DEF u, back
<1>5. CASE Len(front) = 1
  <2>1. /\ DOMAIN u = 1..7 /\ u[1] = "pins" /\ u[2] = "class" /\ u[3] = "pages"
        /\ u[4] = "region" /\ u[5] = "class" /\ u[6] = "proc" /\ u[7] = "cdev"
    BY <1>1, <1>2, <1>3, <1>5
  <2>2. \A i \in 1..7 : i \in {1, 2, 3, 4, 5, 6, 7}
    OBVIOUS
  <2>3. \A m \in Asgn : Apart(m, u)
    BY <2>1, <2>2 DEF Apart, Returns
  <2>4. \A r : Due(u, r) <=> r \in AsgnDue \/ r = "pins"
    BY <2>1, <2>2 DEF Due, Returns, AsgnDue
  <2>5. \A i \in DOMAIN u : u[i] \notin {"str", "irq"}
    BY <2>1, <2>2
  <2> QED BY <1>0, <1>2, <1>3, <1>5, <2>3, <2>4, <2>5 DEF u, back
<1> QED BY <1>2, <1>4, <1>5

\* When a step of asgn's init fails, what its error path is told to give back is what
\* was taken, but for what Remains names.
LEMMA AsgnFailing ==
  ASSUME NEW m \in Asgn, NEW f \in [Resources -> Fates], NEW front \in {<<>>, <<"pins">>},
         NEW u, u = front \o Asgn2Fail,
         \A r \in Resources :
           f[r] \in {"never", "held"} \/ (r = "pins" /\ front = <<>> /\ f[r] = "released"),
         Remains(m, {r \in Held(f) : r \notin AsgnDue /\ (r = "pins" => front = <<>>)})
  PROVE  Failing(m, u, f)
<1>1. /\ Apart(m, u) /\ \A i \in DOMAIN u : u[i] \notin {"str", "irq"}
      /\ \A r : Due(u, r) <=> r \in AsgnDue \/ (r = "pins" /\ front # <<>>)
  BY AsgnFailTable
<1>2. {r \in Held(f) : ~Due(u, r)} = {r \in Held(f) : r \notin AsgnDue /\ (r = "pins" => front = <<>>)}
  BY <1>1
<1>3. Remains(m, {r \in Held(f) : ~Due(u, r)})
  BY <1>2
<1>4. "pins" \notin AsgnDue /\ m \notin {"lab03_seek", "wait_event"}
  BY DEF AsgnDue, Asgn
<1>5. TwiceClass(m, f)
  BY DEF TwiceClass
<1>6. \A r \in Resources : f[r] = "released" => ~Due(u, r)
  BY <1>1, <1>4
<1> QED BY <1>1, <1>3, <1>4, <1>5, <1>6 DEF Failing

\* A failure that gives nothing back.
LEMMA NothingDue ==
  ASSUME NEW m, NEW f \in [Resources -> Fates], Remains(m, Held(f)),
         \A r \in Resources : f[r] # "twice",
         m \in {"lab03_seek", "wait_event"} => f.add # "held" /\ f.misc # "held"
  PROVE  Failing(m, <<>>, f)
<1>1. Apart(m, <<>>) /\ \A r : ~Due(<<>>, r)
  BY DEF Apart, Due
<1>2. {r \in Held(f) : ~Due(<<>>, r)} = Held(f)
  BY <1>1
<1>3. TwiceClass(m, f) /\ Remains(m, {r \in Held(f) : ~Due(<<>>, r)})
  BY <1>2 DEF TwiceClass
<1> QED BY <1>1, <1>3 DEF Failing

LEMMA Asgn1Fails ==
  ASSUME NEW t \in Seq(Steps), t # <<>>, NEW f \in [Resources -> Fates],
         Loading("asgn1", t, f), Head(t) \notin {"class", "cdev"}
  PROVE  Failing("asgn1", Undo("asgn1", Head(t)), f)
<1> DEFINE u == Asgn1Init
           Taken(r) == Past("asgn1", t, r)
<1>1. /\ Len(u) = 6 /\ u[1] = "region" /\ u[2] = "cdev" /\ u[3] = "add" /\ u[4] = "proc"
      /\ u[5] = "class" /\ u[6] = "device"
  BY DEF Asgn1Init
<1>2. InitOf["asgn1"] = u /\ "asgn1" \in DOMAIN InitOf
  BY DEF InitOf
<1>3. PICK k \in 1..Len(u) : /\ Head(t) = u[k]
                             /\ \A r : Taken(r) <=> \E i \in 1..k - 1 : u[i] = r
  BY <1>2, BeforeHead DEF Loading
<1> HIDE DEF u, Taken
<1>4. k \in {1, 3, 4, 6}
  <2>1. k \in {1, 2, 3, 4, 5, 6}
    BY <1>1, <1>3
  <2> QED BY <1>1, <1>3, <2>1
<1>5. \A r \in Resources :
        /\ ~Taken(r) => f[r] = "never"
        /\ f[r] \in {"never", "held"} \/ (r = "pins" /\ Taken("unpin") /\ f[r] = "released")
        /\ Taken(r) /\ r # "str" /\ ~Unnoticed(r) /\ r # "pins" => f[r] = "held"
  BY LoadingFates DEF Taken
<1>6. \A r : Taken(r) => r \in {"region", "cdev", "add", "proc", "class"}
  BY <1>1, <1>3, <1>4
<1>7. \A r \in Resources : f[r] \in {"never", "held"}
  BY <1>5, <1>6
<1>8. CASE k = 4
  <2>1. \A r : Taken(r) <=> r \in {"region", "cdev", "add"}
    BY <1>1, <1>3, <1>8
  <2>2. Held(f) = {"region", "cdev", "add"}
    BY <1>5, <2>1 DEF Held, Unnoticed, Resources
  <2>3. Undo("asgn1", Head(t)) = <<>>
    BY <1>1, <1>3, <1>8 DEF Undo, Asgn1Undo
  <2>4. Remains("asgn1", Held(f)) /\ "asgn1" \notin {"lab03_seek", "wait_event"}
    BY <2>2 DEF Remains, Asgn
  <2>5. Failing("asgn1", <<>>, f)
    BY <1>7, <2>4, NothingDue
  <2> QED BY <2>3, <2>5
<1>9. CASE k # 4
  <2>1. Undo("asgn1", Head(t)) = Asgn1Fail /\ Head(t) # "proc"
    BY <1>1, <1>3, <1>4, <1>9 DEF Undo, Asgn1Undo
  <2>2. <<>> \o Asgn2Fail = Asgn1Fail
    <3>1. Asgn1Fail = Asgn2Fail /\ Asgn2Fail \in Seq(Steps)
      BY AsgnFailTable
    <3> QED BY <3>1, ConcatEmptySeq
  <2>3. {r \in Held(f) : r \notin AsgnDue} = {}
    BY <1>5, <1>6 DEF Held, AsgnDue
  <2>4. "asgn1" \in Asgn
    BY DEF Asgn
  <2> DEFINE front == <<>>
  <2>5. Remains("asgn1", {r \in Held(f) : r \notin AsgnDue /\ (r = "pins" => front = <<>>)})
    BY <2>3 DEF Remains
  <2> QED BY <1>7, <2>1, <2>2, <2>4, <2>5, AsgnFailing
<1> QED BY <1>8, <1>9

LEMMA Asgn2Fails ==
  ASSUME NEW t \in Seq(Steps), t # <<>>, NEW f \in [Resources -> Fates],
         Loading("asgn2", t, f), Head(t) \notin {"class", "cdev", "unpin", "gpiochip"}
  PROVE  Failing("asgn2", Undo("asgn2", Head(t)), f)
<1> DEFINE u == Asgn2Init
           Taken(r) == Past("asgn2", t, r)
<1>1. /\ Len(u) = 11 /\ u[1] = "region" /\ u[2] = "cdev" /\ u[3] = "add" /\ u[4] = "proc"
      /\ u[5] = "gpiochip" /\ u[6] = "pins" /\ u[7] = "irq_number" /\ u[8] = "irq"
      /\ u[9] = "unpin" /\ u[10] = "class" /\ u[11] = "device"
  BY Asgn2Steps
<1>2. InitOf["asgn2"] = u /\ "asgn2" \in DOMAIN InitOf
  BY DEF InitOf
<1>3. PICK k \in 1..Len(u) : /\ Head(t) = u[k]
                             /\ \A r : Taken(r) <=> \E i \in 1..k - 1 : u[i] = r
  BY <1>2, BeforeHead DEF Loading
<1> HIDE DEF u, Taken
<1>4. k \in {1, 3, 4, 6, 7, 8, 11}
  <2>1. k \in {1, 2, 3, 4, 5, 6, 7, 8, 9, 10, 11}
    BY <1>1, <1>3
  <2> QED BY <1>1, <1>3, <2>1
<1>5. \A r \in Resources :
        /\ ~Taken(r) => f[r] = "never"
        /\ f[r] \in {"never", "held"} \/ (r = "pins" /\ Taken("unpin") /\ f[r] = "released")
        /\ Taken(r) /\ r # "str" /\ ~Unnoticed(r) /\ r # "pins" => f[r] = "held"
        /\ r = "pins" /\ Taken("unpin") => f[r] # "held"
  BY LoadingFates DEF Taken
<1>6. "asgn2" \in Asgn /\ "asgn2" \notin {"lab03_seek", "wait_event"}
  BY DEF Asgn
<1>7. CASE k = 4
  <2>1. \A r : Taken(r) <=> r \in {"region", "cdev", "add"}
    BY <1>1, <1>3, <1>7
  <2>2. Held(f) = {"region", "cdev", "add"} /\ \A r \in Resources : f[r] \in {"never", "held"}
    BY <1>5, <2>1 DEF Held, Unnoticed, Resources
  <2>3. Undo("asgn2", Head(t)) = <<>>
    BY <1>1, <1>3, <1>7 DEF Undo, Asgn2Undo
  <2>4. Remains("asgn2", Held(f))
    BY <2>2, <1>6 DEF Remains
  <2>5. Failing("asgn2", <<>>, f)
    BY <2>2, <2>4, <1>6, NothingDue
  <2> QED BY <2>3, <2>5
<1>8. CASE k \in {7, 8}
  <2>1. \A r \in Resources : Taken(r) => r \in AsgnDue \/ r = "pins"
    BY <1>1, <1>3, <1>8 DEF AsgnDue, Resources
  <2>2. ~Taken("unpin")
    BY <1>1, <1>3, <1>8
  <2> DEFINE front == <<"pins">>
  <2>3. Undo("asgn2", Head(t)) = front \o Asgn2Fail /\ front # <<>>
    BY <1>1, <1>3, <1>8 DEF Undo, Asgn2Undo, GpioUndo
  <2>4. \A r \in Resources : f[r] \in {"never", "held"}
    BY <1>5, <2>2
  <2>5. {r \in Held(f) : r \notin AsgnDue /\ (r = "pins" => front = <<>>)} = {}
    BY <1>5, <2>1, <2>3 DEF Held
  <2>6. Remains("asgn2", {r \in Held(f) : r \notin AsgnDue /\ (r = "pins" => front = <<>>)})
    BY <2>5 DEF Remains
  <2> HIDE DEF front
  <2>7. front \in {<<>>, <<"pins">>}
    BY DEF front
  <2> QED BY <1>6, <2>3, <2>4, <2>6, <2>7, AsgnFailing
<1>9. CASE k \in {1, 3, 6, 11}
  <2> DEFINE front == <<>>
             left == {r \in Held(f) : r \notin AsgnDue /\ (r = "pins" => front = <<>>)}
  <2>1. Undo("asgn2", Head(t)) = front \o Asgn2Fail
    BY <1>1, <1>3, <1>9 DEF Undo, Asgn2Undo, GpioUndo
  <2>2. Remains("asgn2", left)
    <3>1. CASE k = 11
      <4>1. \A r : Taken(r) <=> r \in {"region", "cdev", "add", "proc", "gpiochip", "pins",
                                       "irq_number", "irq", "unpin", "class"}
        <5>1. \A i \in 1..10 : i \in {1, 2, 3, 4, 5, 6, 7, 8, 9, 10}
          OBVIOUS
        <5> QED BY <1>1, <1>3, <3>1, <5>1
      <4>2. f["pins"] # "held"
        BY <4>1, <1>5 DEF Resources
      <4>3. left = {"irq"}
        BY <1>5, <4>1, <4>2 DEF Held, AsgnDue, Unnoticed, Resources
      <4> QED BY <4>3 DEF Remains
    <3>2. CASE k # 11
      <4>1. \A r \in Resources : Taken(r) => r \in {"region", "cdev", "add", "proc"}
        BY <1>1, <1>3, <1>9, <3>2 DEF Resources
      <4>2. left = {}
        BY <1>5, <4>1 DEF Held, AsgnDue
      <4> QED BY <4>2 DEF Remains
    <3> QED BY <3>1, <3>2
  <2>3. \A r \in Resources :
          f[r] \in {"never", "held"} \/ (r = "pins" /\ front = <<>> /\ f[r] = "released")
    BY <1>5
  <2> HIDE DEF front
  <2>4. front \in {<<>>, <<"pins">>}
    BY DEF front
  <2> QED BY <1>6, <2>1, <2>2, <2>3, <2>4, AsgnFailing
<1> QED BY <1>4, <1>7, <1>8, <1>9

\* What asgn2 has registered when there is no GPIO chip.
LEMMA NoChip ==
  ASSUME NEW t \in Seq(Steps), t # <<>>, NEW f \in [Resources -> Fates],
         Loading("asgn2", t, f), Head(t) = "gpiochip"
  PROVE  Held(f) = {"region", "cdev", "add", "proc"}
<1> DEFINE Taken(r) == Past("asgn2", t, r)
<1>1. InitOf["asgn2"] = Asgn2Init /\ "asgn2" \in DOMAIN InitOf
  BY DEF InitOf
<1>0. Len(Asgn2Init) = 11
  BY Asgn2Steps
<1>2. PICK k \in 1..Len(Asgn2Init) : /\ Head(t) = Asgn2Init[k]
                                     /\ \A r : Taken(r) <=> \E i \in 1..k - 1 : Asgn2Init[i] = r
  BY <1>1, BeforeHead DEF Loading
<1> HIDE DEF Taken
<1>3. k = 5
  <2>1. k \in {1, 2, 3, 4, 5, 6, 7, 8, 9, 10, 11}
    BY <1>0, <1>2
  <2> QED BY <1>2, <2>1, Asgn2Steps
<1>4. \A r : Taken(r) <=> r \in {"region", "cdev", "add", "proc"}
  BY <1>2, <1>3, Asgn2Steps
<1>5. \A r \in Resources :
        /\ ~Taken(r) => f[r] = "never"
        /\ Taken(r) /\ r # "str" /\ ~Unnoticed(r) /\ r # "pins" => f[r] = "held"
  BY LoadingFates DEF Taken
<1> QED BY <1>4, <1>5 DEF Held, Unnoticed, Resources

\* asgn's proc entry is made before the interrupt is asked for.
LEMMA ProcBeforeIrq ==
  ASSUME NEW m \in Asgn \cap DOMAIN InitOf, NEW t \in Seq(Steps), t # <<>>,
         NEW f \in [Resources -> Fates], Loading(m, t, f), Head(t) = "proc"
  PROVE  f.irq # "held"
<1>1. PICK k \in 1..Len(InitOf[m]) :
        /\ Head(t) = InitOf[m][k]
        /\ \A r : Past(m, t, r) <=> \E i \in 1..k - 1 : InitOf[m][i] = r
  BY BeforeHead DEF Loading
<1>2. ~Past(m, t, "irq")
  BY <1>1, InitTables DEF OrderedInit
<1> QED BY <1>2, LoadingFates DEF Resources

\* The same for the other modules, none of which has more than four steps.
LEMMA LabFails ==
  ASSUME NEW m \in DOMAIN InitOf \ Asgn, NEW t \in Seq(Steps), t # <<>>,
         NEW f \in [Resources -> Fates], Loading(m, t, f), ~Unnoticed(Head(t))
  PROVE  Failing(m, Undo(m, Head(t)), f)
<1> DEFINE u == InitOf[m]
           Taken(r) == Past(m, t, r)
<1>1. PICK k \in 1..Len(u) : /\ Head(t) = u[k]
                             /\ \A r : Taken(r) <=> \E i \in 1..k - 1 : u[i] = r
  BY BeforeHead DEF Loading
<1>2. \A r \in Resources :
        /\ ~Taken(r) => f[r] = "never"
        /\ f[r] \in {"never", "held"} \/ (r = "pins" /\ Taken("unpin") /\ f[r] = "released")
  BY LoadingFates DEF Taken
<1>3. OrderedInit(m, u)
  BY InitTables
<1> HIDE DEF Taken
<1>4. \A r \in Resources : f[r] \in {"never", "held"}
  <2>1. ~Taken("unpin")
    BY <1>1, <1>3 DEF OrderedInit, Asgn
  <2> QED BY <1>2, <2>1
<1>5. CASE m \in {"lab03_seek", "lab04_seek"}
  <2> DEFINE back == Undo(m, Head(t))
  <2>1. /\ u[1] = "major700" /\ u[2] = "cdev"
        /\ \/ m = "lab03_seek" /\ Len(u) = 4 /\ u[3] = "ramdisk" /\ u[4] = "add"
           \/ m = "lab04_seek" /\ Len(u) = 3 /\ u[3] = "add"
    BY <1>5 DEF InitOf, Lab03Init, Lab04Init
  <2> HIDE DEF u
  <2>2. k \in {1, 2, 3, 4} /\ (k = 3 => m = "lab04_seek") /\ (k = 4 => m = "lab03_seek")
    BY <1>1, <2>1 DEF Unnoticed
  <2>3. /\ \A r : Taken(r) => r \in {"major700", "cdev", "ramdisk"}
        /\ Taken("cdev") => k \in {3, 4}
        /\ Taken("major700") => k # 1
        /\ Taken("ramdisk") => k = 4
    BY <1>1, <2>1, <2>2
  <2>4. /\ k = 1 => back = <<>>
        /\ k = 2 => back = <<"major700">>
        /\ k = 3 => back = <<"cdev", "major700">>
        /\ k = 4 => back = <<"cdev", "major700", "ramdisk">>
    BY <1>1, <1>5, <2>1, <2>2 DEF Undo, Lab03Undo, Lab04Undo
  <2> HIDE DEF back
  <2>5. /\ Apart(m, back) /\ \A i \in DOMAIN back : back[i] \notin {"str", "irq", "pages"}
        /\ k > 1 => Due(back, "major700")
        /\ k > 2 => Due(back, "cdev")
        /\ k = 4 => Due(back, "ramdisk")
    BY <2>2, <2>4 DEF Apart, Due, Returns
  <2>6. {r \in Held(f) : ~Due(back, r)} = {}
    BY <1>2, <2>2, <2>3, <2>5 DEF Held
  <2>7. f.add # "held" /\ f.misc # "held"
    BY <1>2, <2>3 DEF Resources
  <2>8. Remains(m, {r \in Held(f) : ~Due(back, r)})
    BY <2>6 DEF Remains
  <2> QED BY <1>4, <2>5, <2>7, <2>8 DEF Failing, TwiceClass, back
<1>6. CASE m \notin {"lab03_seek", "lab04_seek"}
  <2>1. Undo(m, Head(t)) = <<>>
    BY <1>6 DEF Undo, Asgn
  <2>2. \/ m = "wait_event" /\ u[1] = "ramdisk" /\ u[2] = "misc" /\ Len(u) = 2
        \/ Len(u) \in {0, 1}
    BY <1>6 DEF InitOf, Asgn, MiscInit, ProcInit, MyProcInit, ListInit, Mutex1Init,
         Mutex2Init, Mutex3Init, Semaphore1Init, Semaphore2Init, Semaphore3Init
  <2> HIDE DEF u
  <2>3. \A r : Taken(r) => r = "ramdisk" /\ m = "wait_event"
    BY <1>1, <2>2
  <2>4. Held(f) \subseteq {"ramdisk"} /\ (Held(f) # {} => m = "wait_event")
    BY <1>2, <2>3 DEF Held
  <2>5. Remains(m, Held(f))
    BY <2>4 DEF Remains
  <2>6. f.add # "held" /\ f.misc # "held"
    BY <1>2, <2>3 DEF Resources
  <2> QED BY <1>4, <2>1, <2>5, <2>6, NothingDue
<1> QED BY <1>5, <1>6

\* What a module has after its init took a step, and after it gave something back.
Got(t, f) == [r \in Resources |-> IF r = Head(t) THEN "held"
                                  ELSE IF r = "pins" /\ Head(t) = "unpin" THEN "released"
                                  ELSE f[r]]
Given(t, f) == [r \in Resources |-> IF r \in Returns(Head(t)) THEN Once(f[r]) ELSE f[r]]

LEMMA SoundLoad ==
  ASSUME NEW m \in DOMAIN InitOf, NEW s \in {"out", "failed"}, NEW t, NEW f, NEW k \in Nat,
         Sound(m, s, t, f, k)
  PROVE  Sound(m, "init", InitOf[m], Fresh, k)
<1>1. InitOf[m] \in Seq(Steps)
  BY InitTables DEF OrderedInit
<1>2. \A r : ~Past(m, InitOf[m], r)
  BY <1>1 DEF Past
<1>3. \A i \in 1..Len(InitOf[m]) :
        InitOf[m][i] = InitOf[m][Len(InitOf[m]) - Len(InitOf[m]) + i]
  BY <1>1
<1>4. EndsWith(InitOf[m], InitOf[m])
  BY <1>1, <1>3 DEF EndsWith
<1>5. "never" \in StrFates(m)
  BY DEF StrFates
<1>6. \A r \in Resources : Fresh[r] = "never" /\ "never" \in InitFates(m, InitOf[m], r)
  BY <1>2, <1>5 DEF InitFates, Fresh
<1>7. Loading(m, InitOf[m], Fresh)
  BY <1>4, <1>6 DEF Loading
<1>8. k = 0
  BY DEF Sound
<1> QED BY <1>5, <1>6, <1>7, <1>8 DEF Sound, Resources

LEMMA SoundTake ==
  ASSUME NEW m \in DOMAIN InitOf, NEW s \in {"init", "waits"}, NEW t \in Seq(Steps), t # <<>>,
         NEW f \in [Resources -> Fates], NEW k \in Nat, Sound(m, s, t, f, k)
  PROVE  Sound(m, "init", Tail(t), Got(t, f), k)
<1> DEFINE u == InitOf[m]
           h == Head(t)
           g == Got(t, f)
<1>1. Loading(m, t, f) /\ f.str \in StrFates(m) /\ k = 0
  BY DEF Sound
<1>2. PICK p \in 1..Len(u) : /\ h = u[p]
                             /\ \A r : Past(m, t, r) <=> \E i \in 1..p - 1 : u[i] = r
  BY <1>1, BeforeHead DEF Loading
<1>3. OrderedInit(m, u)
  BY InitTables
<1>4. EndsWith(u, Tail(t)) /\ \A r : Past(m, Tail(t), r) <=> Past(m, t, r) \/ r = h
  BY <1>1, <1>3, TailEnds, PastTail DEF Loading, OrderedInit
<1> HIDE DEF u, h
<1>5. /\ h # "str" /\ (h = "unpin" => Past(m, t, "pins"))
      /\ m \in Asgn /\ h \in {"class", "irq"} => Past(m, t, "add")
  BY <1>2, <1>3 DEF OrderedInit
<1>6. h = "pins" => ~Past(m, t, "unpin")
  <2> SUFFICES ASSUME h = "pins", Past(m, t, "unpin") PROVE FALSE
    OBVIOUS
  <2>1. PICK i \in 1..p - 1 : u[i] = "unpin"
    BY <1>2
  <2>2. p \in Nat /\ Len(u) \in Nat /\ i \in 1..Len(u)
    BY <1>3 DEF OrderedInit
  <2>3. PICK j \in 1..i - 1 : u[j] = "pins"
    BY <2>1, <2>2, <1>3 DEF OrderedInit
  <2>4. j \in 1..Len(u) /\ j < p
    BY <2>2
  <2> QED BY <1>2, <1>3, <2>3, <2>4 DEF OrderedInit
<1>7. \A r \in Resources : g[r] = IF r = h THEN "held"
                                  ELSE IF r = "pins" /\ h = "unpin" THEN "released" ELSE f[r]
  BY DEF Got, h
<1> HIDE DEF g
<1>8. ASSUME NEW r \in Resources
      PROVE  g[r] \in InitFates(m, Tail(t), r)
  <2>1. f[r] \in InitFates(m, t, r)
    BY <1>1 DEF Loading
  <2>2. CASE r = "str"
    <3>1. g[r] = f[r] /\ f[r] = "never" /\ "never" \in StrFates(m)
      BY <1>5, <1>7, <2>1, <2>2 DEF InitFates, StrFates
    <3> QED BY <2>2, <3>1 DEF InitFates
  <2>3. CASE r # "str" /\ r = h
    BY <2>3, <1>4, <1>6, <1>7 DEF InitFates
  <2>4. CASE r # "str" /\ r # h /\ r = "pins"
    BY <2>1, <2>4, <1>4, <1>5, <1>7 DEF InitFates, Unnoticed
  <2>5. CASE r # "str" /\ r # h /\ r # "pins"
    BY <2>1, <2>5, <1>4, <1>7 DEF InitFates
  <2> QED BY <2>2, <2>3, <2>4, <2>5
<1>9. Loading(m, Tail(t), g)
  BY <1>4, <1>8 DEF Loading, u
<1>10. g.str = f.str
  BY <1>5, <1>7 DEF Resources
<1>11. m \in Asgn /\ (g.class # "never" \/ g.irq # "never") => g.add # "never"
  <2> SUFFICES ASSUME m \in Asgn, g.class # "never" \/ g.irq # "never" PROVE g.add # "never"
    OBVIOUS
  <2>1. CASE h \in {"class", "irq"}
    <3>1. f.add = "held"
      BY <2>1, <1>1, <1>5, LoadingFates DEF Unnoticed, Resources
    <3> QED BY <2>1, <3>1, <1>7 DEF Resources
  <2>2. CASE h \notin {"class", "irq"}
    <3>1. f.add # "never"
      BY <2>2, <1>7 DEF Sound, Resources
    <3> QED BY <3>1, <1>7 DEF Resources
  <2> QED BY <2>1, <2>2
<1> QED BY <1>1, <1>9, <1>10, <1>11 DEF Sound, g

LEMMA SoundSkip ==
  ASSUME NEW m \in DOMAIN InitOf, NEW t \in Seq(Steps), t # <<>>,
         NEW f \in [Resources -> Fates], NEW k \in Nat, Sound(m, "init", t, f, k),
         Unnoticed(Head(t))
  PROVE  Sound(m, "init", Tail(t), f, k)
<1> DEFINE u == InitOf[m]
           h == Head(t)
<1>1. Loading(m, t, f) /\ f.str \in StrFates(m) /\ k = 0
  BY DEF Sound
<1>2. PICK p \in 1..Len(u) : /\ h = u[p]
                             /\ \A r : Past(m, t, r) <=> \E i \in 1..p - 1 : u[i] = r
  BY <1>1, BeforeHead DEF Loading
<1>3. OrderedInit(m, u)
  BY InitTables
<1>4. EndsWith(u, Tail(t)) /\ \A r : Past(m, Tail(t), r) <=> Past(m, t, r) \/ r = h
  BY <1>1, <1>3, TailEnds, PastTail DEF Loading, OrderedInit
<1>5. ~Past(m, t, h)
  BY <1>2, <1>3, SMTT(30) DEF OrderedInit
<1> HIDE DEF u, h
<1>6. h \in {"ramdisk", "class"}
  BY DEF Unnoticed, h
<1>7. ASSUME NEW r \in Resources
      PROVE  f[r] \in InitFates(m, Tail(t), r)
  <2>1. f[r] \in InitFates(m, t, r)
    BY <1>1 DEF Loading
  <2>2. CASE r = "str"
    <3>1. f[r] = "never" /\ "never" \in StrFates(m)
      BY <2>1, <2>2 DEF InitFates, StrFates
    <3> QED BY <2>2, <3>1 DEF InitFates
  <2>3. CASE r # "str"
    BY <2>1, <2>3, <1>4, <1>5, <1>6 DEF InitFates, Unnoticed
  <2> QED BY <2>2, <2>3
<1>8. Loading(m, Tail(t), f)
  BY <1>4, <1>7 DEF Loading, u
<1> QED BY <1>1, <1>8 DEF Sound

LEMMA SoundFail ==
  ASSUME NEW m \in DOMAIN InitOf, NEW t \in Seq(Steps), t # <<>>,
         NEW f \in [Resources -> Fates], NEW k \in Nat, Sound(m, "init", t, f, k),
         ~Unnoticed(Head(t)), Head(t) # "unpin"
  PROVE  Sound(m, IF Crashes(m, Head(t)) THEN "oops" ELSE "fail", Undo(m, Head(t)), f, k)
<1> DEFINE h == Head(t)
           w == Undo(m, h)
<1>1. /\ Loading(m, t, f) /\ f.str \in StrFates(m) /\ k = 0
      /\ m \in Asgn /\ (f.class # "never" \/ f.irq # "never") => f.add # "never"
  BY DEF Sound
<1>2. PICK p \in 1..Len(InitOf[m]) :
        /\ h = InitOf[m][p]
        /\ \A r : Past(m, t, r) <=> \E i \in 1..p - 1 : InitOf[m][i] = r
  BY <1>1, BeforeHead DEF Loading
<1>3. OrderedInit(m, InitOf[m])
  BY InitTables
<1>4. CASE Crashes(m, h)
  <2>1. \A r \in Resources : f[r] # "twice"
    BY <1>1, LoadingFates
  <2>2. Crashed(m, f)
    <3>1. CASE h = "entries"
      BY <1>2, <1>3, <3>1 DEF OrderedInit, Crashed
    <3>3. CASE h = "gpiochip"
      <4>1. m = "asgn2"
        BY <1>2, <1>3, <3>3 DEF OrderedInit
      <4> QED BY <1>1, <3>3, <4>1, NoChip DEF Crashed
    <3>2. CASE m \in Asgn /\ h = "cdev"
      <4>1. ~Past(m, t, "add")
        BY <1>2, <1>3, <3>2 DEF OrderedInit
      <4> QED BY <1>1, <3>2, <4>1, LoadingFates DEF Resources, Crashed
    <3> QED BY <1>4, <3>1, <3>2, <3>3 DEF Crashes
  <2> HIDE DEF w
  <2>3. Sound(m, "oops", w, f, k)
    BY <1>1, <2>1, <2>2 DEF Sound
  <2> QED BY <1>4, <2>3 DEF w
<1>5. CASE ~Crashes(m, h)
  <2>1. Failing(m, w, f)
    <3>1. CASE m \in Asgn
      <4>1. h \notin {"class", "cdev", "unpin", "gpiochip"}
        BY <1>5, <3>1 DEF Crashes, Unnoticed
      <4> QED BY <1>1, <3>1, <4>1, Asgn1Fails, Asgn2Fails DEF Asgn
    <3>2. CASE m \notin Asgn
      BY <1>1, <3>2, LabFails
    <3> QED BY <3>1, <3>2
  <2> HIDE DEF w
  <2>2. Sound(m, "fail", w, f, k)
    BY <1>1, <2>1 DEF Sound
  <2> QED BY <1>5, <2>2 DEF w
<1> QED BY <1>4, <1>5

LEMMA SoundSleep ==
  ASSUME NEW m, NEW t, t # <<>>, NEW f, NEW k \in Nat, Sound(m, "init", t, f, k),
         Locks(m) # {}
  PROVE  Sound(m, "waits", t, f, k)
  BY DEF Sound

\* A signal finds that nothing has been taken.
LEMMA SoundSignal ==
  ASSUME NEW m \in DOMAIN InitOf, NEW t \in Seq(Steps), NEW f \in [Resources -> Fates],
         NEW k \in Nat, Sound(m, "waits", t, f, k)
  PROVE  Sound(m, "fail", <<>>, f, k)
<1>1. /\ Loading(m, t, f) /\ t # <<>> /\ Locks(m) # {} /\ f.str \in StrFates(m) /\ k = 0
      /\ m \in Asgn /\ (f.class # "never" \/ f.irq # "never") => f.add # "never"
  BY DEF Sound
<1>2. PICK r \in Locks(m) : InitOf[m] = <<r>>
  BY <1>1, LockTables
<1>3. Len(InitOf[m]) - Len(t) = 0
  BY <1>1, <1>2 DEF Loading, EndsWith
<1>4. \A q : ~Past(m, t, q)
  BY <1>3 DEF Past
<1>5. \A q \in Resources : f[q] = "never"
  BY <1>1, <1>4, LoadingFates
<1>6. Held(f) = {} /\ f.add # "held" /\ f.misc # "held"
  BY <1>5 DEF Held, Resources
<1>7. Failing(m, <<>>, f)
  BY <1>5, <1>6, NothingDue DEF Remains
<1> QED BY <1>1, <1>7 DEF Sound

LEMMA SoundLoaded ==
  ASSUME NEW m, NEW f, NEW k \in Nat, Sound(m, "init", <<>>, f, k)
  PROVE  Sound(m, "live", <<>>, f, k)
  BY DEF Sound

\* Once loaded, asgn has its list, and only asgn2 has given back anything.
LEMMA LoadedFates ==
  ASSUME NEW m \in DOMAIN InitOf, NEW f \in [Resources -> Fates], Loading(m, <<>>, f)
  PROVE  /\ m \in Asgn => f.add = "held"
         /\ \A r \in Resources \ {"str"} :
              f[r] \in {"never", "held"} \/ (m = "asgn2" /\ r = "pins" /\ f[r] = "released")
<1>1. OrderedInit(m, InitOf[m])
  BY InitTables
<1>2. \A r : Past(m, <<>>, r) <=> \E i \in 1..Len(InitOf[m]) : InitOf[m][i] = r
  BY <1>1 DEF Past, OrderedInit
<1>3. m \in Asgn => Past(m, <<>>, "add")
  BY <1>1, <1>2 DEF OrderedInit
<1>4. Past(m, <<>>, "unpin") => m = "asgn2"
  BY <1>1, <1>2 DEF OrderedInit
<1>5. m \in Asgn => f.add = "held"
  <2>1. f["add"] \in InitFates(m, <<>>, "add")
    BY DEF Loading, Resources
  <2> QED BY <2>1, <1>3 DEF InitFates, Unnoticed
<1>6. ASSUME NEW r \in Resources \ {"str"}
      PROVE  f[r] \in {"never", "held"} \/ (m = "asgn2" /\ r = "pins" /\ f[r] = "released")
  <2>1. f[r] \in InitFates(m, <<>>, r)
    BY DEF Loading
  <2> QED BY <2>1, <1>4 DEF InitFates
<1> QED BY <1>5, <1>6

LEMMA SoundUnload ==
  ASSUME NEW m \in DOMAIN InitOf, NEW t, NEW f \in [Resources -> Fates],
         Sound(m, "live", t, f, 0)
  PROVE  Sound(m, "exit", ExitOf[m], f, 0)
<1> DEFINE u == InitOf[m]
           v == ExitOf[m]
<1>1. /\ Loading(m, <<>>, f) /\ f.str \in StrFates(m)
      /\ m \in Asgn /\ (f.class # "never" \/ f.irq # "never") => f.add # "never"
  BY DEF Sound
<1>2. OrderedInit(m, u) /\ OrderedExit(m, v) /\ Covers(u, v)
  BY InitTables, ExitTables
<1> HIDE DEF u, v
<1>3. v \in Seq(Steps) /\ u \in Seq(Steps)
  BY <1>2 DEF OrderedInit, OrderedExit
<1>4. \A i \in 1..Len(v) : v[i] = v[Len(v) - Len(v) + i]
  BY <1>3
<1>5. EndsWith(v, v)
  BY <1>3, <1>4 DEF EndsWith
<1>6. \A r : Past(m, <<>>, r) <=> \E i \in 1..Len(u) : u[i] = r
  BY <1>3 DEF Past, u
<1>7. ASSUME NEW r \in Resources \ {"str"}
      PROVE  IF Due(v, r) THEN \/ f[r] \in {"never", "held"}
                               \/ m = "asgn2" /\ r = "pins" /\ f[r] = "released"
             ELSE Returned(m, r, f[r])
  <2>1. f[r] \in InitFates(m, <<>>, r)
    BY <1>1 DEF Loading
  <2>2. CASE Past(m, <<>>, r)
    <3>1. Due(v, r)
      BY <1>2, <1>6, <2>2 DEF Covers
    <3>2. Past(m, <<>>, "unpin") => m = "asgn2"
      BY <1>2, <1>6 DEF OrderedInit
    <3> QED BY <2>1, <2>2, <3>1, <3>2 DEF InitFates
  <2>3. CASE ~Past(m, <<>>, r)
    <3>1. f[r] = "never"
      BY <2>1, <2>3 DEF InitFates
    <3> QED BY <3>1 DEF Returned
  <2> QED BY <2>2, <2>3
<1>8. Unloading(m, v, f)
  BY <1>1, <1>5, <1>7, LoadedFates DEF Unloading, v
<1> QED BY <1>1, <1>8 DEF Sound, v

LEMMA OnceFates ==
  /\ \A x \in Fates : Once(x) \in Fates /\ Once(x) # "held" /\ (Once(x) = "never" <=> x = "never")
                      /\ (Once(x) = "twice" => x \in {"released", "twice"})
                      /\ (Once(x) = "released" => x = "held")
  /\ Once("never") = "never" /\ Once("held") = "released" /\ Once("released") = "twice"
  BY DEF Once, Fates

\* In what follows its head, a suffix of an exit table does not give the same back.
LEMMA ExitDistinct ==
  ASSUME NEW m, NEW u, OrderedExit(m, u), NEW t \in Seq(Steps), t # <<>>, EndsWith(u, t),
         NEW r, r \in Returns(Head(t))
  PROVE  ~Due(Tail(t), r)
<1>1. /\ Len(t) \in Nat /\ Len(t) >= 1 /\ Len(Tail(t)) = Len(t) - 1
      /\ \A i \in 1..Len(t) - 1 : Tail(t)[i] = t[i + 1]
      /\ Head(t) = t[1] /\ DOMAIN Tail(t) = 1..Len(t) - 1
  OBVIOUS
<1>2. Len(u) \in Nat
  BY DEF OrderedExit
<1> DEFINE d == Len(u) - Len(t)
<1>3. d \in Nat /\ \A i \in 1..Len(t) : t[i] = u[d + i]
  BY <1>1, <1>2 DEF EndsWith
<1>4. ASSUME NEW i \in 1..Len(t) - 1, r \in Returns(Tail(t)[i])
      PROVE  FALSE
  <2>1. d + 1 \in 1..Len(u) /\ d + (i + 1) \in 1..Len(u) /\ d + 1 # d + (i + 1)
    BY <1>1, <1>2, <1>3
  <2>2. Tail(t)[i] = u[d + (i + 1)]
    <3>1. i + 1 \in 1..Len(t) /\ Tail(t)[i] = t[i + 1]
      BY <1>1
    <3> QED BY <3>1, <1>3
  <2>3. Head(t) = u[d + 1]
    BY <1>1, <1>3
  <2> HIDE DEF d
  <2> QED BY <1>4, <2>1, <2>2, <2>3 DEF OrderedExit
<1> QED BY <1>1, <1>4 DEF Due

LEMMA ApartTail ==
  ASSUME NEW m, NEW t \in Seq(Steps), t # <<>>, Apart(m, t)
  PROVE  /\ Apart(m, Tail(t))
         /\ \A r : r \in Returns(Head(t)) /\ Due(Tail(t), r) => r = "class" /\ m \in Asgn
<1>1. /\ Len(t) \in Nat /\ Len(t) >= 1 /\ Len(Tail(t)) = Len(t) - 1
      /\ \A i \in 1..Len(t) - 1 : Tail(t)[i] = t[i + 1]
      /\ Head(t) = t[1] /\ DOMAIN Tail(t) = 1..Len(t) - 1 /\ DOMAIN t = 1..Len(t)
  OBVIOUS
<1>2. \A i \in 1..Len(t) - 1 : i + 1 \in DOMAIN t /\ i + 1 # 1 /\ 1 \in DOMAIN t
  BY <1>1
<1>3. Apart(m, Tail(t))
  BY <1>1, <1>2 DEF Apart
<1>4. ASSUME NEW r, r \in Returns(Head(t)), NEW i \in 1..Len(t) - 1, r \in Returns(Tail(t)[i])
      PROVE  r = "class" /\ m \in Asgn
  <2>1. r \in Returns(t[1]) \cap Returns(t[i + 1])
    BY <1>1, <1>4
  <2>2. Returns(t[1]) \cap Returns(t[i + 1]) \subseteq (IF m \in Asgn THEN {"class"} ELSE {})
    BY <1>2 DEF Apart
  <2> QED BY <2>1, <2>2
<1> QED BY <1>1, <1>3, <1>4 DEF Due

LEMMA UnloadingRelease ==
  ASSUME NEW m \in DOMAIN InitOf, NEW t \in Seq(Steps), t # <<>>,
         NEW f \in [Resources -> Fates], Unloading(m, t, f)
  PROVE  Unloading(m, Tail(t), Given(t, f)) /\ Head(t) # "str"
<1> DEFINE v == ExitOf[m]
           h == Head(t)
           g == Given(t, f)
<1>1. OrderedExit(m, v) /\ v \in Seq(Steps) /\ EndsWith(v, t)
  BY ExitTables DEF OrderedExit, Unloading
<1>2. EndsWith(v, Tail(t)) /\ \E p \in 1..Len(v) : h = v[p]
  BY <1>1, TailEnds
<1>3. h # "str"
  BY <1>1, <1>2 DEF OrderedExit
<1>4. \A r : Due(t, r) <=> r \in Returns(h) \/ Due(Tail(t), r)
  BY DueTail
<1>5. \A r : r \in Returns(h) => ~Due(Tail(t), r)
  BY <1>1, ExitDistinct
<1>6. \A r \in Resources : g[r] = IF r \in Returns(h) THEN Once(f[r]) ELSE f[r]
  BY DEF Given
<1> HIDE DEF g, h, v
<1>7. ASSUME NEW r \in Resources \ {"str"}
      PROVE  IF Due(Tail(t), r)
             THEN g[r] \in {"never", "held"} \/ (m = "asgn2" /\ r = "pins" /\ g[r] = "released")
             ELSE Returned(m, r, g[r])
  <2>1. IF Due(t, r) THEN f[r] \in {"never", "held"} \/ (m = "asgn2" /\ r = "pins" /\ f[r] = "released")
        ELSE Returned(m, r, f[r])
    BY DEF Unloading
  <2>2. CASE r \in Returns(h)
    <3>1. g[r] = Once(f[r]) /\ Due(t, r) /\ ~Due(Tail(t), r)
      BY <2>2, <1>4, <1>5, <1>6
    <3> QED BY <2>1, <3>1, OnceFates DEF Returned
  <2>3. CASE r \notin Returns(h)
    BY <2>1, <2>3, <1>4, <1>6
  <2> QED BY <2>2, <2>3
<1>8. m \in Asgn => g.add # "never"
  BY <1>6, OnceFates DEF Unloading, Resources
<1>9. Unloading(m, Tail(t), g)
  BY <1>2, <1>7, <1>8 DEF Unloading, v
<1> QED BY <1>3, <1>9 DEF g, h

LEMMA FailingRelease ==
  ASSUME NEW m, NEW t \in Seq(Steps), t # <<>>,
         NEW f \in [Resources -> Fates], Failing(m, t, f)
  PROVE  Failing(m, Tail(t), Given(t, f)) /\ Head(t) \notin {"str", "irq"}
<1> DEFINE h == Head(t)
           g == Given(t, f)
<1>1. /\ Len(t) \in Nat /\ Len(t) >= 1 /\ DOMAIN t = 1..Len(t) /\ h = t[1]
      /\ DOMAIN Tail(t) = 1..Len(t) - 1 /\ \A i \in 1..Len(t) - 1 : Tail(t)[i] = t[i + 1]
  OBVIOUS
<1>2. \A i \in DOMAIN t : t[i] \notin {"str", "irq"} /\ (t[i] = "pages" => m \in Asgn)
  BY DEF Failing
<1>3. /\ h \notin {"str", "irq"}
      /\ \A i \in DOMAIN Tail(t) :
           Tail(t)[i] \notin {"str", "irq"} /\ (Tail(t)[i] = "pages" => m \in Asgn)
  <2>1. \A i \in 1..Len(t) - 1 : i + 1 \in DOMAIN t
    BY <1>1
  <2> QED BY <1>1, <1>2, <2>1
<1>4. \A r : Due(t, r) <=> r \in Returns(h) \/ Due(Tail(t), r)
  BY DueTail
<1>5. /\ Apart(m, Tail(t))
      /\ \A r : r \in Returns(h) /\ Due(Tail(t), r) => r = "class" /\ m \in Asgn
  BY ApartTail DEF Failing
<1>6. \A r \in Resources : g[r] = IF r \in Returns(h) THEN Once(f[r]) ELSE f[r]
  BY DEF Given
<1> HIDE DEF g, h
<1>7. {r \in Held(g) : ~Due(Tail(t), r)} = {r \in Held(f) : ~Due(t, r)}
  BY <1>4, <1>6, OnceFates DEF Held
<1>8. Remains(m, {r \in Held(g) : ~Due(Tail(t), r)})
  BY <1>7 DEF Failing
<1>9. ASSUME NEW r \in Resources, g[r] = "released"
      PROVE  ~Due(Tail(t), r) \/ (m \in Asgn /\ r = "class")
  BY <1>4, <1>5, <1>6, <1>9 DEF Failing
<1>10. ASSUME NEW r \in Resources, g[r] = "twice"
       PROVE  m \in Asgn /\ r = "class"
  <2>1. CASE r \in Returns(h)
    <3>1. f[r] \in {"released", "twice"} /\ Due(t, r)
      BY <2>1, <1>4, <1>6, <1>10, OnceFates
    <3> QED BY <3>1 DEF Failing, TwiceClass
  <2>2. CASE r \notin Returns(h)
    BY <2>2, <1>6, <1>10 DEF Failing, TwiceClass
  <2> QED BY <2>1, <2>2
<1>11. m \in {"lab03_seek", "wait_event"} => g.add # "held" /\ g.misc # "held"
  BY <1>6, OnceFates DEF Failing, Resources
<1>12. Failing(m, Tail(t), g)
  BY <1>3, <1>5, <1>8, <1>9, <1>10, <1>11 DEF Failing, TwiceClass
<1> QED BY <1>3, <1>12 DEF g, h

LEMMA SoundRelease ==
  ASSUME NEW m \in DOMAIN InitOf, NEW s \in {"fail", "exit"}, NEW t \in Seq(Steps), t # <<>>,
         NEW f \in [Resources -> Fates], NEW k \in Nat, Sound(m, s, t, f, k)
  PROVE  Sound(m, s, Tail(t), Given(t, f), k)
<1> DEFINE g == Given(t, f)
<1>1. /\ s = "fail" => Failing(m, Tail(t), g)
      /\ s = "exit" => Unloading(m, Tail(t), g)
      /\ Head(t) # "str"
  BY FailingRelease, UnloadingRelease DEF Sound
<1>2. \A r \in Resources : g[r] = IF r \in Returns(Head(t)) THEN Once(f[r]) ELSE f[r]
  BY DEF Given
<1> HIDE DEF g
<1>3. \A r \in Resources : g[r] = "never" <=> f[r] = "never"
  BY <1>2, OnceFates
<1>4. "str" \notin Returns(Head(t))
  BY <1>1 DEF Returns
<1>5. g.str = f.str
  BY <1>2, <1>4 DEF Resources
<1>6. m \in Asgn /\ (g.class # "never" \/ g.irq # "never") => g.add # "never"
  BY <1>3 DEF Sound, Resources
<1>7. f.str \in StrFates(m) /\ ~(k > 0)
  BY DEF Sound
<1>8. Sound(m, s, Tail(t), g, k)
  BY <1>1, <1>5, <1>6, <1>7 DEF Sound
<1> QED BY <1>8 DEF g

LEMMA SoundFree ==
  ASSUME NEW m \in DOMAIN InitOf, NEW s \in {"fail", "exit"}, NEW t \in Seq(Steps), t # <<>>,
         Head(t) = "pages", NEW f \in [Resources -> Fates], NEW k \in Nat, Sound(m, s, t, f, k)
  PROVE  /\ m \in Asgn /\ Sound(m, s, Tail(t), f, k)
         /\ f.add = "never" => Sound(m, "oops", Tail(t), f, k)
<1>1. "pages" \notin Resources /\ Returns("pages") = {"pages"}
  BY DEF Resources, Returns
<1>2. Given(t, f) = [r \in Resources |-> f[r]]
  BY <1>1 DEF Given
<1>3. Given(t, f) = f
  BY <1>2
<1>4. Sound(m, s, Tail(t), f, k)
  BY <1>3, SoundRelease
<1>5. m \in Asgn
  <2>1. CASE s = "fail"
    <3>1. 1 \in DOMAIN t /\ t[1] = "pages"
      OBVIOUS
    <3> QED BY <2>1, <3>1 DEF Sound, Failing
  <2>2. CASE s = "exit"
    <3>1. OrderedExit(m, ExitOf[m]) /\ EndsWith(ExitOf[m], t)
      BY <2>2, ExitTables DEF Sound, Unloading
    <3>2. PICK i \in 1..Len(ExitOf[m]) : ExitOf[m][i] = "pages"
      BY <3>1, TailEnds DEF OrderedExit
    <3> QED BY <3>1, <3>2 DEF OrderedExit
  <2> QED BY <2>1, <2>2
<1>6. ASSUME f.add = "never" PROVE Sound(m, "oops", Tail(t), f, k)
  <2>1. s = "fail"
    BY <1>5, <1>6 DEF Sound, Unloading
  <2>2. f.class = "never"
    BY <1>5, <1>6 DEF Sound
  <2>3. \A r \in Resources : f[r] # "twice"
    BY <2>1, <2>2 DEF Sound, Failing, TwiceClass
  <2>4. f.str \in StrFates(m) /\ ~(k > 0) /\ f.irq = "never"
    BY <2>1, <1>5, <1>6 DEF Sound
  <2> QED BY <1>5, <1>6, <2>2, <2>3, <2>4 DEF Sound, Crashed
<1> QED BY <1>4, <1>5, <1>6

LEMMA SoundGone ==
  ASSUME NEW m, NEW s \in {"fail", "exit"}, NEW f \in [Resources -> Fates],
         NEW k \in Nat, Sound(m, s, <<>>, f, k)
  PROVE  Sound(m, IF s = "fail" THEN "failed" ELSE "out", <<>>, f, k)
<1>1. /\ f.str \in StrFates(m) /\ ~(k > 0)
      /\ m \in Asgn /\ (f.class # "never" \/ f.irq # "never") => f.add # "never"
  BY DEF Sound
<1>2. \A r : ~Due(<<>>, r)
  BY DEF Due
<1>3. CASE s = "fail"
  <2>1. {r \in Held(f) : ~Due(<<>>, r)} = Held(f)
    BY <1>2
  <2>2. Remains(m, Held(f)) /\ TwiceClass(m, f)
    BY <1>3, <2>1 DEF Sound, Failing
  <2> QED BY <1>1, <1>3, <2>2 DEF Sound
<1>4. CASE s = "exit"
  <2>1. \A r \in Resources \ {"str"} : Returned(m, r, f[r])
    BY <1>2, <1>4 DEF Sound, Unloading
  <2> QED BY <1>1, <1>4, <2>1 DEF Sound
<1> QED BY <1>3, <1>4

LEMMA SoundOpen ==
  ASSUME NEW m \in Devices \cap DOMAIN InitOf, NEW s \in {"init", "live"}, NEW t \in Seq(Steps),
         NEW f \in [Resources -> Fates], NEW k \in Nat, Sound(m, s, t, f, k),
         Held(f) \cap {"add", "misc"} # {}, m \in Asgn => "device" \in Held(f)
  PROVE  Sound(m, s, t, f, k + 1)
<1>1. ASSUME s = "init", t # <<>> PROVE FALSE
  <2>1. PICK r \in Held(f) : r \in (IF m \in Asgn THEN {"device"} ELSE {"add", "misc"})
    OBVIOUS
  <2>2. Loading(m, t, f) /\ r \in Resources /\ f[r] = "held"
    BY <1>1, <2>1 DEF Sound, Held
  <2>3. PICK p \in 1..Len(InitOf[m]) :
          \A q : Past(m, t, q) <=> \E i \in 1..p - 1 : InitOf[m][i] = q
    BY <1>1, <2>2, BeforeHead DEF Loading
  <2>4. Past(m, t, r)
    BY <1>1, <2>2, LoadingFates
  <2>5. PICK i \in 1..p - 1 : InitOf[m][i] = r
    BY <2>3, <2>4
  <2>6. OrderedInit(m, InitOf[m])
    BY InitTables
  <2>7. i \in 1..Len(InitOf[m]) /\ i # Len(InitOf[m])
    BY <2>6 DEF OrderedInit
  <2> QED BY <2>1, <2>5, <2>6, <2>7 DEF OrderedInit
<1> QED BY <1>1 DEF Sound

LEMMA SoundClose ==
  ASSUME NEW m, NEW s, NEW t, NEW f, NEW k \in Nat, k > 0, Sound(m, s, t, f, k)
  PROVE  Sound(m, s, t, f, k - 1)
  BY DEF Sound

LEMMA SoundWrite ==
  ASSUME NEW m \in {"lab4_proc", "my_proc"}, NEW s \in {"init", "live"}, NEW t \in Seq(Steps),
         NEW f \in [Resources -> Fates], NEW k \in Nat, Sound(m, s, t, f, k),
         f.proc = "held", NEW v \in StrFates(m)
  PROVE  Sound(m, s, t, [f EXCEPT !.str = v], k)
<1> DEFINE g == [f EXCEPT !.str = v]
<1>1. g.str = v /\ \A r \in Resources \ {"str"} : g[r] = f[r]
  BY DEF Resources
<1>2. Loading(m, t, f)
  BY DEF Sound
<1>3. t = <<>>
  <2> SUFFICES ASSUME t # <<>> PROVE FALSE
    OBVIOUS
  <2>1. InitOf[m] = <<"proc">> /\ m \in DOMAIN InitOf
    BY DEF InitOf, ProcInit, MyProcInit
  <2>2. PICK p \in 1..1 : \A r : Past(m, t, r) <=> \E i \in 1..p - 1 : InitOf[m][i] = r
    BY <1>2, <2>1, BeforeHead DEF Loading
  <2>3. ~Past(m, t, "proc")
    BY <2>2
  <2> QED BY <1>2, <2>3, LoadingFates DEF Resources
<1> HIDE DEF g
<1>4. ASSUME NEW r \in Resources PROVE g[r] \in InitFates(m, t, r)
  <2>1. f[r] \in InitFates(m, t, r)
    BY <1>2 DEF Loading
  <2>2. CASE r = "str"
    BY <2>2, <1>1, <1>3 DEF InitFates
  <2>3. CASE r # "str"
    BY <2>1, <2>3, <1>1
  <2> QED BY <2>2, <2>3
<1>5. Loading(m, t, g)
  BY <1>2, <1>4 DEF Loading
<1>6. m \notin Asgn /\ m \notin Devices
  BY DEF Asgn, Devices
<1>7. Sound(m, s, t, g, k)
  BY <1>1, <1>5, <1>6 DEF Sound
<1> QED BY <1>7 DEF g

-----------------------------------------------------------------------------
(* Every step keeps every module sound.                                    *)

SoundInv ==
  /\ st \in [Modules -> States] /\ todo \in [Modules -> Seq(Steps)]
  /\ res \in [Modules -> [Resources -> Fates]] /\ files \in [Modules -> 0..MaxFiles]
  /\ \A m \in Modules : Sound(m, st[m], todo[m], res[m], files[m])

LEMMA KnownModules == ASSUME NEW m \in Modules PROVE m \in DOMAIN InitOf
  BY GroupsAssumption DEF Modules

LEMMA UndoType == ASSUME NEW m, NEW r PROVE Undo(m, r) \in Seq(Steps)
<1>1. <<>> \in Seq(Steps)
  OBVIOUS
<1>2. <<"pins">> \o Asgn2Fail \in Seq(Steps) /\ <<>> \o Asgn2Fail \in Seq(Steps)
      /\ Asgn1Fail = Asgn2Fail /\ Asgn2Fail \in Seq(Steps)
  BY AsgnFailTable
<1>3. Lab03Undo(r) \in Seq(Steps) /\ Lab04Undo(r) \in Seq(Steps)
  <2>1. /\ <<"cdev", "major700", "ramdisk">> \in Seq(Steps) /\ <<"cdev", "major700">> \in Seq(Steps)
        /\ <<"major700">> \in Seq(Steps)
    BY DEF Steps, Resources
  <2> QED BY <1>1, <2>1 DEF Lab03Undo, Lab04Undo
<1>4. Asgn1Undo(r) \in Seq(Steps)
  BY <1>1, <1>2 DEF Asgn1Undo
<1>5. Asgn2Undo(r) \in Seq(Steps)
  BY <1>1, <1>2 DEF Asgn2Undo, GpioUndo
<1> QED BY <1>1, <1>3, <1>4, <1>5 DEF Undo

\* One module moves from a sound state to a sound state.
LEMMA OneMoves ==
  ASSUME SoundInv, NEW m \in Modules, NEW s \in States, NEW t \in Seq(Steps),
         NEW f \in [Resources -> Fates], NEW k \in 0..MaxFiles, Sound(m, s, t, f, k),
         st' = [st EXCEPT ![m] = s], todo' = [todo EXCEPT ![m] = t],
         res' = [res EXCEPT ![m] = f], files' = [files EXCEPT ![m] = k]
  PROVE  SoundInv'
<1>1. /\ st' \in [Modules -> States] /\ todo' \in [Modules -> Seq(Steps)]
      /\ res' \in [Modules -> [Resources -> Fates]] /\ files' \in [Modules -> 0..MaxFiles]
  BY DEF SoundInv
<1>2. ASSUME NEW n \in Modules
      PROVE  Sound(n, st'[n], todo'[n], res'[n], files'[n])
  <2>1. CASE n = m
    <3>1. st'[n] = s /\ todo'[n] = t /\ res'[n] = f /\ files'[n] = k
      BY <2>1 DEF SoundInv
    <3> QED BY <2>1, <3>1
  <2>2. CASE n # m
    <3>1. st'[n] = st[n] /\ todo'[n] = todo[n] /\ res'[n] = res[n] /\ files'[n] = files[n]
      BY <2>2 DEF SoundInv
    <3>2. Sound(n, st[n], todo[n], res[n], files[n])
      BY DEF SoundInv
    <3> QED BY <3>1, <3>2
  <2> QED BY <2>1, <2>2
<1> QED BY <1>1, <1>2 DEF SoundInv

\* What SoundInv says of one module.
LEMMA OfOne ==
  ASSUME SoundInv, NEW m \in Modules
  PROVE  /\ m \in DOMAIN InitOf
         /\ st[m] \in States /\ todo[m] \in Seq(Steps) /\ res[m] \in [Resources -> Fates]
         /\ files[m] \in 0..MaxFiles /\ files[m] \in Nat
         /\ Sound(m, st[m], todo[m], res[m], files[m])
         /\ st = [st EXCEPT ![m] = st[m]] /\ todo = [todo EXCEPT ![m] = todo[m]]
         /\ res = [res EXCEPT ![m] = res[m]] /\ files = [files EXCEPT ![m] = files[m]]
  BY KnownModules, ModulesAssumption DEF SoundInv

LEMMA InvLoad ==
  ASSUME SoundInv, NEW m \in Modules, Load(m)
  PROVE  SoundInv'
<1>0. /\ m \in DOMAIN InitOf
      /\ st[m] \in States /\ todo[m] \in Seq(Steps) /\ res[m] \in [Resources -> Fates]
      /\ files[m] \in 0..MaxFiles /\ files[m] \in Nat
      /\ Sound(m, st[m], todo[m], res[m], files[m])
      /\ st = [st EXCEPT ![m] = st[m]] /\ todo = [todo EXCEPT ![m] = todo[m]]
      /\ res = [res EXCEPT ![m] = res[m]] /\ files = [files EXCEPT ![m] = files[m]]
  BY OfOne
<1>1. /\ st[m] \in {"out", "failed"} /\ st' = [st EXCEPT ![m] = "init"]
      /\ todo' = [todo EXCEPT ![m] = InitOf[m]] /\ res' = [res EXCEPT ![m] = Fresh]
      /\ files' = files
  BY DEF Load, Away, working
<1>2. Sound(m, "init", InitOf[m], Fresh, files[m])
  BY <1>1, <1>0, SoundLoad
<1>3. InitOf[m] \in Seq(Steps) /\ Fresh \in [Resources -> Fates] /\ "init" \in States
  BY <1>0, InitTables DEF OrderedInit, Fresh, Fates, States
<1> QED BY <1>1, <1>2, <1>3, <1>0, OneMoves

LEMMA InvTake ==
  ASSUME SoundInv, NEW m \in Modules, Take(m)
  PROVE  SoundInv'
<1>0. /\ m \in DOMAIN InitOf
      /\ st[m] \in States /\ todo[m] \in Seq(Steps) /\ res[m] \in [Resources -> Fates]
      /\ files[m] \in 0..MaxFiles /\ files[m] \in Nat
      /\ Sound(m, st[m], todo[m], res[m], files[m])
      /\ st = [st EXCEPT ![m] = st[m]] /\ todo = [todo EXCEPT ![m] = todo[m]]
      /\ res = [res EXCEPT ![m] = res[m]] /\ files = [files EXCEPT ![m] = files[m]]
  BY OfOne
<1>1. /\ st[m] \in {"init", "waits"} /\ todo[m] # <<>> /\ st' = [st EXCEPT ![m] = "init"]
      /\ todo' = [todo EXCEPT ![m] = Tail(todo[m])]
      /\ res' = [res EXCEPT ![m] = Got(todo[m], res[m])] /\ files' = files
  BY DEF Take, Got, Step, working
<1>2. Sound(m, "init", Tail(todo[m]), Got(todo[m], res[m]), files[m])
  BY <1>1, <1>0, SoundTake
<1>3. Tail(todo[m]) \in Seq(Steps) /\ "init" \in States
  BY <1>1, <1>0 DEF States
<1>4. Got(todo[m], res[m]) \in [Resources -> Fates]
  BY <1>0 DEF Got, Fates
<1> QED BY <1>1, <1>2, <1>3, <1>4, <1>0, OneMoves

LEMMA InvFails ==
  ASSUME SoundInv, NEW m \in Modules, StepFails(m)
  PROVE  SoundInv'
<1>0. /\ m \in DOMAIN InitOf
      /\ st[m] \in States /\ todo[m] \in Seq(Steps) /\ res[m] \in [Resources -> Fates]
      /\ files[m] \in 0..MaxFiles /\ files[m] \in Nat
      /\ Sound(m, st[m], todo[m], res[m], files[m])
      /\ st = [st EXCEPT ![m] = st[m]] /\ todo = [todo EXCEPT ![m] = todo[m]]
      /\ res = [res EXCEPT ![m] = res[m]] /\ files = [files EXCEPT ![m] = files[m]]
  BY OfOne
<1> DEFINE h == Head(todo[m])
           s == IF Crashes(m, h) THEN "oops" ELSE "fail"
<1>1. st[m] = "init" /\ todo[m] # <<>> /\ res' = res /\ files' = files /\ h # "unpin"
  BY ModulesAssumption DEF StepFails, Step, working, Resources
<1>2. CASE Unnoticed(h)
  <2>1. todo' = [todo EXCEPT ![m] = Tail(todo[m])] /\ st' = st
    BY <1>2 DEF StepFails, Step
  <2>2. Sound(m, st[m], Tail(todo[m]), res[m], files[m])
    BY <1>1, <1>2, <1>0, SoundSkip
  <2>3. Tail(todo[m]) \in Seq(Steps)
    BY <1>1, <1>0
  <2> QED BY <1>1, <2>1, <2>2, <2>3, <1>0, OneMoves
<1>3. CASE ~Unnoticed(h)
  <2>1. todo' = [todo EXCEPT ![m] = Undo(m, h)] /\ st' = [st EXCEPT ![m] = s]
    BY <1>3 DEF StepFails, Step
  <2>2. Sound(m, s, Undo(m, h), res[m], files[m])
    BY <1>1, <1>3, <1>0, SoundFail
  <2>3. s \in States
    BY DEF States
  <2> HIDE DEF s, h
  <2> QED BY <1>1, <2>1, <2>2, <2>3, <1>0, OneMoves, UndoType
<1> QED BY <1>2, <1>3

LEMMA InvState ==
  ASSUME SoundInv, NEW m \in Modules, Sleep(m) \/ Signal(m) \/ Loaded(m) \/ Gone(m) \/ Unload(m)
  PROVE  SoundInv'
<1>0. /\ m \in DOMAIN InitOf
      /\ st[m] \in States /\ todo[m] \in Seq(Steps) /\ res[m] \in [Resources -> Fates]
      /\ files[m] \in 0..MaxFiles /\ files[m] \in Nat
      /\ Sound(m, st[m], todo[m], res[m], files[m])
      /\ st = [st EXCEPT ![m] = st[m]] /\ todo = [todo EXCEPT ![m] = todo[m]]
      /\ res = [res EXCEPT ![m] = res[m]] /\ files = [files EXCEPT ![m] = files[m]]
  BY OfOne
<1>1. res' = res /\ files' = files /\ <<>> \in Seq(Steps)
  BY DEF Sleep, Signal, Loaded, Gone, Unload, working
<1>2. CASE Sleep(m)
  <2>1. Sound(m, "waits", todo[m], res[m], files[m]) /\ "waits" \in States
    BY <1>2, <1>0, SoundSleep DEF Sleep, States
  <2>2. todo' = [todo EXCEPT ![m] = todo[m]] /\ st' = [st EXCEPT ![m] = "waits"]
        /\ res' = [res EXCEPT ![m] = res[m]] /\ files' = [files EXCEPT ![m] = files[m]]
    BY <1>0, <1>1, <1>2 DEF Sleep
  <2> QED BY <1>0, <2>1, <2>2, OneMoves
<1>3. CASE Signal(m)
  <2>1. Sound(m, "fail", <<>>, res[m], files[m]) /\ "fail" \in States
    BY <1>3, <1>0, SoundSignal DEF Signal, States
  <2> QED BY <1>1, <1>3, <2>1, <1>0, OneMoves DEF Signal
<1>4. CASE Loaded(m)
  <2>1. st[m] = "init" /\ todo[m] = <<>> /\ Sound(m, "init", <<>>, res[m], files[m])
    BY <1>4, <1>0 DEF Loaded
  <2>2. Sound(m, "live", todo[m], res[m], files[m]) /\ "live" \in States
    BY <2>1, <1>0, SoundLoaded DEF States
  <2>3. todo' = [todo EXCEPT ![m] = todo[m]] /\ st' = [st EXCEPT ![m] = "live"]
        /\ res' = [res EXCEPT ![m] = res[m]] /\ files' = [files EXCEPT ![m] = files[m]]
    BY <1>0, <1>1, <1>4 DEF Loaded
  <2> QED BY <1>0, <2>2, <2>3, OneMoves
<1>5. CASE Gone(m)
  <2> DEFINE s == IF st[m] = "fail" THEN "failed" ELSE "out"
  <2>1. /\ st[m] \in {"fail", "exit"} /\ todo[m] = <<>> /\ todo' = todo
        /\ st' = [st EXCEPT ![m] = s]
    BY <1>5 DEF Gone
  <2>2. Sound(m, st[m], <<>>, res[m], files[m])
    BY <2>1, <1>0
  <2>3. Sound(m, s, todo[m], res[m], files[m]) /\ s \in States
    <3>1. st[m] \in {"fail", "exit"} /\ Sound(m, s, <<>>, res[m], files[m])
      BY <2>1, <2>2, <1>0, SoundGone
    <3>2. s \in States
      BY DEF States
    <3> HIDE DEF s
    <3> QED BY <2>1, <3>1, <3>2
  <2> HIDE DEF s
  <2> QED BY <1>1, <2>1, <2>3, <1>0, OneMoves
<1>6. CASE Unload(m)
  <2>1. /\ st[m] = "live" /\ files[m] = 0 /\ st' = [st EXCEPT ![m] = "exit"]
        /\ todo' = [todo EXCEPT ![m] = ExitOf[m]]
    BY <1>6 DEF Unload
  <2>2. Sound(m, "live", todo[m], res[m], 0)
    BY <2>1, <1>0
  <2>3. Sound(m, "exit", ExitOf[m], res[m], files[m]) /\ "exit" \in States
    BY <2>1, <2>2, <1>0, SoundUnload DEF States
  <2>4. ExitOf[m] \in Seq(Steps)
    BY <1>0, ExitTables DEF OrderedExit
  <2> QED BY <1>1, <2>1, <2>3, <2>4, <1>0, OneMoves
<1> QED BY <1>2, <1>3, <1>4, <1>5, <1>6

LEMMA GivenType ==
  ASSUME NEW t, NEW f \in [Resources -> Fates]
  PROVE  Given(t, f) \in [Resources -> Fates]
  BY OnceFates DEF Given

LEMMA InvRelease ==
  ASSUME SoundInv, NEW m \in Modules, Release(m) \/ FreePages(m)
  PROVE  SoundInv'
<1>0. /\ m \in DOMAIN InitOf
      /\ st[m] \in States /\ todo[m] \in Seq(Steps) /\ res[m] \in [Resources -> Fates]
      /\ files[m] \in 0..MaxFiles /\ files[m] \in Nat
      /\ Sound(m, st[m], todo[m], res[m], files[m])
      /\ st = [st EXCEPT ![m] = st[m]] /\ todo = [todo EXCEPT ![m] = todo[m]]
      /\ res = [res EXCEPT ![m] = res[m]] /\ files = [files EXCEPT ![m] = files[m]]
  BY OfOne
<1>1. /\ st[m] \in {"fail", "exit"} /\ todo[m] # <<>> /\ files' = files
      /\ todo' = [todo EXCEPT ![m] = Tail(todo[m])]
  BY DEF Release, FreePages, Leaving, working
<1>2. Tail(todo[m]) \in Seq(Steps)
  BY <1>1, <1>0
<1>3. CASE Release(m)
  <2>1. st' = st /\ res' = [res EXCEPT ![m] = Given(todo[m], res[m])]
    BY <1>3 DEF Release, Without, Step, Given
  <2>2. Sound(m, st[m], Tail(todo[m]), Given(todo[m], res[m]), files[m])
    BY <1>1, <1>0, SoundRelease
  <2> QED BY <1>1, <1>2, <2>1, <2>2, <1>0, GivenType, OneMoves
<1>4. CASE FreePages(m)
  <2>1. res' = res /\ Head(todo[m]) = "pages"
    BY <1>4 DEF FreePages, Step
  <2>2. CASE ListReady(m)
    <3>1. st' = st
      BY <1>4, <2>2 DEF FreePages
    <3>2. Sound(m, st[m], Tail(todo[m]), res[m], files[m])
      BY <1>1, <2>1, <1>0, SoundFree
    <3> QED BY <1>1, <1>2, <2>1, <3>1, <3>2, <1>0, OneMoves
  <2>3. CASE ~ListReady(m)
    <3>1. st' = [st EXCEPT ![m] = "oops"] /\ res[m].add = "never" /\ "oops" \in States
      BY <1>4, <2>3 DEF FreePages, ListReady, States
    <3>2. Sound(m, "oops", Tail(todo[m]), res[m], files[m])
      BY <1>1, <2>1, <3>1, <1>0, SoundFree
    <3> QED BY <1>1, <1>2, <2>1, <3>1, <3>2, <1>0, OneMoves
  <2> QED BY <2>2, <2>3
<1> QED BY <1>3, <1>4

\* The semaphore that m gives back is taken by n: as if n took it after.
LEMMA InvHandOver ==
  ASSUME SoundInv, NEW m \in Modules, NEW n \in Modules, HandOver(m, n)
  PROVE  SoundInv'
<1> DEFINE f == Given(todo[m], res[m])
           g == Got(todo[n], res[n])
<1>1. /\ st[m] \in {"fail", "exit"} /\ todo[m] # <<>> /\ st[n] = "waits"
      /\ "semaphore" \in Locks(n) /\ m # n /\ files' = files
      /\ st' = [st EXCEPT ![n] = "init"]
      /\ todo' = [todo EXCEPT ![m] = Tail(todo[m]), ![n] = Tail(todo[n])]
      /\ res' = [res EXCEPT ![m] = f, ![n].semaphore = "held"]
  BY DEF HandOver, Leaving, Waiters, Without, Step, Given, working
<1>2. todo[n] # <<>> /\ EndsWith(InitOf[n], todo[n])
  BY <1>1, OfOne DEF Sound, Loading
<1>3. Head(todo[n]) = "semaphore"
  <2>1. InitOf[n] = <<"semaphore">> /\ InitOf[n] \in Seq(Steps)
    BY <1>1, LockTables, OfOne, InitTables DEF OrderedInit
  <2>2. Len(InitOf[n]) = 1 /\ InitOf[n][1] = "semaphore"
    BY <2>1
  <2>3. Len(InitOf[n]) - Len(todo[n]) + 1 \in 1..Len(InitOf[n])
        /\ Head(todo[n]) = InitOf[n][Len(InitOf[n]) - Len(todo[n]) + 1]
    BY <1>2, <2>1, OfOne, TailEnds
  <2> QED BY <2>2, <2>3
<1>4. /\ Sound(m, st[m], Tail(todo[m]), f, files[m])
      /\ Sound(n, "init", Tail(todo[n]), g, files[n])
  BY <1>1, <1>2, OfOne, SoundRelease, SoundTake
<1>5. f \in [Resources -> Fates] /\ g \in [Resources -> Fates]
  BY GivenType, OfOne DEF Got, Fates
<1>6. [res[n] EXCEPT !.semaphore = "held"] = g
  <2>1. res[n] \in [Resources -> Fates] /\ "semaphore" \in Resources
    BY OfOne DEF Resources
  <2> QED BY <1>3, <2>1 DEF Got, Resources
<1> HIDE DEF f, g
<1>7. /\ res' \in [Modules -> [Resources -> Fates]] /\ res'[m] = f /\ res'[n] = g
      /\ \A k \in Modules \ {m, n} : res'[k] = res[k]
  <2>1. res' = [[res EXCEPT ![m] = f] EXCEPT ![n] = g]
    BY <1>1, <1>6 DEF SoundInv
  <2> QED BY <1>1, <1>5, <2>1, ZenonT(30) DEF SoundInv
<1>8. /\ todo' \in [Modules -> Seq(Steps)] /\ todo'[m] = Tail(todo[m]) /\ todo'[n] = Tail(todo[n])
      /\ \A k \in Modules \ {m, n} : todo'[k] = todo[k]
  <2>1. Tail(todo[m]) \in Seq(Steps) /\ Tail(todo[n]) \in Seq(Steps)
    BY <1>1, <1>2, OfOne
  <2> QED BY <1>1, <2>1 DEF SoundInv
<1>9. /\ st' \in [Modules -> States] /\ st'[n] = "init" /\ st'[m] = st[m]
      /\ \A k \in Modules \ {m, n} : st'[k] = st[k]
  BY <1>1 DEF SoundInv, States
<1>10. ASSUME NEW k \in Modules
       PROVE  Sound(k, st'[k], todo'[k], res'[k], files'[k])
  <2>1. CASE k = m
    BY <2>1, <1>1, <1>4, <1>7, <1>8, <1>9
  <2>2. CASE k = n
    BY <2>2, <1>1, <1>4, <1>7, <1>8, <1>9
  <2>3. CASE k \notin {m, n}
    <3>1. Sound(k, st[k], todo[k], res[k], files[k])
      BY DEF SoundInv
    <3> QED BY <2>3, <3>1, <1>1, <1>7, <1>8, <1>9
  <2> QED BY <2>1, <2>2, <2>3
<1> QED BY <1>1, <1>7, <1>8, <1>9, <1>10 DEF SoundInv

LEMMA InvCall ==
  ASSUME SoundInv, NEW m \in Modules, Open(m) \/ Close(m) \/ Use(m) \/ ProcWrite(m)
  PROVE  SoundInv'
<1>0. /\ m \in DOMAIN InitOf
      /\ st[m] \in States /\ todo[m] \in Seq(Steps) /\ res[m] \in [Resources -> Fates]
      /\ files[m] \in 0..MaxFiles /\ files[m] \in Nat
      /\ Sound(m, st[m], todo[m], res[m], files[m])
      /\ st = [st EXCEPT ![m] = st[m]] /\ todo = [todo EXCEPT ![m] = todo[m]]
      /\ res = [res EXCEPT ![m] = res[m]] /\ files = [files EXCEPT ![m] = files[m]]
  BY OfOne
<1>1. st' = st /\ todo' = todo
  BY DEF Open, Close, Use, ProcWrite
<1>2. CASE Open(m)
  <2>1. files' = [files EXCEPT ![m] = files[m] + 1] /\ res' = res
    BY <1>2 DEF Open
  <2>2. files[m] + 1 \in 0..MaxFiles
    BY <1>2, <1>0, ModulesAssumption DEF Open
  <2>3. Holds(m) = Held(res[m])
    BY DEF Holds, Held
  <2>4. Sound(m, st[m], todo[m], res[m], files[m] + 1)
    BY <1>2, <2>3, <1>0, SoundOpen DEF Open
  <2>9. todo' = [todo EXCEPT ![m] = todo[m]] /\ st' = [st EXCEPT ![m] = st[m]]
        /\ res' = [res EXCEPT ![m] = res[m]]
    BY <1>0, <1>1, <2>1
  <2> QED BY <1>0, <2>1, <2>2, <2>4, <2>9, OneMoves
<1>3. CASE Close(m)
  <2>1. files[m] > 0 /\ files' = [files EXCEPT ![m] = files[m] - 1] /\ res' = res
    BY <1>3 DEF Close
  <2>2. files[m] - 1 \in 0..MaxFiles
    BY <2>1, <1>0, ModulesAssumption
  <2>3. Sound(m, st[m], todo[m], res[m], files[m] - 1)
    BY <2>1, <1>0, SoundClose
  <2>9. todo' = [todo EXCEPT ![m] = todo[m]] /\ st' = [st EXCEPT ![m] = st[m]]
        /\ res' = [res EXCEPT ![m] = res[m]]
    BY <1>0, <1>1, <2>1
  <2> QED BY <1>0, <2>1, <2>2, <2>3, <2>9, OneMoves
<1>4. CASE Use(m)
  BY <1>1, <1>4, <1>0, OneMoves DEF Use
<1>5. CASE ProcWrite(m)
  <2>1. PICK left \in (IF m = "my_proc" THEN MyProcLeft ELSE ProcLeft) :
          res' = [res EXCEPT ![m].str = IF @ = "held" THEN @ ELSE left]
    BY <1>5 DEF ProcWrite
  <2> DEFINE v == IF res[m].str = "held" THEN res[m].str ELSE left
  <2>2. /\ m \in {"lab4_proc", "my_proc"} /\ st[m] \in {"init", "live"} /\ files' = files
        /\ res[m].proc = "held"
    BY <1>5 DEF ProcWrite, working, Holds
  <2>3. v \in StrFates(m)
    <3>1. res[m].str \in StrFates(m)
      BY <1>0 DEF Sound
    <3> QED BY <2>2, <3>1 DEF StrFates, MyProcLeft, ProcLeft
  <2>4. res' = [res EXCEPT ![m] = [res[m] EXCEPT !.str = v]]
    BY <2>1 DEF SoundInv
  <2> HIDE DEF v
  <2>5. Sound(m, st[m], todo[m], [res[m] EXCEPT !.str = v], files[m])
    BY <2>2, <2>3, <1>0, SoundWrite
  <2>6. [res[m] EXCEPT !.str = v] \in [Resources -> Fates]
    BY <2>3, <1>0 DEF StrFates, Fates
  <2> QED BY <1>1, <2>2, <2>4, <2>5, <2>6, <1>0, OneMoves, ZenonT(30)
<1> QED BY <1>2, <1>3, <1>4, <1>5

LEMMA SoundStarts == Init => SoundInv
<1> SUFFICES ASSUME Init PROVE SoundInv
  OBVIOUS
<1>1. ASSUME NEW m \in Modules PROVE Sound(m, "out", <<>>, Fresh, 0)
  <2>1. \A r \in Resources : Fresh[r] = "never"
    BY DEF Fresh
  <2>2. "never" \in StrFates(m)
    BY DEF StrFates
  <2> QED BY <2>1, <2>2 DEF Sound, Returned, Resources
<1>2. /\ st \in [Modules -> States] /\ res \in [Modules -> [Resources -> Fates]]
      /\ todo \in [Modules -> Seq(Steps)]
  BY DEF Init, States, Fresh, Fates
<1>3. 0 \in 0..MaxFiles
  BY ModulesAssumption
<1>4. files \in [Modules -> 0..MaxFiles]
  BY <1>3 DEF Init
<1>5. \A m \in Modules : st[m] = "out" /\ todo[m] = <<>> /\ res[m] = Fresh /\ files[m] = 0
  BY DEF Init
<1> QED BY <1>1, <1>2, <1>4, <1>5 DEF SoundInv

LEMMA SoundKept == SoundInv /\ here \in Groups /\ [Next]_vars => SoundInv'
<1> SUFFICES ASSUME SoundInv, here \in Groups, [Next]_vars PROVE SoundInv'
  OBVIOUS
<1>1. here \subseteq Modules
  BY DEF Modules
<1>2. CASE UNCHANGED vars
  BY <1>2 DEF vars, SoundInv
<1>3. CASE Interrupt \/ Tasklet
  BY <1>3 DEF Interrupt, Tasklet, SoundInv
<1>4. ASSUME NEW m \in here,
             Load(m) \/ Unload(m) \/ Continue(m) \/ Signal(m)
             \/ Open(m) \/ Close(m) \/ Use(m) \/ ProcWrite(m)
      PROVE  SoundInv'
  <2>1. m \in Modules
    BY <1>1
  <2>2. CASE Continue(m)
    <3>1. CASE \E n \in here : HandOver(m, n)
      BY <1>1, <2>1, <3>1, InvHandOver
    <3> QED BY <2>1, <2>2, <3>1, InvTake, InvFails, InvState, InvRelease DEF Continue
  <2> QED BY <1>4, <2>1, <2>2, InvLoad, InvState, InvCall
<1> QED BY <1>2, <1>3, <1>4 DEF Next

-----------------------------------------------------------------------------
(* The pages of the asgn modules.                                          *)

ToFree(m) == \E i \in DOMAIN todo[m] : todo[m][i] = "pages"

\* Nobody has put a page in the list yet, and no tasklet is about to.
Idle(m) == pages[m] = 0 /\ (m = "asgn2" => ~tasklet)
\* init has yet to ask for the interrupt, and has no open files either.
Early(m) == st[m] \in {"init", "waits"} /\ todo[m] # <<>> /\ res[m].irq # "held"
\* init failed before it had the interrupt.
FailedEarly(m) == st[m] \in {"fail", "failed"} /\ res[m].irq # "held"
Late(m) == m = "asgn2" /\ late

\* An unloaded module has no pages, and one that is giving back has none or will free
\* them, but for what a late tasklet adds.
PagesSound(m) ==
  /\ pages[m] # 0 => m \in Asgn
  /\ st[m] \in {"out", "failed"} => pages[m] = 0 \/ Late(m)
  /\ st[m] \in {"exit", "fail"} => pages[m] = 0 \/ Late(m) \/ ToFree(m)
  /\ m \in Asgn /\ (Early(m) \/ FailedEarly(m)) => Idle(m)
PagesInv ==
  /\ pages \in [Modules -> 0..MaxPages] /\ tasklet \in BOOLEAN /\ late \in BOOLEAN
  /\ \A m \in Modules : PagesSound(m)

\* Steps that leave the pages alone and have nobody give up freeing them.
LEMMA PagesAlone ==
  ASSUME PagesInv, UNCHANGED <<pages, tasklet, late>>,
         \A m \in Modules \cap Asgn :
           /\ st'[m] \in {"out", "failed"} =>
                st[m] \in {"out", "failed"} \/ (st[m] \in {"exit", "fail"} /\ ~ToFree(m))
           /\ st'[m] \in {"exit", "fail"} =>
                \/ st[m] \in {"exit", "fail"} /\ (ToFree(m) => ToFree(m)')
                \/ ToFree(m)'
                \/ Early(m)
           /\ (Early(m) \/ FailedEarly(m))' => Early(m) \/ FailedEarly(m)
  PROVE  PagesInv'
<1>1. ASSUME NEW m \in Modules PROVE PagesSound(m)'
  <2>1. PagesSound(m) /\ pages'[m] = pages[m] /\ (Late(m) => Late(m)') /\ (Idle(m) => Idle(m)')
    BY DEF PagesInv, Late, Idle
  <2>2. CASE m \notin Asgn
    BY <2>1, <2>2 DEF PagesSound
  <2>3. CASE m \in Asgn
    BY <2>1, <2>3 DEF PagesSound, Idle
  <2> QED BY <2>2, <2>3
<1> QED BY <1>1 DEF PagesInv

LEMMA PagesFree ==
  ASSUME SoundInv, PagesInv, NEW m \in Modules, FreePages(m)
  PROVE  PagesInv'
<1>1. /\ UNCHANGED <<tasklet, late, res>> /\ st' \in {st, [st EXCEPT ![m] = "oops"]}
      /\ st[m] \in {"fail", "exit"}
      /\ pages' = [pages EXCEPT ![m] = 0] \/ (st' = [st EXCEPT ![m] = "oops"] /\ pages' = pages)
      /\ todo' = [todo EXCEPT ![m] = Tail(todo[m])]
  BY DEF FreePages, Leaving
<1>2. 0 \in 0..MaxPages
  BY ModulesAssumption
<1>3. pages' \in [Modules -> 0..MaxPages]
  BY <1>1, <1>2 DEF PagesInv
<1>4. ASSUME NEW n \in Modules PROVE PagesSound(n)'
  <2>1. PagesSound(n)
    BY DEF PagesInv
  <2>2. CASE n # m
    <3>1. st'[n] = st[n] /\ todo'[n] = todo[n] /\ pages'[n] = pages[n] /\ res'[n] = res[n]
      BY <2>2, <1>1 DEF SoundInv, PagesInv
    <3> QED BY <1>1, <2>1, <3>1 DEF PagesSound, ToFree, Early, FailedEarly, Idle, Late
  <2>3. CASE n = m
    <3>1. \/ pages'[m] = 0 /\ st'[m] \in {st[m], "oops"}
          \/ st'[m] = "oops" /\ pages'[m] = pages[m]
      BY <1>1 DEF SoundInv, PagesInv
    <3> QED BY <1>1, <2>1, <2>3, <3>1 DEF PagesSound, Early, FailedEarly, Idle
  <2> QED BY <2>2, <2>3
<1> QED BY <1>1, <1>3, <1>4 DEF PagesInv

LEMMA PagesUse ==
  ASSUME SoundInv, PagesInv, NEW m \in Modules, Use(m)
  PROVE  PagesInv'
<1>1. /\ m \in Asgn /\ files[m] > 0 /\ UNCHANGED <<st, todo, res, tasklet, late>>
      /\ \E n \in 0..(IF m = "asgn1" THEN MaxPages ELSE pages[m]) : pages' = [pages EXCEPT ![m] = n]
  BY DEF Use
<1>2. st[m] = "live" \/ (st[m] = "init" /\ todo[m] = <<>>)
  BY <1>1, OfOne DEF Sound
<1>3. pages[m] \in 0..MaxPages /\ MaxPages \in Nat
  BY ModulesAssumption DEF PagesInv
<1>4. PICK n \in 0..MaxPages : pages' = [pages EXCEPT ![m] = n]
  <2>1. PICK n \in 0..(IF m = "asgn1" THEN MaxPages ELSE pages[m]) : pages' = [pages EXCEPT ![m] = n]
    BY <1>1
  <2>2. n \in 0..MaxPages
    <3>1. CASE m = "asgn1"
      BY <2>1, <3>1
    <3>2. CASE m # "asgn1"
      <4>1. n \in 0..pages[m]
        BY <2>1, <3>2
      <4> QED BY <4>1, <1>3
    <3> QED BY <3>1, <3>2
  <2> QED BY <2>1, <2>2
<1>5. ASSUME NEW k \in Modules PROVE PagesSound(k)'
  <2>1. PagesSound(k)
    BY DEF PagesInv
  <2>2. k # m => pages'[k] = pages[k]
    BY <1>4 DEF PagesInv
  <2> QED BY <1>1, <1>2, <2>1, <2>2 DEF PagesSound, ToFree, Early, FailedEarly, Idle, Late
<1> QED BY <1>1, <1>4, <1>5 DEF PagesInv

LEMMA PagesTasklet ==
  ASSUME SoundInv, PagesInv, Tasklet
  PROVE  PagesInv'
<1>1. /\ UNCHANGED <<st, todo, res>> /\ tasklet /\ tasklet' = FALSE /\ late' = (late \/ PagesFreed)
      /\ \E n \in {pages["asgn2"], pages["asgn2"] + 1} :
           n <= MaxPages /\ pages' = [pages EXCEPT !["asgn2"] = n]
  BY DEF Tasklet
<1>2. late' \in BOOLEAN /\ (late => late') /\ (PagesFreed => late')
  BY <1>1, Zenon DEF PagesInv
<1>3. pages' \in [Modules -> 0..MaxPages] /\ \A k \in Modules : k # "asgn2" => pages'[k] = pages[k]
  <2>1. CASE "asgn2" \in Modules
    <3>1. pages["asgn2"] \in 0..MaxPages /\ MaxPages \in Nat
      BY <2>1, ModulesAssumption DEF PagesInv
    <3>2. PICK n \in 0..MaxPages : pages' = [pages EXCEPT !["asgn2"] = n]
      <4>1. PICK n \in {pages["asgn2"], pages["asgn2"] + 1} :
              n <= MaxPages /\ pages' = [pages EXCEPT !["asgn2"] = n]
        BY <1>1
      <4>2. n \in 0..MaxPages
        BY <3>1, <4>1
      <4> QED BY <4>1, <4>2
    <3> QED BY <3>2 DEF PagesInv
  <2>2. CASE "asgn2" \notin Modules
    BY <1>1, <2>2 DEF PagesInv
  <2> QED BY <2>1, <2>2
<1>4. ASSUME NEW k \in Modules PROVE PagesSound(k)'
  <2>1. PagesSound(k)
    BY DEF PagesInv
  <2>2. CASE k # "asgn2"
    BY <1>1, <1>3, <2>1, <2>2 DEF PagesSound, ToFree, Early, FailedEarly, Idle, Late
  <2>3. CASE k = "asgn2"
    <3>1. st[k] \in {"out", "failed"} => PagesFreed
      BY <2>3 DEF PagesFreed
    <3>2. st[k] \in {"exit", "fail"} => PagesFreed \/ ToFree(k)
      BY <2>3 DEF PagesFreed, ToFree
    <3>3. late' \/ (st'[k] \notin {"out", "failed"} /\ (st'[k] \in {"exit", "fail"} => ToFree(k)'))
      BY <1>1, <1>2, <3>1, <3>2 DEF ToFree
    <3>4. ~Early(k)' /\ ~FailedEarly(k)'
      <4>1. ~Early(k) /\ ~FailedEarly(k)
        BY <1>1, <2>1, <2>3 DEF PagesSound, Idle, Asgn
      <4> QED BY <1>1, <4>1 DEF Early, FailedEarly
    <3> QED BY <2>3, <3>3, <3>4 DEF PagesSound, Late, Asgn
  <2> QED BY <2>2, <2>3
<1> QED BY <1>1, <1>2, <1>3, <1>4 DEF PagesInv

\* What remains to be done still has the pages in it after another step.
LEMMA StillToFree ==
  ASSUME NEW t \in Seq(Steps), t # <<>>, Head(t) # "pages",
         \E i \in DOMAIN t : t[i] = "pages"
  PROVE  \E i \in DOMAIN Tail(t) : Tail(t)[i] = "pages"
<1>1. /\ Len(t) \in Nat /\ Len(t) >= 1 /\ DOMAIN t = 1..Len(t) /\ Head(t) = t[1]
      /\ DOMAIN Tail(t) = 1..Len(t) - 1 /\ \A i \in 1..Len(t) - 1 : Tail(t)[i] = t[i + 1]
  OBVIOUS
<1>2. PICK i \in 1..Len(t) : t[i] = "pages"
  BY <1>1
<1>3. i # 1
  BY <1>1, <1>2
<1>4. i - 1 \in 1..Len(t) - 1 /\ Tail(t)[i - 1] = t[i]
  BY <1>1, <1>3
<1> QED BY <1>1, <1>2, <1>4

LEMMA PagesLoad ==
  ASSUME SoundInv, PagesInv, NEW m \in Modules, Load(m)
  PROVE  PagesInv'
<1>1. /\ pages[m] = 0 /\ ~(m = "asgn2" /\ tasklet) /\ UNCHANGED <<pages, tasklet>>
      /\ late' = (late /\ m # "asgn2") /\ st'[m] = "init"
      /\ \A n \in Modules : n # m => st'[n] = st[n] /\ todo'[n] = todo[n] /\ res'[n] = res[n]
  BY DEF Load, SoundInv
<1>2. late' \in BOOLEAN
  BY <1>1, Zenon
<1>3. ASSUME NEW n \in Modules PROVE PagesSound(n)'
  <2>1. PagesSound(n)
    BY DEF PagesInv
  <2>2. CASE n = m
    BY <1>1, <2>2 DEF PagesSound, Idle
  <2>3. CASE n # m
    <3>1. Late(n) => Late(n)'
      BY <1>1, <2>3, Zenon DEF Late
    <3> QED BY <1>1, <2>1, <2>3, <3>1 DEF PagesSound, ToFree, Early, FailedEarly, Idle
  <2> QED BY <2>2, <2>3
<1> QED BY <1>1, <1>2, <1>3 DEF PagesInv

\* A step of asgn's init that fails leaves the pages to be freed, or there are none yet.
LEMMA PagesFails ==
  ASSUME SoundInv, PagesInv, NEW m \in Modules, StepFails(m)
  PROVE  PagesInv'
<1> DEFINE h == Head(todo[m])
<1>1. /\ st[m] = "init" /\ todo[m] # <<>> /\ UNCHANGED <<res, pages, tasklet, late>> /\ h # "unpin"
      /\ \A n \in Modules : n # m => st'[n] = st[n] /\ todo'[n] = todo[n]
  BY ModulesAssumption DEF StepFails, Step, working, SoundInv, Resources
<1>2. \/ st'[m] = "init" \/ st'[m] = "oops"
      \/ /\ st'[m] = "fail" /\ todo'[m] = Undo(m, h)
         /\ ~Unnoticed(h) /\ ~Crashes(m, h)
  BY DEF StepFails, Step, SoundInv
<1>3. /\ m \in DOMAIN InitOf /\ todo[m] \in Seq(Steps) /\ res[m] \in [Resources -> Fates]
      /\ Loading(m, todo[m], res[m])
  BY <1>1, OfOne DEF Sound
<1> HIDE DEF h
<1>4. ASSUME m \in Asgn, st'[m] = "fail" PROVE ToFree(m)' \/ Early(m)
  <2>1. CASE h = "proc"
    <3>1. res[m].irq # "held"
      BY <1>1, <1>3, <1>4, <2>1, ProcBeforeIrq DEF h
    <3> QED BY <1>1, <3>1 DEF Early
  <2>2. CASE h # "proc"
    <3>1. PICK front \in {<<>>, <<"pins">>} : todo'[m] = front \o Asgn2Fail
      <4>1. Asgn1Fail = Asgn2Fail /\ Asgn2Fail \in Seq(Steps)
        BY AsgnFailTable
      <4>2. <<>> \o Asgn2Fail = Asgn1Fail
        BY <4>1, ConcatEmptySeq
      <4> QED BY <1>2, <1>4, <2>2, <4>2 DEF Undo, Asgn1Undo, Asgn2Undo, GpioUndo, Asgn
    <3>2. Due(todo'[m], "pages")
      BY <3>1, AsgnFailTable DEF AsgnDue
    <3> QED BY <3>2 DEF Due, Returns, ToFree
  <2> QED BY <2>1, <2>2
<1>5. ASSUME (Early(m) \/ FailedEarly(m))' PROVE Early(m)
  BY <1>1, <1>5 DEF Early, FailedEarly
<1>6. ASSUME NEW n \in Modules \cap Asgn
      PROVE  /\ st'[n] \in {"out", "failed"} =>
                  st[n] \in {"out", "failed"} \/ (st[n] \in {"exit", "fail"} /\ ~ToFree(n))
             /\ st'[n] \in {"exit", "fail"} =>
                  \/ st[n] \in {"exit", "fail"} /\ (ToFree(n) => ToFree(n)')
                  \/ ToFree(n)'
                  \/ Early(n)
             /\ (Early(n) \/ FailedEarly(n))' => Early(n) \/ FailedEarly(n)
  <2>1. CASE n = m
    BY <1>2, <1>4, <1>5, <2>1
  <2>2. CASE n # m
    BY <1>1, <2>2 DEF ToFree, Early, FailedEarly
  <2> QED BY <2>1, <2>2
<1> QED BY <1>1, <1>6, PagesAlone

LEMMA PagesOthers ==
  ASSUME SoundInv, PagesInv, NEW m \in Modules,
         \/ Take(m) \/ Sleep(m) \/ Signal(m) \/ Loaded(m)
         \/ Gone(m) \/ Unload(m) \/ Open(m) \/ Close(m) \/ ProcWrite(m)
  PROVE  PagesInv'
<1>1. /\ UNCHANGED <<pages, tasklet, late>>
      /\ \A n \in Modules : n # m => st'[n] = st[n] /\ todo'[n] = todo[n] /\ res'[n] = res[n]
  BY DEF Take, Sleep, Signal, Loaded, Gone, Unload, Open, Close, ProcWrite,
         working, SoundInv
<1>2. m \in Asgn => ~(Sleep(m) \/ Signal(m))
  BY OfOne DEF Sleep, Signal, Locks, Asgn, Sound
<1>3. m \in Asgn /\ st'[m] \in {"out", "failed"} =>
        st[m] \in {"out", "failed"} \/ (st[m] \in {"exit", "fail"} /\ ~ToFree(m))
  BY <1>2 DEF Take, Loaded, Gone, Unload, Open, Close, ProcWrite, SoundInv, ToFree
<1>4. m \in Asgn /\ st'[m] \in {"exit", "fail"} =>
        (UNCHANGED <<st, todo>>) \/ ToFree(m)'
  <2>1. CASE Unload(m)
    <3>1. todo'[m] = ExitOf[m] /\ ExitOf[m] \in Seq(Steps) /\ OrderedExit(m, ExitOf[m])
      BY <2>1, OfOne, ExitTables DEF Unload, SoundInv, OrderedExit
    <3> QED BY <3>1 DEF ToFree, OrderedExit
  <2>2. CASE ~Unload(m)
    BY <1>2, <2>2 DEF Take, Loaded, Gone, Open, Close, ProcWrite, SoundInv
  <2> QED BY <2>1, <2>2
<1>5. ASSUME m \in Asgn, (Early(m) \/ FailedEarly(m))' PROVE Early(m) \/ FailedEarly(m)
  <2>1. CASE Take(m)
    <3>1. st[m] \in {"init", "waits"} /\ todo[m] # <<>> /\ st'[m] = "init"
      BY <2>1 DEF Take, SoundInv
    <3>2. res'[m].irq = "held" \/ res'[m].irq = res[m].irq
      <4>1. res'[m] = [r \in Resources |-> IF r = Step(m) THEN "held"
                            ELSE IF r = "pins" /\ Step(m) = "unpin" THEN "released"
                            ELSE res[m][r]]
        BY <2>1 DEF Take, SoundInv
      <4> QED BY <4>1 DEF Resources
    <3> QED BY <1>5, <3>1, <3>2 DEF Early, FailedEarly
  <2>2. CASE ~Take(m)
    <3>1. res' = res \/ ProcWrite(m)
      BY <1>2, <1>5, <2>2 DEF Loaded, Gone, Unload, Open, Close
    <3>2. ~ProcWrite(m)
      BY <1>5 DEF ProcWrite, Asgn
    <3> QED BY <1>2, <1>5, <2>2, <3>1, <3>2
         DEF Early, FailedEarly, Loaded, Gone, Unload, Open, Close, SoundInv
  <2> QED BY <2>1, <2>2
<1>6. ASSUME NEW n \in Modules \cap Asgn
      PROVE  /\ st'[n] \in {"out", "failed"} =>
                  st[n] \in {"out", "failed"} \/ (st[n] \in {"exit", "fail"} /\ ~ToFree(n))
             /\ st'[n] \in {"exit", "fail"} =>
                  \/ st[n] \in {"exit", "fail"} /\ (ToFree(n) => ToFree(n)')
                  \/ ToFree(n)'
                  \/ Early(n)
             /\ (Early(n) \/ FailedEarly(n))' => Early(n) \/ FailedEarly(n)
  <2>1. CASE n = m
    BY <1>3, <1>4, <1>5, <2>1 DEF ToFree
  <2>2. CASE n # m
    BY <1>1, <2>2 DEF ToFree, Early, FailedEarly
  <2> QED BY <2>1, <2>2
<1> QED BY <1>1, <1>6, PagesAlone

LEMMA PagesRelease ==
  ASSUME SoundInv, PagesInv, NEW m \in Modules, NEW n \in Modules, Release(m) \/ HandOver(m, n)
  PROVE  PagesInv'
<1>1. /\ todo[m] # <<>> /\ Head(todo[m]) # "pages" /\ UNCHANGED <<pages, tasklet, late>>
      /\ todo'[m] = Tail(todo[m]) /\ st'[m] = st[m] /\ st[m] \in {"fail", "exit"}
      /\ \A k \in Modules \cap Asgn : k # m => st'[k] = st[k] /\ todo'[k] = todo[k] /\ res'[k] = res[k]
      /\ m \in Asgn => res'[m] = Without(m)
  <2>1. CASE Release(m)
    BY <2>1 DEF Release, Leaving, Step, working, SoundInv
  <2>2. CASE HandOver(m, n)
    <3>1. /\ st[m] \in {"fail", "exit"} /\ todo[m] # <<>> /\ st[n] = "waits" /\ m # n
          /\ st' = [st EXCEPT ![n] = "init"] /\ Head(todo[m]) = "semaphore"
          /\ todo' = [todo EXCEPT ![m] = Tail(todo[m]), ![n] = Tail(todo[n])]
          /\ UNCHANGED <<pages, tasklet, late>>
      BY <2>2 DEF HandOver, Leaving, Waiters, Step, working
    <3>2. n \notin Asgn /\ m \notin Asgn
      BY <2>2 DEF HandOver, Waiters, Locks, Asgn
    <3>3. \A k \in Modules : k \notin {m, n} => res'[k] = res[k]
      BY <2>2 DEF HandOver, SoundInv
    <3> QED BY <3>1, <3>2, <3>3 DEF SoundInv
  <2> QED BY <2>1, <2>2
<1>2. ToFree(m) => ToFree(m)'
  BY <1>1, OfOne, StillToFree, SMTT(30) DEF ToFree
<1>3. ASSUME m \in Asgn, FailedEarly(m)' PROVE FailedEarly(m)
  <2>1. st[m] = "fail" /\ Failing(m, todo[m], res[m]) /\ todo[m] \in Seq(Steps)
    BY <1>1, <1>3, OfOne DEF FailedEarly, Sound
  <2>2. Head(todo[m]) # "irq"
    <3>1. 1 \in DOMAIN todo[m] /\ Head(todo[m]) = todo[m][1]
      BY <1>1, <2>1
    <3> QED BY <2>1, <3>1 DEF Failing
  <2>3. res'[m].irq = res[m].irq
    <3>1. "irq" \notin Returns(Step(m)) /\ "irq" \in Resources
      BY <2>2 DEF Returns, Step, Resources
    <3> QED BY <1>1, <1>3, <3>1 DEF Without
  <2> QED BY <1>1, <1>3, <2>3 DEF FailedEarly
<1>4. ASSUME NEW k \in Modules \cap Asgn
      PROVE  /\ st'[k] \in {"out", "failed"} =>
                  st[k] \in {"out", "failed"} \/ (st[k] \in {"exit", "fail"} /\ ~ToFree(k))
             /\ st'[k] \in {"exit", "fail"} =>
                  \/ st[k] \in {"exit", "fail"} /\ (ToFree(k) => ToFree(k)')
                  \/ ToFree(k)'
                  \/ Early(k)
             /\ (Early(k) \/ FailedEarly(k))' => Early(k) \/ FailedEarly(k)
  <2>1. CASE k = m
    <3>1. ~Early(m)'
      BY <1>1 DEF Early
    <3> QED BY <1>1, <1>2, <1>3, <2>1, <3>1
  <2>2. CASE k # m
    BY <1>1, <2>2 DEF ToFree, Early, FailedEarly
  <2> QED BY <2>1, <2>2
<1> QED BY <1>1, <1>4, PagesAlone

LEMMA PagesKept == SoundInv /\ PagesInv /\ here \in Groups /\ [Next]_vars => PagesInv'
<1> SUFFICES ASSUME SoundInv, PagesInv, here \in Groups, [Next]_vars PROVE PagesInv'
  OBVIOUS
<1>1. here \subseteq Modules
  BY DEF Modules
<1>2. CASE UNCHANGED vars
  BY <1>2, PagesAlone DEF vars, ToFree, Early, FailedEarly
<1>3. CASE Interrupt
  <2>1. /\ UNCHANGED <<st, todo, res, pages, late>> /\ tasklet' = TRUE /\ res["asgn2"].irq = "held"
    BY <1>3 DEF Interrupt, Holds
  <2>2. ASSUME NEW m \in Modules PROVE PagesSound(m)'
    <3>1. PagesSound(m) /\ (m = "asgn2" => ~Early(m)' /\ ~FailedEarly(m)')
      BY <2>1 DEF PagesInv, Early, FailedEarly
    <3> QED BY <2>1, <3>1 DEF PagesSound, ToFree, Early, FailedEarly, Idle, Late
  <2> QED BY <2>1, <2>2 DEF PagesInv
<1>4. ASSUME NEW m \in here,
             Load(m) \/ Unload(m) \/ Continue(m) \/ Signal(m)
             \/ Open(m) \/ Close(m) \/ Use(m) \/ ProcWrite(m)
      PROVE  PagesInv'
  <2>1. m \in Modules
    BY <1>1
  <2>2. CASE Continue(m)
    <3>1. CASE \E n \in here : HandOver(m, n)
      BY <1>1, <2>1, <3>1, PagesRelease
    <3> QED BY <2>1, <2>2, <3>1, PagesRelease, PagesFree, PagesFails, PagesOthers DEF Continue
  <2> QED BY <1>4, <2>1, <2>2, PagesLoad, PagesOthers, PagesUse
<1> QED BY <1>2, <1>3, <1>4, PagesTasklet DEF Next

LEMMA PagesStart == Init => PagesInv
<1> SUFFICES ASSUME Init PROVE PagesInv
  OBVIOUS
<1>1. 0 \in 0..MaxPages
  BY ModulesAssumption
<1>2. pages \in [Modules -> 0..MaxPages] /\ tasklet = FALSE /\ late = FALSE
      /\ \A m \in Modules : pages[m] = 0
  BY <1>1 DEF Init
<1>3. \A m \in Modules : st[m] = "out"
  BY DEF Init
<1> QED BY <1>2, <1>3 DEF PagesInv, PagesSound, Early, FailedEarly

-----------------------------------------------------------------------------
(* What the invariants mean for a module.                                  *)

LEMMA CleanOut ==
  ASSUME NEW m, NEW t, NEW f, NEW k, Sound(m, "out", t, f, k)
  PROVE  Held(f) \subseteq (IF m = "my_proc" THEN {"str"} ELSE {})
<1>1. ASSUME NEW r \in Held(f) PROVE r = "str" /\ m = "my_proc"
  <2>1. r \in Resources /\ f[r] = "held"
    BY DEF Held
  <2>2. r = "str"
    BY <2>1 DEF Sound, Returned
  <2>3. m = "my_proc"
    BY <2>1, <2>2 DEF Sound, StrFates
  <2> QED BY <2>2, <2>3
<1> QED BY <1>1

LEMMA TwiceAllowed ==
  ASSUME NEW m \in DOMAIN InitOf, NEW s \in States, NEW t \in Seq(Steps),
         NEW f \in [Resources -> Fates], NEW k, Sound(m, s, t, f, k),
         NEW r \in Resources, f[r] = "twice"
  PROVE  \/ m \in Asgn /\ r = "class" /\ s \in {"fail", "failed"}
         \/ m = "asgn2" /\ r = "pins" /\ s \in {"exit", "out"}
<1>1. r # "str"
  BY DEF Sound, StrFates
<1>2. CASE s \in {"init", "waits", "live"}
  <2>1. Loading(m, t, f)
    BY <1>2 DEF Sound
  <2>2. CASE t # <<>>
    BY <2>1, <2>2, <1>1, LoadingFates
  <2>3. CASE t = <<>>
    <3>1. Loading(m, <<>>, f)
      BY <2>1, <2>3
    <3>2. f[r] \in {"never", "held"} \/ (m = "asgn2" /\ r = "pins" /\ f[r] = "released")
      BY <3>1, <1>1, LoadedFates
    <3> QED BY <3>2
  <2> QED BY <2>2, <2>3
<1>3. CASE s \in {"fail", "failed"}
  BY <1>3 DEF Sound, Failing, TwiceClass
<1>4. CASE s \in {"exit", "out"}
  BY <1>1, <1>4 DEF Sound, Unloading, Returned
<1>5. CASE s = "oops"
  BY <1>5 DEF Sound
<1> QED BY <1>2, <1>3, <1>4, <1>5 DEF States

\* The list of an asgn module is there for its open files and its interrupt.
LEMMA ListThere ==
  ASSUME NEW m \in Asgn \cap DOMAIN InitOf, NEW s \in States, NEW t,
         NEW f \in [Resources -> Fates], NEW k \in Nat, Sound(m, s, t, f, k),
         k > 0 \/ f.irq = "held"
  PROVE  f.add # "never"
<1>1. CASE k > 0
  <2>1. Loading(m, <<>>, f)
    BY <1>1 DEF Sound
  <2> QED BY <2>1, LoadedFates
<1>2. CASE f.irq = "held"
  BY <1>2 DEF Sound
<1> QED BY <1>1, <1>2

\* When an exit function has yet to end a lab's device, it has done nothing.
LEMMA NothingDoneYet ==
  ASSUME NEW m \in {"lab03_seek", "wait_event"}, NEW u, OrderedExit(m, u),
         NEW t \in Seq(Steps), EndsWith(u, t), NEW r \in {"add", "misc"}, Due(t, r)
  PROVE  Due(t, "ramdisk")
<1>1. u \in Seq(Steps) /\ Len(u) \in Nat /\ Len(t) \in Nat /\ DOMAIN t = 1..Len(t)
  BY DEF OrderedExit
<1>2. PICK i \in 1..Len(t) : r \in Returns(t[i])
  BY <1>1 DEF Due
<1>3. t[i] \in {"cdev", "misc", "add"}
  BY <1>2 DEF Returns
<1>4. /\ Len(t) <= Len(u) /\ t[i] = u[Len(u) - Len(t) + i]
      /\ Len(u) - Len(t) + i \in 1..Len(u)
  BY <1>1 DEF EndsWith
<1>5. Len(u) - Len(t) + i = 1 /\ \E j \in 1..Len(u) : u[j] = "ramdisk"
  BY <1>3, <1>4 DEF OrderedExit
<1>6. Len(t) = Len(u)
  BY <1>1, <1>4, <1>5
<1>7. PICK j \in 1..Len(t) : t[j] = "ramdisk"
  BY <1>1, <1>5, <1>6 DEF EndsWith
<1> QED BY <1>1, <1>7 DEF Due, Returns

\* The ramdisk of a lab's device is there, or was never had, while the device is.
LEMMA RamdiskThere ==
  ASSUME NEW m \in {"lab03_seek", "wait_event"}, m \in DOMAIN InitOf, NEW s \in States \ {"failed"},
         NEW t \in Seq(Steps), NEW f \in [Resources -> Fates], NEW k \in Nat, Sound(m, s, t, f, k),
         k > 0 \/ Held(f) \cap {"add", "misc"} # {}
  PROVE  /\ f.ramdisk \in {"never", "held"}
         /\ s = "init" => t = <<>>
<1>1. m \in Devices /\ m \notin Asgn /\ m # "asgn2" /\ "ramdisk" \in Resources \ {"str"}
  BY DEF Devices, Asgn, Resources
<1>2. CASE s \in {"init", "live"}
  <2>1. t = <<>>
    <3>1. CASE k > 0
      BY <1>2, <3>1 DEF Sound
    <3>2. CASE k = 0
      <4>1. Sound(m, s, t, f, k + 1)
        BY <1>1, <1>2, <3>2, SoundOpen
      <4> QED BY <1>2, <4>1, <3>2 DEF Sound
    <3> QED BY <3>1, <3>2
  <2>2. Loading(m, <<>>, f)
    BY <1>2, <2>1 DEF Sound
  <2> QED BY <1>1, <2>1, <2>2, LoadedFates
<1>3. CASE s \notin {"init", "live"}
  <2>1. PICK r \in {"add", "misc"} : r \in Resources /\ f[r] = "held"
    BY <1>3 DEF Sound, Held
  <2>2. s # "waits"
    BY DEF Sound, Locks
  <2>3. s # "fail" /\ s # "oops"
    BY <1>1, <2>1 DEF Sound, Failing, Crashed
  <2>4. s # "out"
    BY <1>1, <2>1 DEF Sound, Returned
  <2>5. s = "exit"
    BY <1>3, <2>2, <2>3, <2>4 DEF States
  <2>6. Unloading(m, t, f)
    BY <2>5 DEF Sound
  <2>7. Due(t, r)
    BY <1>1, <2>1, <2>6 DEF Unloading, Returned
  <2>8. Due(t, "ramdisk")
    BY <2>6, <2>7, ExitTables, NothingDoneYet DEF Unloading
  <2> QED BY <1>1, <2>5, <2>6, <2>8 DEF Unloading
<1> QED BY <1>2, <1>3

-----------------------------------------------------------------------------
(* The theorems.                                                           *)

SoundModules == SoundInv /\ PagesInv /\ here \in Groups

LEMMA AllSound == Spec => []SoundModules
<1>1. Init => SoundModules
  BY SoundStarts, PagesStart DEF SoundModules, Init
<1>2. here \in Groups /\ [Next]_vars => here' \in Groups
  <2>1. [Next]_vars => here' = here
    BY DEF Next, vars, Load, Unload, Continue, Take, StepFails, Sleep, Loaded, Release,
           HandOver, FreePages, Gone, Signal, Open, Close, Use, ProcWrite, Interrupt,
           Tasklet, working
  <2> QED BY <2>1
<1>3. SoundModules /\ [Next]_vars => SoundModules'
  BY <1>2, SoundKept, PagesKept DEF SoundModules
<1> QED BY <1>1, <1>3, PTL DEF Spec

\* Whatever modules are used together and whichever steps fail, the state of each, what
\* became of what it took, its open files and its pages stay within their types.
THEOREM TypeCorrect == Spec => []TypeOK
<1>1. SoundModules => TypeOK
  <2> SUFFICES ASSUME SoundModules PROVE TypeOK
    OBVIOUS
  <2>1. {tasklet, late} \subseteq BOOLEAN
    BY DEF SoundModules, PagesInv
  <2> QED BY <2>1 DEF SoundModules, SoundInv, PagesInv, TypeOK, States, Fates
<1> QED BY <1>1, AllSound, PTL

\* A module that was loaded and unloaded leaves nothing registered and no memory, but for
\* what a write to my_proc lost and the page of a tasklet that ran late.
THEOREM UnloadsClean == Spec => []UnloadedClean
<1>1. SoundModules => UnloadedClean
  <2> SUFFICES ASSUME SoundModules, NEW m \in Modules, st[m] = "out"
               PROVE  /\ Holds(m) \subseteq (IF m = "my_proc" THEN {"str"} ELSE {})
                      /\ pages[m] = 0 \/ (m = "asgn2" /\ late)
    BY DEF UnloadedClean
  <2>1. Sound(m, "out", todo[m], res[m], files[m]) /\ PagesSound(m)
    BY OfOne DEF SoundModules, PagesInv
  <2>2. Holds(m) = Held(res[m])
    BY DEF Holds, Held
  <2> QED BY <2>1, <2>2, CleanOut DEF PagesSound, Late
<1> QED BY <1>1, AllSound, PTL

\* A load that failed leaves nothing but in the named cases; where asgn2 keeps its
\* interrupt, a tasklet may leave a page in its list.  insmod crashes only in list, in asgn
\* before its page list is set up, and in asgn2 where there is no GPIO chip, with its
\* region, device and proc entry registered.
THEOREM FailsClean == Spec => []FailedClean
<1>1. SoundModules => FailedClean
  <2> SUFFICES ASSUME SoundModules, NEW m \in Modules
               PROVE  /\ st[m] = "failed" =>
                           /\ Remains(m, Holds(m))
                           /\ pages[m] = 0 \/ (m = "asgn2" /\ late /\ Holds(m) = {"irq"})
                      /\ st[m] = "oops" =>
                           \/ m = "list" \/ (m \in Asgn /\ ~ListReady(m))
                           \/ m = "asgn2" /\ Holds(m) = {"region", "cdev", "add", "proc"}
    BY DEF FailedClean, Remains
  <2>1. Sound(m, st[m], todo[m], res[m], files[m]) /\ PagesSound(m)
    BY OfOne DEF SoundModules, PagesInv
  <2>2. Holds(m) = Held(res[m])
    BY DEF Holds, Held
  <2>3. CASE st[m] = "failed"
    <3>1. Remains(m, Holds(m))
      BY <2>1, <2>2, <2>3 DEF Sound
    <3>2. ASSUME pages[m] # 0 PROVE m = "asgn2" /\ late /\ Holds(m) = {"irq"}
      <4>1. m \in Asgn /\ Late(m) /\ res[m].irq = "held"
        BY <2>1, <2>3, <3>2 DEF PagesSound, FailedEarly, Idle
      <4>2. "irq" \in Holds(m) /\ m = "asgn2" /\ late
        BY <4>1 DEF Holds, Resources, Late
      <4> QED BY <3>1, <4>2 DEF Remains
    <3> QED BY <2>3, <3>1, <3>2
  <2>4. CASE st[m] = "oops"
    BY <2>1, <2>2, <2>4 DEF Sound, Crashed, ListReady
  <2> QED BY <2>3, <2>4
<1> QED BY <1>1, AllSound, PTL

\* Nothing is given back twice but the class on asgn's error path and asgn2's pins.
THEOREM ReturnsOnce == Spec => []ReturnedOnce
<1>1. SoundModules => ReturnedOnce
  BY OfOne, TwiceAllowed DEF SoundModules, ReturnedOnce
<1> QED BY <1>1, AllSound, PTL

\* An interrupt finds the list and the buffer of asgn2, an open file the list of the asgn
\* modules, and no device outlives the ramdisk behind it.
THEOREM CallsFind == Spec => []CallsFindData
<1>1. SoundModules => CallsFindData
  <2> SUFFICES ASSUME SoundModules PROVE CallsFindData
    OBVIOUS
  <2>1. ASSUME NEW m \in Asgn \cap Modules,
               files[m] > 0 \/ ("irq" \in Holds(m) /\ st[m] # "failed")
        PROVE  ListReady(m)
    <3>1. files[m] > 0 \/ res[m].irq = "held"
      BY <2>1 DEF Holds
    <3> QED BY <2>1, <3>1, OfOne, ListThere DEF SoundModules, ListReady
  <2>2. ASSUME NEW m \in {"lab03_seek", "wait_event"} \cap Modules,
               files[m] > 0 \/ (Holds(m) \cap {"add", "misc"} # {} /\ st[m] # "failed")
        PROVE  \/ res[m].ramdisk = "held"
               \/ res[m].ramdisk = "never" /\ (st[m] = "init" => todo[m] = <<>>)
    <3>0. SoundInv /\ m \in Modules
      BY DEF SoundModules
    <3>1. Holds(m) = Held(res[m])
      BY DEF Holds, Held
    <3>2. st[m] # "failed"
      BY <2>2, <3>0, OfOne DEF Sound
    <3>3. /\ res[m].ramdisk \in {"never", "held"}
          /\ st[m] = "init" => todo[m] = <<>>
      BY <2>2, <3>0, <3>1, <3>2, OfOne, RamdiskThere
    <3> QED BY <3>3
  <2> QED BY <2>1, <2>2 DEF CallsFindData
<1> QED BY <1>1, AllSound, PTL
=============================================================================
