-------------------------- MODULE Lifecycle_proofs --------------------------
(***************************************************************************)
(* Machine-checked proofs that every process of a plugin stays owned and   *)
(* that its runtime follows the desired state, for any number of managers, *)
(* goroutines, calls, faults and crash retries.                            *)
(*                                                                         *)
(* ProcessesOwned and IntentFollowed speak about the states in which       *)
(* nobody is inside the operation gate.  The inductive invariant says what *)
(* the goroutine inside it may have done so far (HolderFits): which        *)
(* manager it works on, that the plugin is still wanted, and the one       *)
(* manager beside the registered one that a reload may have up (Swaps).    *)
(* Owned and Pending are the two properties with that goroutine counted    *)
(* in; ManagersFit ties a process to the state its manager shows, and      *)
(* JobsFit a goroutine to the place it can be at.                          *)
(***************************************************************************)
EXTENDS Lifecycle, TLAPS

Stages == {"wait", "held", "launch", "timer", "reap", "prepare", "starting",
           "activate", "swapStart", "swapActivate", "retire", "report"}
FreshStages == {"prepare", "starting", "activate"}
SwapStages == {"swapStart", "swapActivate", "retire"}
InsideStages == {"held", "launch"} \cup FreshStages \cup SwapStages
Work == [kind : Kinds, m : 0..MaxManagers, n : 0..MaxFaults, at : Stages]

TypeJobs == jobs \in [Goroutines -> {NoJob} \cup Work]
TypeManagers ==
  /\ state \in [Managers -> States] /\ crashes \in [Managers -> 0..MaxFaults]
  /\ proc \in [Managers -> {"none", "live", "exited", "dying"}]
  /\ restart \in [Managers -> BOOLEAN]
TypeRest ==
  /\ desired \in {"enabled", "disabled"} /\ shown \in States
  /\ item \in 0..created /\ retired \subseteq 1..created
  /\ created \in 0..MaxManagers /\ slot \in 0..created
  /\ gate \in 0..MaxGoroutines
  /\ shut \in {"open", "closing", "stopping", "ended"}
  /\ calls \in 0..MaxCalls /\ faults \in 0..MaxFaults

\* The process a manager may have in a state.
ProcessOf(s) ==
  CASE s = "starting" -> {"live"} [] s = "running" -> {"live", "exited"}
    [] s = "stopping" -> {"dying"} [] OTHER -> {"none"}
Unseen(m) == IF proc[m] = "exited" THEN 1 ELSE 0
ManagersFit == \A m \in Managers :
  /\ proc[m] \in ProcessOf(state[m])
  /\ m > created => state[m] = "stopped"
  /\ crashes[m] + Unseen(m) <= faults

Shape(j) ==
  /\ j.at = "timer" => j.kind = "backoff"
  /\ j.at = "reap" => j.kind = "observe"
  /\ j.at = "report" => j.kind = "start"
  /\ j.at = "launch" => j.kind \in ApiKinds
  /\ j.at \in FreshStages => j.kind \in StartKinds
  /\ j.at \in SwapStages => j.kind = "reload"
  /\ j.kind \in {"observe", "backoff"} => j.m # 0
JobsFit == \A g \in Goroutines :
  /\ Shape(jobs[g]) /\ jobs[g].n <= faults
  /\ jobs[g].at \in InsideStages <=> g = gate

HolderFits == gate # 0 => LET j == jobs[gate] IN
  /\ j.at \in FreshStages => item # 0 /\ j.m = item
  /\ j.at \in SwapStages => item # 0 /\ j.m \in retired /\ j.m # item
  /\ \/ j.at \in {"starting", "activate"} \cup SwapStages
     \/ j.at = "prepare" /\ j.kind = "backoff"
     => desired = "enabled"
  /\ j.at \in {"starting", "swapStart"} => state[j.m] = "starting"
  /\ j.at \in {"starting", "activate", "swapStart", "swapActivate"} => state[item] # "backoff"

\* The manager that a reload starts or retires beside the registered one.
Swaps(m) == gate # 0 /\ jobs[gate].at \in SwapStages /\ m = jobs[gate].m
Owned ==
  /\ \A m \in Managers : proc[m] # "none" => m \in Reachable
  /\ \A m \in Managers : state[m] \in {"starting", "running"} => m = item \/ Swaps(m)
  /\ slot \in {0, item}
  /\ shut \in {"stopping", "ended"} => WorkersDone
  /\ shut = "ended" => \A m \in Managers : proc[m] \in {"none", "dying"}

CrashTold == \E g \in Goroutines : jobs[g].kind = "crash"
RestartComes(m) == \E g \in Goroutines : jobs[g].kind = "backoff" /\ jobs[g].m = m
StopComes ==
  \E g \in Goroutines : jobs[g].kind = "stop" \/ (jobs[g].kind = "disable" /\ jobs[g].at = "launch")
Pending ==
  /\ \A m \in Managers :
       state[m] = "crashed" /\ (m = item \/ Swaps(m)) /\ ~closed => CrashTold
  /\ \A m \in Managers : state[m] = "backoff" => m = item /\ (closed \/ RestartComes(m))
  /\ desired = "disabled" /\ ~closed =>
       \/ slot = 0 /\ (item # 0 => state[item] \notin {"starting", "running"})
       \/ StopComes

IInv == TypeRest /\ TypeManagers /\ TypeJobs /\ ManagersFit /\ JobsFit /\ HolderFits
        /\ Owned /\ Pending

-----------------------------------------------------------------------------

LEMMA TypeParts == TypeOK <=> TypeRest /\ TypeManagers /\ TypeJobs
  BY DEF TypeOK, TypeRest, TypeManagers, TypeJobs, Work, Stages

LEMMA Bounds ==
  /\ MaxManagers \in Nat \ {0} /\ MaxGoroutines \in Nat \ {0} /\ MaxFaults \in Nat
  /\ MaxCalls \in Nat
  /\ \A g \in Goroutines : g \in Nat \ {0} /\ g \in 1..MaxGoroutines
  /\ \A m \in Managers : m \in Nat \ {0} /\ m \in 1..MaxManagers
  /\ 0 \notin Goroutines /\ 0 \notin Managers
  BY BoundsPositive DEF Goroutines, Managers

LEMMA JobShape ==
  ASSUME TypeJobs, NEW g \in Goroutines
  PROVE  /\ jobs[g] \in {NoJob} \cup Work
         /\ jobs[g] = NoJob <=> jobs[g].kind = "none"
         /\ jobs[g] = NoJob <=> jobs[g].at = "none"
         /\ jobs[g] # NoJob => jobs[g] \in Work /\ jobs[g].kind \in Kinds /\ jobs[g].at \in Stages
         /\ jobs[g].m \in 0..MaxManagers /\ jobs[g].n \in 0..MaxFaults
<1>1. jobs[g] \in {NoJob} \cup Work
  BY DEF TypeJobs
<1>2. CASE jobs[g] = NoJob
  BY <1>2, Bounds DEF NoJob
<1>3. CASE jobs[g] \in Work
  BY <1>3 DEF Work, NoJob, Kinds, ApiKinds, StartKinds, Stages
<1> QED
  BY <1>1, <1>2, <1>3

NoJobFields == NoJob.kind = "none" /\ NoJob.at = "none" /\ NoJob.m = 0 /\ NoJob.n = 0

LEMMA Nothing == NoJobFields /\ Shape(NoJob) /\ "none" \notin InsideStages \cup Stages \cup Kinds
  BY DEF NoJobFields, NoJob, Shape, InsideStages, FreshStages, SwapStages, Stages, Kinds,
         ApiKinds, StartKinds

-----------------------------------------------------------------------------
(* What a step does to the goroutines. *)

\* Goroutine g goes on at another place, with another manager.
Turns(g, at, m) ==
  /\ jobs'[g] = [kind |-> jobs[g].kind, m |-> m, n |-> jobs[g].n, at |-> at]
  /\ \A h \in Goroutines \ {g} : jobs'[h] = jobs[h]
Ends(g) == jobs'[g] = NoJob /\ \A h \in Goroutines \ {g} : jobs'[h] = jobs[h]
\* Goroutine g ends, and job begins in an idle one.
Hands(g, job) == \E h \in Goroutines :
  /\ h = g \/ jobs[h] = NoJob
  /\ jobs'[h] = job
  /\ \A k \in Goroutines \ {h} : jobs'[k] = IF k = g THEN NoJob ELSE jobs[k]
\* The job begins in an idle goroutine, and nothing else changes.
Begins(job) == \E h \in Goroutines :
  /\ jobs[h] = NoJob /\ jobs'[h] = job
  /\ \A k \in Goroutines \ {h} : jobs'[k] = jobs[k]

LEMMA TurnsTyped ==
  ASSUME TypeJobs, NEW g \in Goroutines, jobs[g] # NoJob, NEW at \in Stages,
         NEW m \in 0..MaxManagers, jobs' = [jobs EXCEPT ![g].at = at, ![g].m = m]
  PROVE  TypeJobs' /\ Turns(g, at, m)
<1>1. jobs[g] \in Work
  BY JobShape
<1> QED
  BY <1>1 DEF Turns, Work, TypeJobs

LEMMA MovesTyped ==
  ASSUME TypeJobs, NEW g \in Goroutines, jobs[g] # NoJob, NEW at \in Stages,
         jobs' = [jobs EXCEPT ![g].at = at]
  PROVE  TypeJobs' /\ Turns(g, at, jobs[g].m)
<1>1. jobs[g] \in Work
  BY JobShape
<1> QED
  BY <1>1 DEF Turns, Work, TypeJobs

LEMMA EndsTyped ==
  ASSUME TypeJobs, NEW g \in Goroutines, jobs' = Without(jobs, g)
  PROVE  TypeJobs' /\ Ends(g)
  BY DEF Ends, TypeJobs, Without

LEMMA BeginsTyped ==
  ASSUME TypeJobs, NEW job \in Work, Free(jobs) # {}, jobs' = With(jobs, job)
  PROVE  TypeJobs' /\ Begins(job)
<1> DEFINE h == CHOOSE k \in Free(jobs) : TRUE
<1>1. h \in Free(jobs) /\ jobs' = [jobs EXCEPT ![h] = job]
  BY DEF With
<1> HIDE DEF h
<1> QED
  BY <1>1 DEF Begins, TypeJobs, Free

LEMMA HandsTyped ==
  ASSUME TypeJobs, NEW g \in Goroutines, NEW job \in Work,
         jobs' = With(Without(jobs, g), job)
  PROVE  TypeJobs' /\ Hands(g, job)
<1> DEFINE js == Without(jobs, g)   h == CHOOSE k \in Free(js) : TRUE
<1>1. /\ js \in [Goroutines -> {NoJob} \cup Work] /\ js[g] = NoJob
      /\ \A k \in Goroutines : k # g => js[k] = jobs[k]
  BY DEF Without, TypeJobs
<1>2. g \in Free(js)
  BY <1>1 DEF Free
<1>3. h \in Free(js) /\ jobs' = [js EXCEPT ![h] = job]
  BY <1>2 DEF With
<1> HIDE DEF js, h
<1>4. h \in Goroutines /\ js[h] = NoJob
  BY <1>3 DEF Free
<1>5. TypeJobs'
  BY <1>1, <1>3 DEF TypeJobs
<1>6. Hands(g, job)
  BY <1>1, <1>3, <1>4 DEF Hands
<1> QED
  BY <1>5, <1>6

\* A step of one goroutine leaves what the others are doing.
Others(g) == \A h \in Goroutines : h # g /\ jobs[h] # NoJob => jobs'[h] = jobs[h]

LEMMA OthersStay ==
  ASSUME NEW g \in Goroutines
  PROVE  /\ Ends(g) => Others(g)
         /\ \A at, m : Turns(g, at, m) => Others(g)
         /\ \A job : Hands(g, job) \/ Begins(job) => Others(g)
  BY DEF Ends, Turns, Hands, Begins, Others

LEMMA WitnessesStay ==
  ASSUME TypeJobs, NEW g \in Goroutines, Others(g)
  PROVE  /\ CrashTold /\ jobs[g].kind # "crash" => CrashTold'
         /\ \A m : RestartComes(m) /\ ~(jobs[g].kind = "backoff" /\ jobs[g].m = m)
                     => RestartComes(m)'
         /\ StopComes /\ jobs[g].kind # "stop" /\ ~(jobs[g].kind = "disable" /\ jobs[g].at = "launch")
              => StopComes'
<1>1. \A h \in Goroutines : jobs[h] = NoJob => jobs[h].kind = "none"
  BY JobShape
<1> QED
  BY <1>1 DEF Others, CrashTold, RestartComes, StopComes

LEMMA TurnsKeeps ==
  ASSUME TypeJobs, NEW g \in Goroutines, NEW at, NEW m, Turns(g, at, m)
  PROVE  /\ jobs'[g].kind = jobs[g].kind /\ jobs'[g].at = at
         /\ jobs'[g].m = m /\ jobs'[g].n = jobs[g].n
         /\ CrashTold => CrashTold'
  BY DEF Turns, CrashTold

-----------------------------------------------------------------------------
(* The goroutines and the gate. *)

LEMMA EndsFit ==
  ASSUME TypeJobs, JobsFit, NEW g \in Goroutines, g = gate, gate' = 0, Ends(g),
         faults \in Nat, faults' \in Nat, faults <= faults'
  PROVE  JobsFit' /\ HolderFits'
<1>1. \A h \in Goroutines : jobs[h].n \in Nat
  BY JobShape, Bounds
<1> QED
  BY <1>1, Nothing, Bounds DEF JobsFit, HolderFits, Ends, NoJobFields

LEMMA TurnsFit ==
  ASSUME TypeJobs, JobsFit, NEW g \in Goroutines, g = gate, gate' = gate,
         NEW at \in InsideStages, NEW m, Turns(g, at, m),
         at = "launch" => jobs[g].kind \in ApiKinds,
         at \in FreshStages => jobs[g].kind \in StartKinds,
         at \in SwapStages => jobs[g].kind = "reload",
         jobs[g].kind \in {"observe", "backoff"} => m # 0,
         faults \in Nat, faults' \in Nat, faults <= faults'
  PROVE  JobsFit'
<1>1. \A h \in Goroutines : jobs[h].n \in Nat
  BY JobShape, Bounds
<1>2. /\ jobs'[g].kind = jobs[g].kind /\ jobs'[g].at = at /\ jobs'[g].n = jobs[g].n
      /\ jobs'[g].m = m
      /\ \A h \in Goroutines \ {g} : jobs'[h] = jobs[h]
  BY DEF Turns
<1>3. at \notin {"timer", "reap", "report"}
  BY DEF InsideStages, FreshStages, SwapStages
<1> QED
  BY <1>1, <1>2, <1>3 DEF JobsFit, Shape

LEMMA HandsFit ==
  ASSUME TypeJobs, JobsFit, NEW g \in Goroutines, g = gate, gate' = 0,
         NEW job \in Work, Hands(g, job), Shape(job), job.at \notin InsideStages,
         job.n <= faults', faults \in Nat, faults' \in Nat, faults <= faults'
  PROVE  JobsFit' /\ HolderFits'
<1>1. \A h \in Goroutines : jobs[h].n \in Nat
  BY JobShape, Bounds
<1> QED
  BY <1>1, Nothing, Bounds DEF JobsFit, HolderFits, Hands, NoJobFields

LEMMA BeginsFit ==
  ASSUME TypeJobs, JobsFit, gate' = gate, NEW job \in Work, Begins(job),
         Shape(job), job.at \notin InsideStages,
         job.n <= faults', faults \in Nat, faults' \in Nat, faults <= faults'
  PROVE  /\ JobsFit'
         /\ gate \in Goroutines => jobs'[gate] = jobs[gate]
<1>1. \A h \in Goroutines : jobs[h].n \in Nat
  BY JobShape, Bounds
<1>2. PICK h \in Goroutines :
        /\ jobs[h] = NoJob /\ jobs'[h] = job
        /\ \A k \in Goroutines \ {h} : jobs'[k] = jobs[k]
  BY DEF Begins
<1>3. h # gate
  BY <1>2, Nothing DEF JobsFit, NoJobFields
<1> QED
  BY <1>1, <1>2, <1>3 DEF JobsFit

\* What a goroutine inside the gate may be.
LEMMA HolderShape ==
  ASSUME IInv, NEW g \in Goroutines, g = gate
  PROVE  /\ jobs[g] # NoJob /\ jobs[g] \in Work /\ jobs[g].at \in InsideStages
         /\ gate # 0 /\ Shape(jobs[g])
<1>1. TypeJobs /\ JobsFit
  BY DEF IInv
<1>2. jobs[g].at \in InsideStages
  BY <1>1 DEF JobsFit
<1>3. jobs[g] # NoJob
  BY <1>2, Nothing DEF NoJobFields
<1> QED
  BY <1>1, <1>2, <1>3, JobShape, Bounds DEF JobsFit

-----------------------------------------------------------------------------
(* Steps that only end the work of a goroutine. *)

LEMMA LeavesGate ==
  ASSUME IInv, NEW g \in Goroutines, g = gate, gate' = 0, jobs' = Without(jobs, g),
         UNCHANGED <<desired, regVars, procVars, shut, calls, faults>>,
         shown' \in States, slot' \in {0, slot, item},
         slot' \in {0, slot} \/ desired = "enabled" \/ ItemState = "running",
         jobs[g].at \notin {"swapStart", "swapActivate"},
         jobs[g].at = "retire" => \A m \in Managers : Swaps(m) => state[m] \notin {"starting", "running", "crashed"},
         jobs[g].kind = "crash" => ItemState # "crashed",
         jobs[g].kind = "backoff" => item # jobs[g].m \/ ItemState # "backoff",
         jobs[g].kind = "stop" => \/ desired = "enabled"
                                  \/ slot' = 0 /\ ItemState \notin {"starting", "running"},
         jobs[g].at = "launch" => jobs[g].kind # "disable" \/ closed
  PROVE  IInv'
<1>0. /\ TypeRest /\ TypeManagers /\ TypeJobs /\ ManagersFit /\ JobsFit /\ HolderFits
      /\ Owned /\ Pending
  BY DEF IInv
<1>1. TypeJobs' /\ Ends(g) /\ Others(g)
  BY <1>0, EndsTyped, OthersStay
<1>2. TypeRest' /\ TypeManagers'
  BY <1>0, Bounds DEF TypeRest, TypeManagers, regVars, procVars
<1>3. ManagersFit'
  BY <1>0 DEF ManagersFit, Unseen, regVars, procVars
<1>4. JobsFit' /\ HolderFits'
  BY <1>0, <1>1, EndsFit, Bounds DEF TypeRest
<1>5. \A m : ~Swaps(m)'
  BY DEF Swaps
<1>6. \A m \in Managers : Swaps(m) => state[m] \notin {"starting", "running", "crashed"}
  BY DEF Swaps, SwapStages
<1>7. Owned'
  <2>1. shut' \in {"stopping", "ended"} => WorkersDone'
    BY <1>0, <1>1, Nothing DEF Owned, WorkersDone, Ends, NoJobFields
  <2> QED
    BY <1>0, <1>5, <1>6, <2>1 DEF Owned, Reachable, regVars, procVars
<1>8. Pending'
  <2>1. ASSUME NEW m \in Managers, (state[m] = "crashed" /\ (m = item \/ Swaps(m)) /\ ~closed)'
        PROVE  CrashTold'
    <3>1. m = item /\ state[m] = "crashed" /\ ~closed /\ item # 0
      BY <1>5, <2>1, Bounds DEF regVars, procVars, closed
    <3> QED
      BY <1>0, <1>1, <3>1, WitnessesStay DEF Pending, ItemState
  <2>2. ASSUME NEW m \in Managers, state'[m] = "backoff"
        PROVE  m = item' /\ (closed' \/ RestartComes(m)')
    <3>1. m = item /\ state[m] = "backoff" /\ item # 0
      BY <1>0, <2>2, Bounds DEF regVars, procVars, Pending
    <3> QED
      BY <1>0, <1>1, <3>1, WitnessesStay DEF Pending, ItemState, regVars, closed
  <2>3. ASSUME desired' = "disabled", ~closed'
        PROVE  \/ slot' = 0 /\ (item' # 0 => state'[item'] \notin {"starting", "running"})
               \/ StopComes'
    <3>1. desired = "disabled" /\ ~closed
      BY <2>3 DEF closed
    <3>2. CASE StopComes
      BY <1>0, <1>1, <3>1, <3>2, WitnessesStay DEF ItemState, regVars, procVars
    <3>3. CASE ~StopComes
      BY <1>0, <3>1, <3>3 DEF Pending, ItemState, regVars, procVars
    <3> QED
      BY <3>2, <3>3
  <2> QED
    BY <2>1, <2>2, <2>3 DEF Pending
<1> QED
  BY <1>1, <1>2, <1>3, <1>4, <1>7, <1>8 DEF IInv

\* What is published about the registered manager.
LEMMA ShownTyped ==
  ASSUME TypeRest, TypeManagers
  PROVE  /\ item # 0 => item \in Managers /\ state[item] \in States
         /\ item = 0 => ItemState = "none"
         /\ item # 0 => ItemState = state[item]
         /\ Published("stopped", item, state) \in States
         /\ Failure(item, state) \in States
         /\ {"stopped", "starting", "running", "stopping", "dead_letter", "backoff"} \subseteq States
<1>1. item # 0 => item \in Managers /\ state[item] \in States
  BY Bounds DEF TypeRest, TypeManagers, Managers
<1> QED
  BY <1>1 DEF ItemState, Published, Failure, States

LEMMA CallsLeave ==
  ASSUME IInv, NEW g \in Goroutines, g = gate,
         Conflict(g) \/ StartFindsRunning(g) \/ EnsureFindsRunning(g) \/ EnsureLeaves(g)
         \/ StartUnwanted(g) \/ StopUnwanted(g) \/ StopMissing(g) \/ ObserveReplaced(g)
         \/ CrashIgnored(g) \/ RestartObsolete(g) \/ ReloadUnwanted(g) \/ ReloadBusy(g)
         \/ ReloadRejected(g)
  PROVE  IInv'
<1>0. TypeRest /\ TypeManagers /\ TypeJobs /\ HolderFits /\ Owned
  BY DEF IInv
<1>1. Shape(jobs[g]) /\ jobs[g] # NoJob /\ g # 0
  BY HolderShape
<1>2. /\ gate' = 0 /\ jobs' = Without(jobs, g)
      /\ UNCHANGED <<desired, regVars, procVars, shut, calls, faults>>
  BY DEF Conflict, StartFindsRunning, EnsureFindsRunning, EnsureLeaves, StartUnwanted,
         StopUnwanted, StopMissing, ObserveReplaced, CrashIgnored, RestartObsolete,
         ReloadUnwanted, ReloadBusy, ReloadRejected, Finish, regVars, procVars
<1>3. jobs[g].at \in {"held", "prepare"}
  BY DEF Conflict, StartFindsRunning, EnsureFindsRunning, EnsureLeaves, StartUnwanted,
         StopUnwanted, StopMissing, ObserveReplaced, CrashIgnored, RestartObsolete,
         ReloadUnwanted, ReloadBusy, ReloadRejected, Holds, At, Inside
<1>4. shown' \in States
  BY <1>0, ShownTyped
  DEF Conflict, StartFindsRunning, EnsureFindsRunning, EnsureLeaves, StartUnwanted,
      StopUnwanted, StopMissing, ObserveReplaced, CrashIgnored, RestartObsolete,
      ReloadUnwanted, ReloadBusy, ReloadRejected, TypeRest
<1>5. /\ slot' \in {0, slot, item}
      /\ slot' \in {0, slot} \/ desired = "enabled" \/ ItemState = "running"
  BY DEF Conflict, StartFindsRunning, EnsureFindsRunning, EnsureLeaves, StartUnwanted,
         StopUnwanted, StopMissing, ObserveReplaced, CrashIgnored, RestartObsolete,
         ReloadUnwanted, ReloadBusy, ReloadRejected, RegisterIfNeeded
<1>6. /\ jobs[g].kind = "crash" => ItemState # "crashed"
      /\ jobs[g].kind = "backoff" => item # jobs[g].m \/ ItemState # "backoff"
      /\ jobs[g].kind = "stop" => \/ desired = "enabled"
                                  \/ slot' = 0 /\ ItemState \notin {"starting", "running"}
  <2>1. CASE StartUnwanted(g)
    <3>1. jobs[g].at = "prepare" /\ desired = "disabled"
      BY <2>1 DEF StartUnwanted, Inside
    <3>2. jobs[g].kind \in StartKinds /\ jobs[g].kind # "backoff"
      BY <1>0, <1>1, <3>1 DEF Shape, FreshStages, HolderFits
    <3> QED
      BY <3>2 DEF StartKinds
  <2>2. CASE ~StartUnwanted(g)
    BY <1>0, <2>2, ShownTyped
    DEF Conflict, StartFindsRunning, EnsureFindsRunning, EnsureLeaves,
        StopUnwanted, StopMissing, ObserveReplaced, CrashIgnored, RestartObsolete,
        ReloadUnwanted, ReloadBusy, ReloadRejected, Holds, At, Inside
  <2> QED
    BY <2>1, <2>2
<1> QED
  BY <1>2, <1>3, <1>4, <1>5, <1>6, LeavesGate

-----------------------------------------------------------------------------
(* What a step does to a manager. *)

Moves(m) == \A k \in Managers \ {m} :
  state'[k] = state[k] /\ proc'[k] = proc[k] /\ crashes'[k] = crashes[k]

LEMMA MovesFit ==
  ASSUME TypeRest, TypeRest', ManagersFit, NEW m \in Managers, Moves(m),
         TypeManagers, created <= created', faults <= faults',
         proc'[m] \in ProcessOf(state'[m]), m > created' => state'[m] = "stopped",
         crashes'[m] + Unseen(m)' <= faults'
  PROVE  ManagersFit'
<1> SUFFICES ASSUME NEW k \in Managers, k # m
             PROVE  /\ proc'[k] \in ProcessOf(state'[k])
                    /\ k > created' => state'[k] = "stopped"
                    /\ crashes'[k] + Unseen(k)' <= faults'
  BY DEF ManagersFit
<1>1. state'[k] = state[k] /\ proc'[k] = proc[k] /\ crashes'[k] = crashes[k]
  BY DEF Moves
<1>2. crashes[k] + Unseen(k) <= faults /\ Unseen(k)' = Unseen(k) /\ Unseen(k) \in Nat
  BY <1>1 DEF ManagersFit, Unseen
<1>3. k \in Nat /\ created \in Nat /\ created' \in Nat /\ faults \in Nat /\ faults' \in Nat
      /\ crashes[k] \in Nat
  BY Bounds DEF TypeRest, TypeManagers
<1> QED
  BY <1>1, <1>2, <1>3 DEF ManagersFit

\* SetStopped leaves a manager that still owns a process as it is.
LEMMA StoppedMoves ==
  ASSUME TypeManagers, ManagersFit, NEW m \in Managers, state' = Stopped(m, state, proc)
  PROVE  /\ state' \in [Managers -> States]
         /\ state'[m] = IF state[m] \in Active THEN state[m] ELSE "stopped"
         /\ \A k \in Managers \ {m} : state'[k] = state[k]
<1>1. proc[m] \in ProcessOf(state[m])
  BY DEF ManagersFit
<1>2. CleanupComplete(m, state, proc) <=> state[m] \notin Active
  BY <1>1 DEF CleanupComplete, Active, ProcessOf
<1> QED
  BY <1>2 DEF Stopped, TypeManagers, States

\* What Manager.Stop leaves.
LEMMA StopEnds ==
  ASSUME TypeRest, TypeManagers, ManagersFit, NEW m \in Managers, NEW o, NEW reset \in BOOLEAN,
         StopEffects(m, o, reset)
  PROVE  /\ crashes' \in [Managers -> 0..MaxFaults] /\ restart' \in [Managers -> BOOLEAN]
         /\ proc' \in [Managers -> {"none", "live", "exited", "dying"}] /\ proc'[m] = o.proc
         /\ \A k \in Managers \ {m} : proc'[k] = proc[k] /\ crashes'[k] = crashes[k]
         /\ o.state \in {"stopped", "crashed", "stopping"}
         /\ o.proc = IF o.state = "stopping" THEN "dying" ELSE "none"
         /\ o.crash \in BOOLEAN /\ (o.crash <=> o.state = "crashed")
         /\ o.ok \in BOOLEAN /\ (o.ok => o.proc = "none") /\ (o.crash => o.ok)
         /\ o.extra \in {0, 1} /\ (o.extra = 1 => proc[m] = "exited")
         /\ crashes[m] + o.extra <= faults' /\ crashes[m] + o.extra \in 0..MaxFaults
         /\ crashes'[m] + Unseen(m)' <= faults'
         /\ faults \in Nat /\ faults' \in 0..MaxFaults /\ faults <= faults'
<1>1. o \in StopOutcomes(m)
  BY DEF StopEffects
<1>2. /\ o.state \in {"stopped", "crashed", "stopping"}
      /\ o.proc = IF o.state = "stopping" THEN "dying" ELSE "none"
      /\ o.crash \in BOOLEAN /\ (o.crash <=> o.state = "crashed")
      /\ o.ok \in BOOLEAN /\ (o.ok => o.proc = "none") /\ (o.crash => o.ok)
      /\ o.extra \in {0, 1} /\ (o.extra = 1 => proc[m] = "exited")
  <2>1. \/ o \in {StopOutcome("stopped", "none", FALSE, 0, TRUE),
                 StopOutcome("stopped", "none", FALSE, 0, FALSE),
                 StopOutcome("stopping", "dying", FALSE, 0, FALSE),
                 StopOutcome("crashed", "none", TRUE, 0, TRUE)}
        \/ proc[m] = "exited" /\ o = StopOutcome("crashed", "none", TRUE, 1, TRUE)
    BY <1>1 DEF StopOutcomes
  <2>2. CASE o = StopOutcome("stopped", "none", FALSE, 0, TRUE)
    BY <2>2 DEF StopOutcome
  <2>3. CASE o = StopOutcome("stopped", "none", FALSE, 0, FALSE)
    BY <2>3 DEF StopOutcome
  <2>4. CASE o = StopOutcome("stopping", "dying", FALSE, 0, FALSE)
    BY <2>4 DEF StopOutcome
  <2>5. CASE o = StopOutcome("crashed", "none", TRUE, 0, TRUE)
    BY <2>5 DEF StopOutcome
  <2>6. CASE proc[m] = "exited" /\ o = StopOutcome("crashed", "none", TRUE, 1, TRUE)
    BY <2>6 DEF StopOutcome
  <2> QED
    BY <2>1, <2>2, <2>3, <2>4, <2>5, <2>6
<1>3. /\ faults \in Nat /\ faults' \in 0..MaxFaults /\ faults <= faults'
  BY Bounds DEF StopEffects, Fault, NoFault, TypeRest
<1>4. crashes[m] + o.extra <= faults' /\ crashes[m] + o.extra \in 0..MaxFaults
      /\ crashes[m] \in Nat
  <2>1. crashes[m] \in Nat /\ crashes[m] + Unseen(m) <= faults
    BY DEF TypeManagers, ManagersFit
  <2>2. o.extra <= Unseen(m) /\ Unseen(m) \in {0, 1}
    BY <1>2 DEF Unseen
  <2> QED
    BY <1>2, <1>3, <2>1, <2>2, Bounds
<1>5. /\ proc' = [proc EXCEPT ![m] = o.proc]
      /\ restart' = [restart EXCEPT ![m] = restart[m] /\ o.crash]
      /\ crashes' = [crashes EXCEPT ![m] = IF reset /\ o.ok THEN 0 ELSE crashes[m] + o.extra]
  BY DEF StopEffects
<1>6. /\ crashes' \in [Managers -> 0..MaxFaults] /\ restart' \in [Managers -> BOOLEAN]
      /\ proc' \in [Managers -> {"none", "live", "exited", "dying"}]
  BY <1>2, <1>4, <1>5, Bounds DEF TypeManagers
<1>7. /\ proc'[m] = o.proc
      /\ \A k \in Managers \ {m} : proc'[k] = proc[k] /\ crashes'[k] = crashes[k]
  BY <1>5 DEF TypeManagers
<1>8. crashes'[m] + Unseen(m)' <= faults'
  <2>1. Unseen(m)' = 0
    BY <1>2, <1>7 DEF Unseen
  <2>2. crashes'[m] \in {0, crashes[m] + o.extra}
    BY <1>5 DEF TypeManagers
  <2> QED
    BY <1>2, <1>3, <1>4, <2>1, <2>2
<1> QED
  BY <1>2, <1>3, <1>4, <1>6, <1>7, <1>8

LEMMA StopMoves ==
  ASSUME TypeRest, TypeManagers, ManagersFit, NEW m \in Managers, NEW o, NEW reset \in BOOLEAN,
         StopManager(m, o, reset)
  PROVE  /\ TypeManagers' /\ Moves(m) /\ state'[m] = o.state /\ proc'[m] = o.proc
         /\ o.state \in {"stopped", "crashed", "stopping"}
         /\ o.proc = IF o.state = "stopping" THEN "dying" ELSE "none"
         /\ o.crash \in BOOLEAN /\ (o.crash <=> o.state = "crashed")
         /\ o.ok \in BOOLEAN /\ (o.ok => o.proc = "none") /\ (o.crash => o.ok)
         /\ o.extra \in {0, 1} /\ (o.extra = 1 => proc[m] = "exited")
         /\ crashes[m] + o.extra <= faults'
         /\ crashes'[m] + Unseen(m)' <= faults'
         /\ faults \in Nat /\ faults' \in 0..MaxFaults /\ faults <= faults'
<1>1. StopEffects(m, o, reset) /\ state' = [state EXCEPT ![m] = o.state]
  BY DEF StopManager
<1>2. /\ crashes' \in [Managers -> 0..MaxFaults] /\ restart' \in [Managers -> BOOLEAN]
      /\ proc' \in [Managers -> {"none", "live", "exited", "dying"}] /\ proc'[m] = o.proc
      /\ \A k \in Managers \ {m} : proc'[k] = proc[k] /\ crashes'[k] = crashes[k]
      /\ o.state \in {"stopped", "crashed", "stopping"}
  BY <1>1, StopEnds
<1>3. TypeManagers' /\ Moves(m) /\ state'[m] = o.state
  BY <1>1, <1>2 DEF TypeManagers, Moves, States
<1> QED
  BY <1>1, <1>2, <1>3, StopEnds

-----------------------------------------------------------------------------
(* Management calls, and the goroutines outside of the gate. *)

LEMMA CallsAccepted ==
  ASSUME IInv, NEW g \in Goroutines, g = gate, Enable(g) \/ DisableActive(g) \/ RequestReload(g)
  PROVE  IInv'
<1>0. /\ TypeRest /\ TypeManagers /\ TypeJobs /\ ManagersFit /\ JobsFit /\ HolderFits
      /\ Owned /\ Pending
  BY DEF IInv
<1>1. jobs[g] # NoJob /\ g # 0 /\ jobs[g].at = "held" /\ jobs[g].kind \in ApiKinds
  BY HolderShape, Bounds DEF Enable, DisableActive, RequestReload, Holds, At, ApiKinds
<1>2. TypeJobs' /\ Turns(g, "launch", 0) /\ gate' = gate
  <2>1. jobs' = [jobs EXCEPT ![g].at = "launch", ![g].m = 0] /\ gate' = gate
    BY DEF Enable, DisableActive, RequestReload, Goto
  <2>2. "launch" \in Stages /\ 0 \in 0..MaxManagers
    BY Bounds DEF Stages
  <2> QED
    BY <1>0, <1>1, <2>1, <2>2, TurnsTyped
<1>3. /\ UNCHANGED <<regVars, procVars, slot, shut, calls, faults>>
      /\ desired' \in {"enabled", "disabled"} /\ shown' \in States
  BY <1>0 DEF Enable, DisableActive, RequestReload, TypeRest, States
<1>4. TypeRest' /\ TypeManagers' /\ ManagersFit'
  BY <1>0, <1>2, <1>3 DEF TypeRest, TypeManagers, ManagersFit, Unseen, regVars, procVars
<1>5. JobsFit'
  BY <1>0, <1>1, <1>2, <1>3, TurnsFit, Bounds
  DEF TypeRest, InsideStages, FreshStages, SwapStages, ApiKinds
<1>6. jobs'[g].kind = jobs[g].kind /\ jobs'[g].at = "launch" /\ (CrashTold => CrashTold')
  BY <1>0, <1>2, TurnsKeeps
<1>7. HolderFits'
  BY <1>2, <1>6 DEF HolderFits, FreshStages, SwapStages
<1>8. \A m : ~Swaps(m) /\ ~Swaps(m)'
  BY <1>1, <1>2, <1>6 DEF Swaps, SwapStages
<1>9. Owned'
  <2>1. WorkersDone => WorkersDone'
    BY <1>2, <1>6 DEF WorkersDone, Turns
  <2> QED
    BY <1>0, <1>3, <1>8, <2>1 DEF Owned, Reachable, regVars, procVars
<1>10. Pending'
  <2>1. \A m : RestartComes(m) => RestartComes(m)'
    BY <1>0, <1>1, <1>2, OthersStay, WitnessesStay DEF ApiKinds
  <2>2. desired' = "enabled" \/ StopComes'
    BY <1>6 DEF Enable, DisableActive, RequestReload, Holds, At, StopComes
  <2> QED
    BY <1>0, <1>3, <1>6, <1>8, <2>1, <2>2 DEF Pending, regVars, procVars, closed
<1> QED
  BY <1>2, <1>4, <1>5, <1>7, <1>9, <1>10 DEF IInv

\* A manager leaves what it was doing: it is stopped, killed, found dead, or its
\* crash is handled.  Whatever waited for it still comes, or is not needed.
LEMMA ManagerSettles ==
  ASSUME IInv, TypeRest', TypeManagers', TypeJobs', ManagersFit', JobsFit', HolderFits',
         NEW m \in Managers, Moves(m), UNCHANGED <<item, created, shut>>,
         desired' \in {desired, "enabled"}, state'[m] \notin {"starting", "running"}, proc'[m] \in {"none", "dying"},
         retired' = retired \/ (retired' = retired \ {m} /\ proc'[m] = "none"),
         proc'[m] # "none" => m \in Reachable',
         slot' \in {0, slot}, closed /\ WorkersDone => WorkersDone',
         \A k \in Managers : k # m /\ Swaps(k) => Swaps(k)',
         \A k \in Managers : Swaps(k)' => Swaps(k),
         state'[m] = "crashed" /\ (m = item \/ Swaps(m)) /\ ~closed => CrashTold',
         \A k \in Managers : k # m /\ (k = item \/ Swaps(k)) /\ CrashTold => CrashTold',
         state'[m] = "backoff" => m = item /\ (closed \/ RestartComes(m)'),
         \A k \in Managers : k # m /\ k = item /\ RestartComes(k) => closed \/ RestartComes(k)',
         desired = "disabled" /\ ~closed /\ StopComes =>
           StopComes' \/ (slot' = 0 /\ (item = m \/ item = 0))
  PROVE  IInv'
<1>0. /\ TypeRest /\ TypeManagers /\ TypeJobs /\ ManagersFit /\ JobsFit /\ HolderFits
      /\ Owned /\ Pending
  BY DEF IInv
<1>1. \A k \in Managers \ {m} : state'[k] = state[k] /\ proc'[k] = proc[k]
  BY DEF Moves
<1>2. closed' <=> closed
  BY DEF closed
<1>3. item # 0 => item \in Managers
  BY <1>0, Bounds DEF TypeRest, Managers
<1>4. Owned'
  <2>1. ASSUME NEW k \in Managers, proc'[k] # "none" PROVE k \in Reachable'
    BY <1>0, <1>1, <2>1 DEF Owned, Reachable
  <2>2. ASSUME NEW k \in Managers, state'[k] \in {"starting", "running"}
        PROVE  k = item' \/ Swaps(k)'
    BY <1>0, <1>1, <2>2 DEF Owned
  <2>3. shut' = "ended" => \A k \in Managers : proc'[k] \in {"none", "dying"}
    BY <1>0, <1>1 DEF Owned
  <2> QED
    BY <1>0, <2>1, <2>2, <2>3 DEF Owned, closed
<1>5. Pending'
  <2>1. ASSUME NEW k \in Managers, state'[k] = "crashed", k = item' \/ Swaps(k)', ~closed'
        PROVE  CrashTold'
    BY <1>0, <1>1, <1>2, <2>1 DEF Pending
  <2>2. ASSUME NEW k \in Managers, state'[k] = "backoff"
        PROVE  k = item' /\ (closed' \/ RestartComes(k)')
    BY <1>0, <1>1, <1>2, <2>2 DEF Pending
  <2>3. ASSUME desired' = "disabled", ~closed'
        PROVE  \/ slot' = 0 /\ (item' # 0 => state'[item'] \notin {"starting", "running"})
               \/ StopComes'
    <3>1. desired = "disabled" /\ ~closed
      BY <1>2, <2>3
    <3>2. CASE StopComes
      BY <1>3, <3>1, <3>2
    <3>3. CASE ~StopComes
      BY <1>0, <1>1, <1>3, <3>1, <3>3 DEF Pending
    <3> QED
      BY <3>2, <3>3
  <2> QED
    BY <2>1, <2>2, <2>3 DEF Pending
<1> QED
  BY <1>4, <1>5 DEF IInv

\* The registered manager is removed: StopAll keeps it while it owns a process.
LEMMA ItemForgotten ==
  ASSUME IInv, TypeRest', TypeManagers', TypeJobs', ManagersFit', JobsFit',
         item # 0, Moves(item), item' = 0, slot' = 0, gate' = 0, UNCHANGED <<created, shut>>,
         \A m \in Managers : ~Swaps(m), WorkersDone => WorkersDone',
         state'[item] \notin {"starting", "running", "backoff"},
         retired' \in {retired, retired \cup {item}},
         proc'[item] # "none" => item \in retired' /\ proc'[item] = "dying"
  PROVE  IInv'
<1>0. /\ TypeRest /\ TypeManagers /\ TypeJobs /\ ManagersFit /\ JobsFit /\ HolderFits
      /\ Owned /\ Pending
  BY DEF IInv
<1>1. \A k \in Managers \ {item} : state'[k] = state[k] /\ proc'[k] = proc[k]
  BY DEF Moves
<1>2. \A k : ~Swaps(k)'
  BY DEF Swaps
<1>3. HolderFits'
  BY DEF HolderFits
<1>4. Owned'
  <2>1. ASSUME NEW k \in Managers, proc'[k] # "none" PROVE k \in Reachable'
    BY <1>0, <1>1, <2>1 DEF Owned, Reachable
  <2>2. \A k \in Managers : state'[k] \notin {"starting", "running"}
    BY <1>0, <1>1 DEF Owned
  <2>3. shut' = "ended" => \A k \in Managers : proc'[k] \in {"none", "dying"}
    BY <1>0, <1>1 DEF Owned
  <2> QED
    BY <1>0, <2>1, <2>2, <2>3 DEF Owned
<1>5. Pending'
  <2>1. \A k \in Managers : state'[k] # "backoff"
    BY <1>0, <1>1 DEF Pending
  <2> QED
    BY <1>2, <2>1, Bounds DEF Pending
<1> QED
  BY <1>3, <1>4, <1>5 DEF IInv

-----------------------------------------------------------------------------
(* Processes that end. *)

\* A process ends while the goroutine inside the gate is doing something else.
LEMMA HolderStays ==
  ASSUME TypeRest, TypeManagers, HolderFits, gate' = gate, gate # 0 => jobs'[gate] = jobs[gate],
         UNCHANGED <<desired, item, retired>>, NEW m \in Managers, Moves(m),
         state[m] # "starting", state'[m] # "backoff"
  PROVE  HolderFits' /\ \A k : Swaps(k)' <=> Swaps(k)
<1>1. \A k \in Managers \ {m} : state'[k] = state[k]
  BY DEF Moves
<1>2. item # 0 => item \in Managers
  BY Bounds DEF TypeRest, Managers
<1>3. \A k \in retired : k \in Managers
  BY Bounds DEF TypeRest, Managers
<1>4. \A k : Swaps(k)' <=> Swaps(k)
  BY DEF Swaps
<1>5. HolderFits'
  <2> SUFFICES ASSUME gate # 0 PROVE HolderFits'
    BY DEF HolderFits
  <2> DEFINE j == jobs[gate]
  <2>1. /\ j.at \in FreshStages => item # 0 /\ j.m = item
        /\ j.at \in SwapStages => item # 0 /\ j.m \in retired /\ j.m # item
        /\ j.at \in {"starting", "swapStart"} => state[j.m] = "starting"
        /\ j.at \in {"starting", "activate", "swapStart", "swapActivate"}
             => state[item] # "backoff"
    BY DEF HolderFits
  <2>2. j.at \in {"starting", "swapStart"} => j.m \in Managers \ {m}
    BY <1>2, <1>3, <2>1 DEF FreshStages, SwapStages
  <2>3. j.at \in {"starting", "swapStart"} => state'[j.m] = "starting"
    BY <1>1, <2>1, <2>2
  <2>4. j.at \in {"starting", "activate", "swapStart", "swapActivate"}
          => item \in Managers /\ state'[item] # "backoff"
    BY <1>1, <1>2, <2>1 DEF FreshStages, SwapStages
  <2> QED
    BY <2>1, <2>3, <2>4 DEF HolderFits
<1> QED
  BY <1>4, <1>5

\* A crash is told to the controller by a goroutine of its own.
LEMMA CrashBegins ==
  ASSUME TypeRest, TypeJobs, JobsFit, TypeRest', NEW m \in Managers, NEW n \in 0..MaxFaults,
         n <= faults', faults <= faults',
         Free(jobs) # {}, jobs' = With(jobs, Job("crash", m, n)), gate' = gate
  PROVE  /\ TypeJobs' /\ JobsFit' /\ CrashTold' /\ (WorkersDone => WorkersDone')
         /\ gate # 0 => jobs'[gate] = jobs[gate]
         /\ \A k : RestartComes(k) => RestartComes(k)'
         /\ StopComes => StopComes'
<1> DEFINE job == Job("crash", m, n)
<1>1. job \in Work /\ Shape(job) /\ job.at \notin InsideStages /\ job.n = n /\ job.kind = "crash"
  BY Bounds DEF Job, Work, Kinds, Stages, Shape, InsideStages, FreshStages, SwapStages, Managers
<1> HIDE DEF job
<1>2. TypeJobs' /\ Begins(job)
  BY <1>1, BeginsTyped DEF job
<1>3. JobsFit' /\ (gate \in Goroutines => jobs'[gate] = jobs[gate])
  BY <1>1, <1>2, BeginsFit, Bounds DEF TypeRest
<1>4. gate # 0 => gate \in Goroutines
  BY Bounds DEF TypeRest, Goroutines
<1>5. PICK h \in Goroutines : /\ jobs[h] = NoJob /\ jobs'[h] = job
                              /\ \A k \in Goroutines \ {h} : jobs'[k] = jobs[k]
  BY <1>2 DEF Begins
<1>6. WorkersDone => WorkersDone'
  BY <1>1, <1>5 DEF WorkersDone
<1>7. CrashTold'
  BY <1>1, <1>5 DEF CrashTold
<1>8. Others(h) /\ jobs[h].kind = "none"
  BY <1>5, Nothing DEF Others, NoJobFields
<1> QED
  BY <1>2, <1>3, <1>4, <1>6, <1>7, <1>8, WitnessesStay

LEMMA ExitKeeps == ASSUME IInv, NEW m \in Managers, ProcessExit(m) PROVE IInv'
<1>0. /\ TypeRest /\ TypeManagers /\ TypeJobs /\ ManagersFit /\ JobsFit /\ HolderFits
      /\ Owned /\ Pending
  BY DEF IInv
<1>1. /\ state[m] = "running" /\ proc[m] = "live" /\ faults' = faults + 1 /\ faults < MaxFaults
      /\ proc' = [proc EXCEPT ![m] = "exited"]
      /\ UNCHANGED <<desired, shown, item, retired, created, state, crashes, restart,
                     slot, jobs, gate, shut, calls>>
  BY DEF ProcessExit, Fault
<1>2. TypeRest' /\ TypeManagers' /\ TypeJobs'
  BY <1>0, <1>1, Bounds DEF TypeRest, TypeManagers, TypeJobs
<1>3. ManagersFit'
  <2>1. Moves(m) /\ proc'[m] = "exited"
    BY <1>0, <1>1 DEF Moves, TypeManagers
  <2>2. crashes[m] + Unseen(m) <= faults /\ crashes[m] \in Nat /\ faults \in Nat
    BY <1>0, Bounds DEF ManagersFit, TypeManagers, TypeRest
  <2>3. crashes'[m] + Unseen(m)' <= faults'
    BY <1>1, <2>1, <2>2 DEF Unseen
  <2>4. m <= created
    BY <1>0, <1>1, Bounds DEF ManagersFit, TypeRest
  <2>5. created \in Nat /\ created <= created' /\ faults <= faults' /\ m \in Nat /\ created' \in Nat
    BY <1>1, <2>2, Bounds, <1>0 DEF TypeRest
  <2>6. proc'[m] \in ProcessOf(state'[m])
    BY <1>1, <2>1 DEF ProcessOf
  <2> QED
    BY <1>0, <1>1, <1>2, <2>1, <2>3, <2>4, <2>5, <2>6, MovesFit
<1>4. JobsFit' /\ HolderFits'
  <2>1. \A g \in Goroutines : jobs[g].n \in Nat /\ faults \in Nat
    BY <1>0, JobShape, Bounds DEF TypeRest
  <2> QED
    BY <1>0, <1>1, <2>1 DEF JobsFit, HolderFits
<1>5. Owned'
  BY <1>0, <1>1 DEF Owned, Reachable, Swaps, WorkersDone, TypeManagers
<1>6. Pending'
  BY <1>0, <1>1 DEF Pending, Swaps, CrashTold, RestartComes, StopComes, closed
<1> QED
  BY <1>2, <1>3, <1>4, <1>5, <1>6 DEF IInv

LEMMA WatchKeeps == ASSUME IInv, NEW m \in Managers, WatchExit(m) PROVE IInv'
<1>0. /\ TypeRest /\ TypeManagers /\ TypeJobs /\ ManagersFit /\ JobsFit /\ HolderFits
      /\ Owned /\ Pending
  BY DEF IInv
<1>1. /\ proc[m] = "exited" /\ Free(jobs) # {}
      /\ state' = [state EXCEPT ![m] = "crashed"] /\ crashes' = [crashes EXCEPT ![m] = crashes[m] + 1]
      /\ proc' = [proc EXCEPT ![m] = "none"]
      /\ jobs' = With(jobs, Job("crash", m, crashes'[m]))
      /\ UNCHANGED <<desired, shown, item, retired, created, restart,
                     slot, gate, shut, calls, faults>>
  BY DEF WatchExit
<1>2. crashes[m] + 1 <= faults /\ crashes[m] + 1 \in 0..MaxFaults /\ state[m] = "running"
      /\ crashes[m] \in Nat /\ faults \in Nat
  BY <1>0, <1>1, Bounds DEF ManagersFit, TypeManagers, TypeRest, Unseen, ProcessOf
<1>3. TypeRest' /\ TypeManagers'
  BY <1>0, <1>1, <1>2, Bounds DEF TypeRest, TypeManagers, States
<1>4. Moves(m) /\ state'[m] = "crashed" /\ proc'[m] = "none" /\ crashes'[m] = crashes[m] + 1
  BY <1>0, <1>1 DEF Moves, TypeManagers
<1>5. ManagersFit'
  <2>1. m <= created /\ created \in Nat
    BY <1>0, <1>2, Bounds DEF ManagersFit, TypeRest
  <2>2. proc'[m] \in ProcessOf(state'[m])
    BY <1>4 DEF ProcessOf
  <2>3. crashes'[m] + Unseen(m)' <= faults'
    BY <1>1, <1>2, <1>4 DEF Unseen
  <2>4. created <= created' /\ faults <= faults' /\ m \in Nat
    BY <1>1, <1>2, <2>1, Bounds
  <2> QED
    BY <1>0, <1>1, <1>3, <1>4, <2>1, <2>2, <2>3, <2>4, MovesFit
<1>6. /\ TypeJobs' /\ JobsFit' /\ CrashTold' /\ (WorkersDone => WorkersDone')
      /\ gate # 0 => jobs'[gate] = jobs[gate]
      /\ \A k : RestartComes(k) => RestartComes(k)'
      /\ StopComes => StopComes'
  BY <1>0, <1>1, <1>2, <1>3, <1>4, CrashBegins
<1>7. HolderFits' /\ \A k : Swaps(k)' <=> Swaps(k)
  BY <1>0, <1>1, <1>2, <1>4, <1>6, HolderStays
<1> QED
  BY <1>1, <1>3, <1>4, <1>5, <1>6, <1>7, ManagerSettles

LEMMA FailKeeps == ASSUME IInv, NEW m \in Managers, FailRuntime(m) PROVE IInv'
<1>0. /\ TypeRest /\ TypeManagers /\ TypeJobs /\ ManagersFit /\ JobsFit /\ HolderFits
      /\ Owned /\ Pending
  BY DEF IInv
<1>1. /\ state[m] = "running" /\ proc[m] \in {"live", "exited"}
      /\ faults' = faults + 1 /\ faults < MaxFaults
      /\ state' = [state EXCEPT ![m] = "stopping"] /\ crashes' = [crashes EXCEPT ![m] = crashes[m] + 1]
      /\ proc' = [proc EXCEPT ![m] = "dying"] /\ restart' = [restart EXCEPT ![m] = TRUE]
      /\ UNCHANGED <<desired, shown, item, retired, created, slot, jobs, gate, shut, calls>>
  BY DEF FailRuntime, Fault
<1>2. /\ crashes[m] <= faults /\ crashes[m] \in Nat /\ faults \in Nat
      /\ crashes[m] + 1 \in 0..MaxFaults
  BY <1>0, <1>1, Bounds DEF ManagersFit, TypeManagers, TypeRest, Unseen
<1>3. TypeRest' /\ TypeManagers' /\ TypeJobs'
  BY <1>0, <1>1, <1>2, Bounds DEF TypeRest, TypeManagers, TypeJobs, States
<1>4. Moves(m) /\ state'[m] = "stopping" /\ proc'[m] = "dying" /\ crashes'[m] = crashes[m] + 1
  BY <1>0, <1>1 DEF Moves, TypeManagers
<1>5. ManagersFit'
  <2>1. m <= created /\ created \in Nat
    BY <1>0, <1>1, Bounds DEF ManagersFit, TypeRest
  <2>2. proc'[m] \in ProcessOf(state'[m])
    BY <1>4 DEF ProcessOf
  <2>3. crashes'[m] + Unseen(m)' <= faults'
    BY <1>1, <1>2, <1>4 DEF Unseen
  <2>4. created <= created' /\ faults <= faults' /\ m \in Nat
    BY <1>1, <1>2, <2>1, Bounds
  <2> QED
    BY <1>0, <1>1, <1>3, <1>4, <2>1, <2>2, <2>3, <2>4, MovesFit
<1>6. JobsFit'
  <2>1. \A g \in Goroutines : jobs[g].n \in Nat
    BY <1>0, JobShape, Bounds
  <2> QED
    BY <1>0, <1>1, <1>2, <2>1 DEF JobsFit
<1>7. HolderFits' /\ \A k : Swaps(k)' <=> Swaps(k)
  BY <1>0, <1>1, <1>4, HolderStays
<1>8. m \in Reachable'
  BY <1>0, <1>1 DEF Owned, Reachable
<1>9. UNCHANGED <<WorkersDone, CrashTold, StopComes>> /\ \A k : RestartComes(k)' <=> RestartComes(k)
  BY <1>1 DEF WorkersDone, CrashTold, StopComes, RestartComes
<1> QED
  BY <1>1, <1>3, <1>4, <1>5, <1>6, <1>7, <1>8, <1>9, ManagerSettles

LEMMA ReapedKeeps == ASSUME IInv, NEW m \in Managers, Reaped(m) PROVE IInv'
<1>0. /\ TypeRest /\ TypeManagers /\ TypeJobs /\ ManagersFit /\ JobsFit /\ HolderFits
      /\ Owned /\ Pending
  BY DEF IInv
<1>1. /\ proc[m] = "dying" /\ Free(jobs) # {} /\ proc' = [proc EXCEPT ![m] = "none"]
      /\ state' = [state EXCEPT ![m] = IF restart[m] THEN "crashed" ELSE "stopped"]
      /\ jobs' = IF restart[m] THEN With(jobs, Job("crash", m, crashes[m])) ELSE jobs
      /\ UNCHANGED <<desired, shown, item, retired, created, crashes, restart,
                     slot, gate, shut, calls, faults>>
  BY DEF Reaped
<1>2. /\ crashes[m] <= faults /\ crashes[m] \in 0..MaxFaults /\ faults \in Nat
      /\ state[m] = "stopping"
  BY <1>0, <1>1, Bounds DEF ManagersFit, TypeManagers, TypeRest, Unseen, ProcessOf
<1>3. TypeRest' /\ TypeManagers'
  BY <1>0, <1>1, Bounds DEF TypeRest, TypeManagers, States
<1>4. /\ Moves(m) /\ proc'[m] = "none" /\ crashes'[m] = crashes[m]
      /\ state'[m] = IF restart[m] THEN "crashed" ELSE "stopped"
  BY <1>0, <1>1 DEF Moves, TypeManagers
<1>5. ManagersFit'
  <2>1. m <= created /\ created \in Nat
    BY <1>0, <1>2, Bounds DEF ManagersFit, TypeRest
  <2>2. proc'[m] \in ProcessOf(state'[m])
    BY <1>4 DEF ProcessOf
  <2>3. crashes'[m] + Unseen(m)' <= faults'
    BY <1>1, <1>2, <1>4 DEF Unseen
  <2>4. created <= created' /\ faults <= faults' /\ m \in Nat
    BY <1>1, <1>2, <2>1, Bounds
  <2> QED
    BY <1>0, <1>1, <1>3, <1>4, <2>1, <2>2, <2>3, <2>4, MovesFit
<1>6. /\ TypeJobs' /\ JobsFit' /\ (restart[m] \/ CrashTold => CrashTold')
      /\ (WorkersDone => WorkersDone')
      /\ gate # 0 => jobs'[gate] = jobs[gate]
      /\ \A k : RestartComes(k) => RestartComes(k)'
      /\ StopComes => StopComes'
  <2>1. CASE restart[m]
    <3>1. jobs' = With(jobs, Job("crash", m, crashes[m]))
      BY <1>1, <2>1
    <3> QED
      BY <1>0, <1>1, <1>2, <1>3, <3>1, CrashBegins
  <2>2. CASE ~restart[m]
    <3>1. jobs' = jobs
      BY <1>1, <2>2
    <3> QED
      BY <1>0, <1>1, <2>2, <3>1
      DEF TypeJobs, JobsFit, CrashTold, WorkersDone, RestartComes, StopComes
  <2> QED
    BY <2>1, <2>2
<1>7. HolderFits' /\ \A k : Swaps(k)' <=> Swaps(k)
  BY <1>0, <1>1, <1>2, <1>4, <1>6, HolderStays
<1>8. state'[m] \notin {"starting", "running", "backoff"} /\ (state'[m] = "crashed" => restart[m])
  BY <1>4
<1> QED
  BY <1>1, <1>3, <1>4, <1>5, <1>6, <1>7, <1>8, ManagerSettles

\* A manager is stopped by a goroutine that goes on, as far as its jobs go.
LEMMA CalledBackBegins ==
  ASSUME TypeRest, TypeRest', TypeJobs, JobsFit, NEW m \in Managers, NEW o,
         o.crash \in BOOLEAN, crashes[m] + o.extra \in 0..MaxFaults,
         crashes[m] + o.extra <= faults', faults <= faults',
         o.crash => Free(jobs) # {}, jobs' = CalledBack(jobs, m, o), gate' = gate
  PROVE  /\ TypeJobs' /\ JobsFit' /\ (o.crash \/ CrashTold => CrashTold')
         /\ (WorkersDone => WorkersDone')
         /\ gate # 0 => jobs'[gate] = jobs[gate]
         /\ \A k : RestartComes(k) => RestartComes(k)'
         /\ StopComes => StopComes'
<1>1. CASE o.crash
  <2>1. jobs' = With(jobs, Job("crash", m, crashes[m] + o.extra))
    BY <1>1 DEF CalledBack
  <2> QED
    BY <1>1, <2>1, CrashBegins
<1>2. CASE ~o.crash
  <2>1. jobs' = jobs
    BY <1>2 DEF CalledBack
  <2>2. \A g \in Goroutines : jobs[g].n \in Nat /\ faults \in Nat /\ faults' \in Nat
    BY JobShape, Bounds DEF TypeRest
  <2> QED
    BY <1>2, <2>1, <2>2 DEF TypeJobs, JobsFit, CrashTold, WorkersDone, RestartComes, StopComes
<1> QED
  BY <1>1, <1>2

\* A goroutine stops a manager and leaves the gate.
LEMMA CalledBackHands ==
  ASSUME TypeRest, TypeRest', TypeJobs, JobsFit, NEW m \in Managers, NEW o,
         NEW g \in Goroutines, g = gate, gate' = 0,
         o.crash \in BOOLEAN, crashes[m] + o.extra \in 0..MaxFaults,
         crashes[m] + o.extra <= faults', faults <= faults',
         jobs' = CalledBack(Without(jobs, g), m, o)
  PROVE  /\ TypeJobs' /\ JobsFit' /\ HolderFits' /\ Others(g)
         /\ (o.crash => CrashTold') /\ (WorkersDone => WorkersDone')
<1>0. faults \in Nat /\ faults' \in Nat
  BY Bounds DEF TypeRest
<1>1. CASE o.crash
  <2> DEFINE job == Job("crash", m, crashes[m] + o.extra)
  <2>1. /\ job \in Work /\ Shape(job) /\ job.at \notin InsideStages /\ job.kind = "crash"
        /\ job.n = crashes[m] + o.extra
    BY Bounds DEF Job, Work, Kinds, Stages, Shape, InsideStages, FreshStages, SwapStages, Managers
  <2>2. jobs' = With(Without(jobs, g), job)
    BY <1>1 DEF CalledBack
  <2> HIDE DEF job
  <2>3. TypeJobs' /\ Hands(g, job) /\ Others(g)
    BY <2>1, <2>2, HandsTyped, OthersStay
  <2>4. JobsFit' /\ HolderFits'
    BY <1>0, <2>1, <2>3, HandsFit
  <2>5. CrashTold' /\ (WorkersDone => WorkersDone')
    BY <2>1, <2>3, Nothing DEF Hands, CrashTold, WorkersDone, NoJobFields
  <2> QED
    BY <2>3, <2>4, <2>5
<1>2. CASE ~o.crash
  <2>1. jobs' = Without(jobs, g)
    BY <1>2 DEF CalledBack
  <2>2. TypeJobs' /\ Ends(g) /\ Others(g)
    BY <2>1, EndsTyped, OthersStay
  <2>3. JobsFit' /\ HolderFits'
    BY <1>0, <2>2, EndsFit
  <2>4. WorkersDone => WorkersDone'
    BY <2>2, Nothing DEF Ends, WorkersDone, NoJobFields
  <2> QED
    BY <1>2, <2>2, <2>3, <2>4
<1> QED
  BY <1>1, <1>2

\* Once StopAll runs, nobody inside the gate starts or replaces a runtime.
LEMMA NobodyStarts ==
  ASSUME TypeRest, TypeJobs, JobsFit, WorkersDone, gate # 0
  PROVE  jobs[gate].at \notin FreshStages \cup SwapStages
<1>1. gate \in Goroutines
  BY Bounds DEF TypeRest, Goroutines
<1> QED
  BY <1>1 DEF WorkersDone, JobsFit, Shape, StartKinds, ApiKinds

LEMMA StopOneKeeps == ASSUME IInv, NEW m \in Managers, StopOne(m) PROVE IInv'
<1>0. /\ TypeRest /\ TypeManagers /\ TypeJobs /\ ManagersFit /\ JobsFit /\ HolderFits
      /\ Owned /\ Pending
  BY DEF IInv
<1> PICK o \in StopOutcomes(m) :
       /\ StopManager(m, o, FALSE) /\ (o.crash => Free(jobs) # {})
       /\ jobs' = CalledBack(jobs, m, o)
  BY DEF StopOne
<1>1. /\ shut = "stopping" /\ m \in Reachable
      /\ retired' = Released(m, retired, state', proc')
      /\ UNCHANGED <<desired, shown, item, created, slot, gate, shut, calls>>
  BY DEF StopOne
<1>2. /\ TypeManagers' /\ Moves(m) /\ state'[m] = o.state /\ proc'[m] = o.proc
      /\ o.state \in {"stopped", "crashed", "stopping"}
      /\ o.proc = IF o.state = "stopping" THEN "dying" ELSE "none"
      /\ o.crash \in BOOLEAN /\ (o.crash <=> o.state = "crashed")
      /\ o.extra \in {0, 1} /\ crashes[m] + o.extra <= faults' /\ crashes'[m] + Unseen(m)' <= faults'
      /\ faults \in Nat /\ faults' \in 0..MaxFaults /\ faults <= faults'
  BY <1>0, StopMoves
<1>3. crashes[m] + o.extra \in 0..MaxFaults
  BY <1>0, <1>2, Bounds DEF TypeManagers
<1>4. retired' = retired \/ (retired' = retired \ {m} /\ proc'[m] = "none")
  BY <1>1, <1>2 DEF Released, CleanupComplete
<1>5. TypeRest'
  BY <1>0, <1>1, <1>2, <1>4 DEF TypeRest
<1>6. ManagersFit'
  <2>1. m <= created /\ created \in Nat /\ m \in Nat
    BY <1>0, <1>1, Bounds DEF Reachable, TypeRest
  <2>2. proc'[m] \in ProcessOf(state'[m])
    BY <1>2 DEF ProcessOf
  <2> QED
    BY <1>0, <1>1, <1>2, <1>5, <2>1, <2>2, MovesFit
<1>7. /\ TypeJobs' /\ JobsFit' /\ (o.crash \/ CrashTold => CrashTold')
      /\ (WorkersDone => WorkersDone')
      /\ gate # 0 => jobs'[gate] = jobs[gate]
      /\ \A k : RestartComes(k) => RestartComes(k)'
      /\ StopComes => StopComes'
  BY <1>0, <1>1, <1>2, <1>3, <1>5, CalledBackBegins
<1>8. gate # 0 => jobs[gate].at \notin FreshStages \cup SwapStages
  BY <1>0, <1>1, NobodyStarts DEF Owned
<1>9. HolderFits' /\ \A k : ~Swaps(k) /\ ~Swaps(k)'
  BY <1>1, <1>7, <1>8 DEF HolderFits, Swaps, FreshStages, SwapStages
<1>10. proc'[m] # "none" => m \in Reachable'
  BY <1>1, <1>4 DEF Reachable
<1> QED
  BY <1>1, <1>2, <1>4, <1>5, <1>6, <1>7, <1>9, <1>10, ManagerSettles

-----------------------------------------------------------------------------
(* Stops inside the gate. *)

\* The goroutine inside the gate stops the registered manager, or the one that a
\* reload has beside it, and leaves the gate.
LEMMA StopLeaves ==
  ASSUME IInv, NEW g \in Goroutines, g = gate, gate' = 0, NEW m \in Managers, NEW o,
         NEW reset \in BOOLEAN, StopManager(m, o, reset),
         IF jobs[g].at \in SwapStages THEN m = jobs[g].m
         ELSE jobs[g].at \in {"held", "activate"} /\ m = item,
         UNCHANGED <<item, created, desired, shut, calls>>, shown' \in States, slot' \in {0, slot},
         retired' \in {retired, Released(m, retired, state', proc')},
         jobs[g].kind # "crash",
         jobs[g].kind = "backoff" => m = item /\ state[m] # "backoff",
         jobs[g].kind = "stop" => m = item /\ slot' = 0,
         TypeJobs', JobsFit', Others(g), o.crash => CrashTold', WorkersDone => WorkersDone'
  PROVE  IInv'
<1>0. /\ TypeRest /\ TypeManagers /\ TypeJobs /\ ManagersFit /\ JobsFit /\ HolderFits
      /\ Owned /\ Pending
  BY DEF IInv
<1>1. /\ TypeManagers' /\ Moves(m) /\ state'[m] = o.state /\ proc'[m] = o.proc
      /\ o.state \in {"stopped", "crashed", "stopping"}
      /\ o.proc = IF o.state = "stopping" THEN "dying" ELSE "none"
      /\ o.crash <=> o.state = "crashed"
      /\ crashes'[m] + Unseen(m)' <= faults'
      /\ faults \in Nat /\ faults' \in 0..MaxFaults /\ faults <= faults'
  BY <1>0, StopMoves
<1>2. retired' = retired \/ (retired' = retired \ {m} /\ proc'[m] = "none")
  BY <1>1 DEF Released, CleanupComplete
<1>3. m \in Reachable /\ m <= created /\ created \in Nat /\ m \in Nat /\ (m = item \/ Swaps(m))
  BY <1>0, Bounds DEF HolderFits, Reachable, TypeRest, Swaps
<1>4. TypeRest'
  BY <1>0, <1>1, <1>2, Bounds DEF TypeRest
<1>5. ManagersFit'
  <2>1. proc'[m] \in ProcessOf(state'[m])
    BY <1>1 DEF ProcessOf
  <2> QED
    BY <1>0, <1>1, <1>3, <1>4, <2>1, MovesFit
<1>6. HolderFits' /\ \A k : ~Swaps(k)'
  BY DEF HolderFits, Swaps
<1>7. \A k \in Managers : k # m => ~Swaps(k)
  BY DEF Swaps
<1>8. proc'[m] # "none" => m \in Reachable'
  BY <1>2, <1>3 DEF Reachable
<1>9. /\ CrashTold => CrashTold'
      /\ \A k \in Managers : RestartComes(k) /\ ~(jobs[g].kind = "backoff" /\ jobs[g].m = k)
                               => RestartComes(k)'
      /\ StopComes /\ jobs[g].kind # "stop" => StopComes'
  BY <1>0, WitnessesStay DEF SwapStages
<1>10. \A k \in Managers : k # m /\ k = item /\ RestartComes(k) => RestartComes(k)'
  BY <1>9
<1> HIDE DEF IInv, Moves
<1> QED
  BY <1>1, <1>2, <1>4, <1>5, <1>6, <1>7, <1>8, <1>9, <1>10, ManagerSettles

LEMMA ObserveStopKeeps == ASSUME IInv, NEW g \in Goroutines, g = gate, ObserveStop(g) PROVE IInv'
<1>0. TypeRest /\ TypeManagers /\ TypeJobs /\ ManagersFit /\ JobsFit
  BY DEF IInv
<1>1. /\ jobs[g].at = "held" /\ jobs[g].kind = "observe" /\ item = jobs[g].m
      /\ UNCHANGED <<desired, regVars, slot, shut, calls>>
  BY DEF ObserveStop, Holds, At
<1>2. item \in Managers
  BY <1>0, <1>1, Bounds DEF JobsFit, Shape, TypeRest, Managers
<1> PICK o \in StopOutcomes(item) :
       /\ StopManager(item, o, FALSE)
       /\ jobs' = CalledBack(Without(jobs, g), item, o) /\ gate' = 0
       /\ shown' = o.state
  BY DEF ObserveStop
<1>3. /\ o.state \in States /\ o.crash \in BOOLEAN /\ crashes[item] + o.extra <= faults'
      /\ crashes[item] + o.extra \in 0..MaxFaults /\ faults' \in 0..MaxFaults /\ faults <= faults'
  <2>1. /\ o.state \in {"stopped", "crashed", "stopping"} /\ o.crash \in BOOLEAN
        /\ o.extra \in {0, 1} /\ crashes[item] + o.extra <= faults'
        /\ faults' \in 0..MaxFaults /\ faults <= faults'
    BY <1>0, <1>2, StopMoves
  <2> QED
    BY <1>0, <1>2, <2>1, Bounds DEF TypeManagers, States
<1>4. TypeRest'
  BY <1>0, <1>1, <1>3, Bounds DEF TypeRest, regVars
<1>5. /\ TypeJobs' /\ JobsFit' /\ Others(g) /\ (o.crash => CrashTold')
      /\ WorkersDone => WorkersDone'
  BY <1>0, <1>2, <1>3, <1>4, CalledBackHands
<1> QED
  BY <1>1, <1>2, <1>3, <1>5, StopLeaves DEF regVars, SwapStages

-----------------------------------------------------------------------------
(* Goroutines outside of the gate. *)

\* The managers and the registry stay as they are.
LEMMA WorldStays ==
  ASSUME IInv, UNCHANGED <<desired, regVars, procVars, slot, shut, faults>>,
         TypeRest', TypeJobs', JobsFit', HolderFits', \A k : Swaps(k)' <=> Swaps(k),
         closed /\ WorkersDone => WorkersDone',
         ~closed /\ CrashTold => CrashTold',
         \A k : ~closed /\ RestartComes(k) => RestartComes(k)',
         ~closed /\ StopComes => StopComes'
  PROVE  IInv'
<1>0. TypeManagers /\ ManagersFit /\ Owned /\ Pending
  BY DEF IInv
<1>1. TypeManagers' /\ ManagersFit'
  BY <1>0 DEF TypeManagers, ManagersFit, Unseen, regVars, procVars
<1>2. Owned'
  BY <1>0 DEF Owned, Reachable, regVars, procVars, closed
<1>3. Pending'
  BY <1>0 DEF Pending, regVars, procVars, closed
<1> QED
  BY <1>1, <1>2, <1>3 DEF IInv

LEMMA CallKeeps == ASSUME IInv, NEW kind \in CallKinds, Call(kind) PROVE IInv'
<1>0. TypeRest /\ TypeJobs /\ JobsFit /\ HolderFits
  BY DEF IInv
<1> DEFINE job == Job(kind, 0, 0)
<1>1. /\ Free(jobs) # {} /\ jobs' = With(jobs, job) /\ calls' = calls + 1 /\ calls < MaxCalls /\ ~closed
      /\ UNCHANGED <<desired, shown, regVars, procVars, slot, gate, shut, faults>>
  BY DEF Call
<1>2. kind \in ApiKinds \cup {"ensure"}
  BY BoundsPositive
<1>3. job \in Work /\ Shape(job) /\ job.at \notin InsideStages /\ job.n = 0
  BY <1>2, Bounds DEF Job, Work, Kinds, ApiKinds, StartKinds, Stages, Shape, InsideStages,
     FreshStages, SwapStages
<1> HIDE DEF job
<1>4. TypeJobs' /\ Begins(job)
  BY <1>0, <1>1, <1>3, BeginsTyped
<1>5. TypeRest'
  BY <1>0, <1>1, Bounds DEF TypeRest, regVars
<1>6. JobsFit' /\ (gate # 0 => jobs'[gate] = jobs[gate])
  BY <1>0, <1>1, <1>3, <1>4, BeginsFit, Bounds DEF TypeRest, Goroutines
<1>7. HolderFits' /\ \A k : Swaps(k)' <=> Swaps(k)
  BY <1>0, <1>1, <1>6 DEF HolderFits, Swaps, regVars, procVars
<1>8. PICK h \in Goroutines : /\ jobs[h] = NoJob /\ jobs'[h] = job
                              /\ \A k \in Goroutines \ {h} : jobs'[k] = jobs[k]
  BY <1>4 DEF Begins
<1>9. Others(h) /\ jobs[h].kind = "none"
  BY <1>8, Nothing DEF Others, NoJobFields
<1>10. /\ CrashTold => CrashTold'
       /\ StopComes => StopComes'
       /\ \A k : RestartComes(k) => RestartComes(k)'
  BY <1>0, <1>9, WitnessesStay
<1> QED
  BY <1>1, <1>4, <1>5, <1>6, <1>7, <1>10, WorldStays

LEMMA OutsideKeeps ==
  ASSUME IInv, NEW g \in Goroutines, gate # g, jobs[g] # NoJob, Outside(g)
  PROVE  IInv'
<1>0. TypeRest /\ TypeManagers /\ TypeJobs /\ JobsFit /\ HolderFits /\ Owned
  BY DEF IInv
<1>1. UNCHANGED <<desired, regVars, procVars, slot, shut, calls, faults>>
  BY DEF Outside, Acquire, Refused, Report, ObserveExit, BackoffExpires
<1>2. /\ Shape(jobs[g]) /\ jobs[g].m \in 0..MaxManagers /\ jobs[g].kind \in Kinds
      /\ \A h \in Goroutines : jobs[h].n \in Nat
  BY <1>0, JobShape, Bounds DEF JobsFit
<1>3. CASE Acquire(g)
  <2>1. /\ jobs[g].at = "wait" /\ gate = 0 /\ gate' = g /\ jobs' = [jobs EXCEPT ![g].at = "held"]
        /\ shown' = shown
    BY <1>3 DEF Acquire
  <2>2. TypeJobs' /\ Turns(g, "held", jobs[g].m)
    BY <1>0, <2>1, MovesTyped DEF Stages
  <2>3. /\ jobs'[g].kind = jobs[g].kind /\ jobs'[g].at = "held"
        /\ jobs'[g].m = jobs[g].m /\ jobs'[g].n = jobs[g].n
        /\ (CrashTold => CrashTold') /\ \A h \in Goroutines \ {g} : jobs'[h] = jobs[h]
    BY <1>0, <2>2, TurnsKeeps DEF Turns
  <2>4. JobsFit'
    BY <1>0, <1>1, <1>2, <2>1, <2>3, Bounds DEF JobsFit, Shape, InsideStages, FreshStages, SwapStages
  <2>5. HolderFits' /\ \A k : Swaps(k)' <=> Swaps(k)
    BY <2>1, <2>3 DEF HolderFits, Swaps, FreshStages, SwapStages
  <2>6. TypeRest'
    BY <1>0, <1>1, <2>1, Bounds DEF TypeRest, regVars
  <2>7. /\ WorkersDone => WorkersDone'
        /\ StopComes => StopComes'
        /\ \A k : RestartComes(k) => RestartComes(k)'
    BY <2>1, <2>3 DEF WorkersDone, StopComes, RestartComes
  <2> QED
    BY <1>1, <2>2, <2>3, <2>4, <2>5, <2>6, <2>7, WorldStays
<1>4. CASE gate' = gate /\ shown' \in States /\ jobs' = Without(jobs, g)
           /\ (closed \/ jobs[g].kind \in {"start", "reload"})
  <2>1. TypeJobs' /\ Ends(g) /\ Others(g)
    BY <1>0, <1>4, EndsTyped, OthersStay
  <2>2. JobsFit' /\ (gate # 0 => jobs'[gate] = jobs[gate])
    BY <1>0, <1>1, <1>2, <1>4, <2>1, Nothing, Bounds DEF JobsFit, Ends, NoJobFields, TypeRest, Goroutines
  <2>3. HolderFits' /\ \A k : Swaps(k)' <=> Swaps(k)
    BY <1>0, <1>1, <1>4, <2>2 DEF HolderFits, Swaps, regVars, procVars
  <2>4. TypeRest'
    BY <1>0, <1>1, <1>4, Bounds DEF TypeRest, regVars
  <2>5. WorkersDone => WorkersDone'
    BY <2>1, Nothing DEF WorkersDone, Ends, NoJobFields
  <2>6. ~closed => /\ CrashTold => CrashTold'
                   /\ StopComes => StopComes'
                   /\ \A k : RestartComes(k) => RestartComes(k)'
    BY <1>0, <1>4, <2>1, WitnessesStay
  <2> QED
    BY <1>1, <2>1, <2>2, <2>3, <2>4, <2>5, <2>6, WorldStays
<1>5. CASE gate' = gate /\ shown' = shown /\ jobs' = [jobs EXCEPT ![g].at = "wait"]
           /\ jobs[g].kind \in {"observe", "backoff"}
  <2>1. TypeJobs' /\ Turns(g, "wait", jobs[g].m)
    BY <1>0, <1>5, MovesTyped DEF Stages
  <2>2. /\ jobs'[g].kind = jobs[g].kind /\ jobs'[g].at = "wait"
        /\ jobs'[g].m = jobs[g].m /\ jobs'[g].n = jobs[g].n
        /\ (CrashTold => CrashTold') /\ \A h \in Goroutines \ {g} : jobs'[h] = jobs[h]
    BY <1>0, <2>1, TurnsKeeps DEF Turns
  <2>3. JobsFit' /\ (gate # 0 => jobs'[gate] = jobs[gate])
    BY <1>0, <1>1, <1>2, <1>5, <2>2, Bounds
    DEF JobsFit, Shape, InsideStages, FreshStages, SwapStages, TypeRest, Goroutines
  <2>4. HolderFits' /\ \A k : Swaps(k)' <=> Swaps(k)
    BY <1>0, <1>1, <1>5, <2>3 DEF HolderFits, Swaps, regVars, procVars
  <2>5. TypeRest'
    BY <1>0, <1>1, <1>5, Bounds DEF TypeRest, regVars
  <2>6. /\ WorkersDone => WorkersDone'
        /\ StopComes => StopComes'
        /\ \A k : RestartComes(k) => RestartComes(k)'
    BY <1>5, <2>2 DEF WorkersDone, StopComes, RestartComes
  <2> QED
    BY <1>1, <2>1, <2>2, <2>3, <2>4, <2>5, <2>6, WorldStays
<1>6. CASE Refused(g)
  <2>1. shown' \in States
    BY <1>0, <1>6, ShownTyped DEF Refused, TypeRest, States
  <2> QED
    BY <1>4, <1>6, <2>1 DEF Refused
<1>7. CASE Report(g)
  BY <1>0, <1>4, <1>7, ShownTyped DEF Report, At
<1>8. CASE ObserveExit(g)
  BY <1>0, <1>4, <1>5, <1>8 DEF ObserveExit, At, TypeRest
<1>9. CASE BackoffExpires(g)
  BY <1>0, <1>4, <1>5, <1>9 DEF BackoffExpires, At, TypeRest
<1> QED
  BY <1>3, <1>6, <1>7, <1>8, <1>9 DEF Outside

-----------------------------------------------------------------------------
(* Management calls that act at once, and the work they launch. *)

\* The goroutine inside the gate ends, whatever becomes of the manager.
LEMMA FinishFits ==
  ASSUME IInv, TypeRest', NEW g \in Goroutines, g = gate, Finish(g), faults <= faults'
  PROVE  /\ TypeJobs' /\ JobsFit' /\ HolderFits' /\ Others(g) /\ gate' = 0
         /\ (WorkersDone => WorkersDone') /\ \A m : ~Swaps(m)'
<1>1. TypeRest /\ TypeJobs /\ JobsFit /\ gate' = 0 /\ jobs' = Without(jobs, g)
  BY DEF IInv, Finish
<1>2. TypeJobs' /\ Ends(g) /\ Others(g)
  BY <1>1, EndsTyped, OthersStay
<1>3. JobsFit' /\ HolderFits'
  BY <1>1, <1>2, EndsFit, Bounds DEF TypeRest
<1>4. WorkersDone => WorkersDone'
  BY <1>2, Nothing DEF WorkersDone, Ends, NoJobFields
<1> QED
  BY <1>1, <1>2, <1>3, <1>4 DEF Swaps

LEMMA DisableUnstartedKeeps ==
  ASSUME IInv, NEW g \in Goroutines, g = gate, DisableUnstarted(g)
  PROVE  IInv'
<1>0. TypeRest /\ TypeManagers /\ ManagersFit /\ Owned /\ Pending
  BY DEF IInv
<1>1. /\ jobs[g].at = "held" /\ jobs[g].kind = "disable" /\ item = 0 /\ desired' = "disabled"
      /\ Finish(g) /\ UNCHANGED <<shown, regVars, procVars, slot, shut, calls, faults>>
  BY DEF DisableUnstarted, Holds, At
<1>2. TypeRest' /\ TypeManagers' /\ ManagersFit'
  BY <1>0, <1>1, Bounds
  DEF TypeRest, TypeManagers, ManagersFit, Unseen, regVars, procVars, Finish
<1>3. /\ TypeJobs' /\ JobsFit' /\ HolderFits' /\ Others(g)
      /\ (WorkersDone => WorkersDone') /\ \A m : ~Swaps(m)' /\ ~Swaps(m)
  <2>1. faults <= faults'
    BY <1>0, <1>1, Bounds DEF TypeRest
  <2> QED
    BY <1>1, <1>2, <2>1, FinishFits DEF Swaps, SwapStages
<1>4. Owned'
  BY <1>0, <1>1, <1>3 DEF Owned, Reachable, regVars, procVars
<1>5. Pending'
  BY <1>0, <1>1, <1>3, Bounds DEF Pending, Owned, regVars, procVars, closed
<1> QED
  BY <1>2, <1>3, <1>4, <1>5 DEF IInv

\* An inactive runtime is removed, with its manager.
LEMMA RemovalKeeps ==
  ASSUME IInv, NEW g \in Goroutines, g = gate, DisableInactive(g) \/ StopInactive(g)
  PROVE  IInv'
<1>0. TypeRest /\ TypeManagers /\ TypeJobs /\ ManagersFit
  BY DEF IInv
<1>1. /\ jobs[g].at = "held" /\ ItemState \notin Active \cup {"none"}
      /\ slot' = 0 /\ item' = 0 /\ created' = created /\ Finish(g)
      /\ state' = Stopped(item, state, proc) /\ crashes' = [crashes EXCEPT ![item] = 0]
      /\ retired' \in {retired, retired \cup {item}}
      /\ UNCHANGED <<proc, restart, shut, calls, faults>>
      /\ desired' = "disabled" \/ desired' = desired
      /\ shown' \in {"stopped", state'[item]}
  BY DEF DisableInactive, StopInactive, Holds, At, Delete
<1>2. item \in Managers /\ item # 0 /\ state[item] \notin Active
  BY <1>0, <1>1, ShownTyped
<1> PICK m \in Managers : m = item
  BY <1>2
<1>3. /\ state' \in [Managers -> States] /\ state'[m] = "stopped"
      /\ \A k \in Managers \ {m} : state'[k] = state[k]
  BY <1>0, <1>1, <1>2, StoppedMoves
<1>4. crashes' \in [Managers -> 0..MaxFaults] /\ crashes'[m] = 0 /\ Moves(m)
  <2>1. 0 \in 0..MaxFaults /\ crashes' = [crashes EXCEPT ![m] = 0]
    BY <1>1, Bounds
  <2> QED
    BY <1>0, <1>1, <1>3, <2>1 DEF Moves, TypeManagers
<1>5. TypeManagers' /\ proc'[m] = "none"
  BY <1>0, <1>1, <1>2, <1>3, <1>4 DEF TypeManagers, ManagersFit, ProcessOf, Active
<1>6. TypeRest'
  BY <1>0, <1>1, <1>2, <1>3, Bounds DEF TypeRest, States, Finish
<1>7. ManagersFit' /\ faults <= faults'
  <2>1. faults <= faults' /\ created <= created'
    BY <1>0, <1>1, Bounds DEF TypeRest
  <2>2. proc'[m] \in ProcessOf(state'[m])
    BY <1>3, <1>5 DEF ProcessOf
  <2>3. crashes'[m] + Unseen(m)' <= faults'
    BY <1>0, <1>1, <1>4, <1>5, Bounds DEF Unseen, TypeRest
  <2> QED
    BY <1>0, <1>3, <1>4, <1>6, <2>1, <2>2, <2>3, MovesFit
<1>8. /\ TypeJobs' /\ JobsFit' /\ gate' = 0 /\ (WorkersDone => WorkersDone')
      /\ \A k \in Managers : ~Swaps(k)
  BY <1>1, <1>6, <1>7, FinishFits DEF Swaps, SwapStages
<1> QED
  BY <1>1, <1>2, <1>3, <1>4, <1>5, <1>6, <1>7, <1>8, ItemForgotten

LEMMA RecoverKeeps == ASSUME IInv, NEW g \in Goroutines, g = gate, Recover(g) PROVE IInv'
<1>0. /\ TypeRest /\ TypeManagers /\ TypeJobs /\ ManagersFit /\ JobsFit /\ HolderFits
      /\ Owned /\ Pending
  BY DEF IInv
<1>1. /\ jobs[g].at = "held" /\ jobs[g].kind = "recover" /\ ItemState = "dead_letter"
      /\ desired' = "enabled" /\ shown' = "starting"
      /\ crashes' = [crashes EXCEPT ![item] = 0] /\ state' = Stopped(item, state, proc)
      /\ jobs' = [jobs EXCEPT ![g].at = "launch", ![g].m = 0] /\ gate' = gate
      /\ UNCHANGED <<regVars, proc, restart, slot, shut, calls, faults>>
  BY DEF Recover, Holds, At, Goto
<1>2. item \in Managers /\ item # 0 /\ state[item] = "dead_letter"
  BY <1>0, <1>1, ShownTyped
<1> PICK m \in Managers : m = item
  BY <1>2
<1>3. /\ state' \in [Managers -> States] /\ state'[m] = "stopped"
      /\ \A k \in Managers \ {m} : state'[k] = state[k]
  BY <1>0, <1>1, <1>2, StoppedMoves DEF Active
<1>4. crashes' \in [Managers -> 0..MaxFaults] /\ crashes'[m] = 0 /\ Moves(m)
  <2>1. 0 \in 0..MaxFaults /\ crashes' = [crashes EXCEPT ![m] = 0]
    BY <1>1, Bounds
  <2> QED
    BY <1>0, <1>1, <1>3, <2>1 DEF Moves, TypeManagers
<1>5. TypeManagers' /\ TypeRest' /\ proc'[m] = "none"
  BY <1>0, <1>1, <1>2, <1>3, <1>4 DEF TypeManagers, TypeRest, States, regVars, ManagersFit, ProcessOf
<1>6. ManagersFit'
  <2>1. faults <= faults' /\ created <= created'
    BY <1>0, <1>1, Bounds DEF TypeRest, regVars
  <2>2. proc'[m] \in ProcessOf(state'[m])
    BY <1>3, <1>5 DEF ProcessOf
  <2>3. crashes'[m] + Unseen(m)' <= faults'
    BY <1>0, <1>1, <1>4, <1>5, Bounds DEF Unseen, TypeRest
  <2> QED
    BY <1>0, <1>3, <1>4, <1>5, <2>1, <2>2, <2>3, MovesFit
<1>7. jobs[g] # NoJob /\ g # 0
  BY HolderShape, Bounds
<1>8. TypeJobs' /\ Turns(g, "launch", 0)
  <2>1. "launch" \in Stages /\ 0 \in 0..MaxManagers
    BY Bounds DEF Stages
  <2> QED
    BY <1>0, <1>1, <1>7, <2>1, TurnsTyped
<1>9. /\ jobs'[g].kind = jobs[g].kind /\ jobs'[g].at = "launch"
      /\ (CrashTold => CrashTold') /\ \A h \in Goroutines \ {g} : jobs'[h] = jobs[h]
  BY <1>0, <1>8, TurnsKeeps DEF Turns
<1>10. JobsFit'
  <2>1. faults \in Nat /\ faults' \in Nat /\ faults <= faults'
    BY <1>0, <1>1, Bounds DEF TypeRest
  <2> QED
    BY <1>0, <1>1, <1>8, <2>1, TurnsFit DEF InsideStages, FreshStages, SwapStages, ApiKinds
<1>11. HolderFits' /\ \A k : ~Swaps(k) /\ ~Swaps(k)'
  BY <1>1, <1>9 DEF HolderFits, Swaps, FreshStages, SwapStages
<1>12. /\ WorkersDone => WorkersDone'
       /\ \A k : RestartComes(k) => RestartComes(k)'
       /\ StopComes => StopComes'
  BY <1>1, <1>9 DEF WorkersDone, RestartComes, StopComes
<1> QED
  BY <1>1, <1>2, <1>3, <1>4, <1>5, <1>6, <1>8, <1>9, <1>10, <1>11, <1>12, ManagerSettles DEF regVars

LEMMA LaunchKeeps == ASSUME IInv, NEW g \in Goroutines, g = gate, LaunchWork(g) PROVE IInv'
<1>0. /\ TypeRest /\ TypeManagers /\ TypeJobs /\ ManagersFit /\ JobsFit /\ HolderFits
      /\ Owned /\ Pending
  BY DEF IInv
<1> DEFINE kind == CASE jobs[g].kind = "disable" -> "stop"
                     [] jobs[g].kind = "reloadRequest" -> "reload"
                     [] OTHER -> "start"
           job == Job(kind, 0, 0)
<1>1. /\ jobs[g].at = "launch" /\ Launch(g, job)
      /\ UNCHANGED <<desired, shown, regVars, procVars, slot, shut, calls, faults>>
  BY DEF LaunchWork, Inside
<1>2. jobs[g].kind \in ApiKinds /\ g # 0
  BY <1>1, HolderShape, Bounds DEF Shape
<1>3. CASE closed
  <2>1. gate' = 0 /\ jobs' = Without(jobs, g)
    BY <1>1, <1>3 DEF Launch, Finish
  <2>2. shown' \in States /\ slot' \in {0, slot}
    BY <1>0, <1>1 DEF TypeRest
  <2> QED
    BY <1>1, <1>2, <1>3, <2>1, <2>2, LeavesGate DEF ApiKinds
<1>4. CASE ~closed
  <2>1. gate' = 0 /\ jobs' = With(Without(jobs, g), job)
    BY <1>1, <1>4 DEF Launch, FinishWith
  <2>2. /\ job \in Work /\ Shape(job) /\ job.at \notin InsideStages /\ job.n = 0
        /\ jobs[g].kind = "disable" => job.kind = "stop"
    BY Bounds DEF Job, Work, Kinds, StartKinds, Stages, Shape, InsideStages, FreshStages, SwapStages
  <2> HIDE DEF job
  <2>3. TypeJobs' /\ Hands(g, job) /\ Others(g)
    BY <1>0, <2>1, <2>2, HandsTyped, OthersStay
  <2>4. JobsFit' /\ HolderFits'
    BY <1>0, <1>1, <2>1, <2>2, <2>3, HandsFit, Bounds DEF TypeRest
  <2>5. TypeRest'
    BY <1>0, <1>1, <2>1, Bounds DEF TypeRest, regVars
  <2>6. \A k : Swaps(k)' <=> Swaps(k)
    BY <1>1, <2>1 DEF Swaps, SwapStages
  <2>7. /\ CrashTold => CrashTold'
        /\ \A k : RestartComes(k) => RestartComes(k)'
    BY <1>0, <1>2, <2>3, WitnessesStay DEF ApiKinds
  <2>8. StopComes => StopComes'
    <3>1. CASE jobs[g].kind = "disable"
      BY <2>2, <2>3, <3>1 DEF Hands, StopComes
    <3>2. CASE jobs[g].kind # "disable"
      BY <1>0, <1>2, <2>3, <3>2, WitnessesStay DEF ApiKinds
    <3> QED
      BY <3>1, <3>2
  <2> QED
    BY <1>1, <1>4, <2>3, <2>4, <2>5, <2>6, <2>7, <2>8, WorldStays
<1> QED
  BY <1>3, <1>4

-----------------------------------------------------------------------------
(* Starts. *)

\* A start, a reload that finds nothing running, or a restart takes the manager.
LEMMA PrepareKeeps ==
  ASSUME IInv, NEW g \in Goroutines, g = gate, NEW m \in Managers, GetOrCreate(m),
         jobs[g].at = "held", jobs[g].kind \in StartKinds, Goto(g, "prepare", m),
         UNCHANGED <<desired, proc, restart, slot, shut, calls, faults>>, shown' \in States,
         crashes' = crashes \/ crashes' = [crashes EXCEPT ![m] = 0],
         state' = state \/ state' = Stopped(m, state, proc),
         jobs[g].kind = "backoff" => jobs[g].m = m /\ desired = "enabled" /\ state' = state
  PROVE  IInv'
<1>0. /\ TypeRest /\ TypeManagers /\ TypeJobs /\ ManagersFit /\ JobsFit /\ HolderFits
      /\ Owned /\ Pending
  BY DEF IInv
<1>1. jobs[g] # NoJob /\ g # 0 /\ m # 0 /\ m \in 1..MaxManagers
  BY HolderShape, Bounds
<1>2. /\ item' = m /\ retired' = retired /\ created <= created' /\ created' \in 0..MaxManagers
      /\ m <= created' /\ created \in Nat /\ created' \in Nat
      /\ item = m \/ (item = 0 /\ created < m)
  BY <1>0, <1>1, Bounds DEF GetOrCreate, TypeRest, regVars
<1>3. TypeJobs' /\ Turns(g, "prepare", m) /\ gate' = gate
  <2>1. "prepare" \in Stages /\ m \in 0..MaxManagers
    BY <1>1, Bounds DEF Stages
  <2> QED
    BY <1>0, <1>1, <2>1, TurnsTyped DEF Goto
<1>4. /\ jobs'[g].kind = jobs[g].kind /\ jobs'[g].at = "prepare" /\ jobs'[g].m = m
      /\ (CrashTold => CrashTold') /\ \A h \in Goroutines \ {g} : jobs'[h] = jobs[h]
  BY <1>0, <1>3, TurnsKeeps DEF Turns
<1>5. TypeRest'
  BY <1>0, <1>2, <1>3, Bounds DEF TypeRest
<1>6. /\ state' \in [Managers -> States]
      /\ state'[m] = state[m] \/ (state[m] \notin Active /\ state'[m] = "stopped")
      /\ \A k \in Managers \ {m} : state'[k] = state[k]
  BY <1>0, StoppedMoves DEF TypeManagers
<1>7. /\ crashes' \in [Managers -> 0..MaxFaults] /\ crashes'[m] \in {0, crashes[m]}
      /\ \A k \in Managers \ {m} : crashes'[k] = crashes[k]
  BY <1>0, Bounds DEF TypeManagers
<1>8. Moves(m)
  BY <1>0, <1>6, <1>7 DEF Moves
<1>9. TypeManagers'
  BY <1>0, <1>6, <1>7 DEF TypeManagers
<1>10. ManagersFit'
  <2>1. proc'[m] \in ProcessOf(state'[m])
    BY <1>0, <1>6 DEF ManagersFit, ProcessOf, Active
  <2>2. crashes[m] \in Nat /\ crashes[m] + Unseen(m) <= faults /\ faults \in Nat
    BY <1>0, Bounds DEF ManagersFit, TypeManagers, TypeRest
  <2>3. crashes'[m] + Unseen(m)' <= faults' /\ faults <= faults'
    BY <1>7, <2>2 DEF Unseen
  <2> QED
    BY <1>0, <1>1, <1>2, <1>5, <1>8, <2>1, <2>3, MovesFit
<1>11. JobsFit'
  <2>1. faults \in Nat /\ faults' \in Nat /\ faults <= faults'
    BY <1>0, Bounds DEF TypeRest
  <2> QED
    BY <1>0, <1>1, <1>3, <2>1, TurnsFit DEF InsideStages, FreshStages, SwapStages
<1>12. HolderFits' /\ \A k : ~Swaps(k) /\ ~Swaps(k)'
  BY <1>1, <1>2, <1>3, <1>4 DEF HolderFits, Swaps, FreshStages, SwapStages
<1>13. item = 0 => state[m] = "stopped" /\ \A k \in Managers : state[k] \notin {"starting", "running"}
  <2>1. item = 0 => state[m] = "stopped"
    BY <1>0, <1>1, <1>2 DEF ManagersFit
  <2>2. \A k \in Managers : k # 0
    BY Bounds
  <2> QED
    BY <1>0, <1>12, <2>1, <2>2 DEF Owned
<1>14. Owned'
  <2>1. \A k \in Managers : proc'[k] # "none" => k \in Reachable'
    BY <1>0, <1>2 DEF Owned, Reachable
  <2>2. \A k \in Managers : state'[k] \in {"starting", "running"} => k = item'
    BY <1>0, <1>2, <1>6, <1>12, <1>13 DEF Owned
  <2>3. slot' \in {0, item'}
    BY <1>0, <1>2 DEF Owned
  <2>4. WorkersDone => WorkersDone'
    BY <1>4 DEF WorkersDone
  <2> QED
    BY <1>0, <2>1, <2>2, <2>3, <2>4 DEF Owned
<1>15. Pending'
  <2>1. ASSUME NEW k \in Managers, state'[k] = "crashed", k = item' \/ Swaps(k)', ~closed'
        PROVE  CrashTold'
    BY <1>0, <1>2, <1>4, <1>6, <1>12, <1>13, <2>1 DEF Pending, closed
  <2>2. ASSUME NEW k \in Managers, state'[k] = "backoff"
        PROVE  k = item' /\ (closed' \/ RestartComes(k)')
    <3>1. state[k] = "backoff" /\ k = item /\ k = m /\ (closed \/ RestartComes(k))
      BY <1>0, <1>2, <1>6, <1>13, <2>2, Bounds DEF Pending
    <3>2. RestartComes(k) => RestartComes(k)'
      BY <1>4, <3>1 DEF RestartComes
    <3> QED
      BY <1>2, <3>1, <3>2 DEF closed
  <2>3. ASSUME desired' = "disabled", ~closed'
        PROVE  \/ slot' = 0 /\ (item' # 0 => state'[item'] \notin {"starting", "running"})
               \/ StopComes'
    <3>1. StopComes => StopComes'
      BY <1>4 DEF StopComes, StartKinds
    <3> QED
      BY <1>0, <1>2, <1>6, <1>13, <2>3, <3>1 DEF Pending, closed
  <2> QED
    BY <2>1, <2>2, <2>3 DEF Pending
<1> QED
  BY <1>3, <1>5, <1>9, <1>10, <1>11, <1>12, <1>14, <1>15 DEF IInv

LEMMA StartsKeep ==
  ASSUME IInv, NEW g \in Goroutines, g = gate,
         StartExplicitly(g) \/ EnsureStarts(g) \/ ReloadStarts(g) \/ Restart(g)
  PROVE  IInv'
<1>0. TypeRest /\ TypeManagers /\ JobsFit
  BY DEF IInv
<1>1. CASE StartExplicitly(g)
  <2> PICK m \in Managers : /\ GetOrCreate(m) /\ crashes' = [crashes EXCEPT ![m] = 0]
                            /\ Goto(g, "prepare", m)
    BY <1>1 DEF StartExplicitly
  <2> QED
    BY <1>0, <1>1, PrepareKeeps DEF StartExplicitly, Holds, At, StartKinds, TypeRest
<1>2. CASE EnsureStarts(g)
  <2> PICK m \in Managers : GetOrCreate(m) /\ Goto(g, "prepare", m)
    BY <1>2 DEF EnsureStarts
  <2>1. shown' \in States
    BY <1>2 DEF EnsureStarts, States
  <2> QED
    BY <1>0, <1>2, <2>1, PrepareKeeps DEF EnsureStarts, Holds, At, StartKinds, procVars
<1>3. CASE ReloadStarts(g)
  <2> PICK m \in Managers :
        /\ GetOrCreate(m) /\ crashes' = [crashes EXCEPT ![m] = 0]
        /\ state' = (IF item = 0 THEN state ELSE Stopped(m, state, proc))
        /\ Goto(g, "prepare", m)
    BY <1>3 DEF ReloadStarts
  <2> QED
    BY <1>0, <1>3, PrepareKeeps DEF ReloadStarts, Holds, At, StartKinds, TypeRest
<1>4. CASE Restart(g)
  <2>1. jobs[g].kind = "backoff" /\ jobs[g].at = "held" /\ item = jobs[g].m /\ item # 0
    BY <1>0, <1>4 DEF Restart, Holds, At, JobsFit, Shape
  <2> PICK m \in Managers : m = item
    BY <1>0, <2>1, ShownTyped
  <2>2. GetOrCreate(m) /\ Goto(g, "prepare", m)
    BY <1>4, <2>1 DEF Restart, GetOrCreate
  <2>3. shown' \in States
    BY <1>4 DEF Restart, States
  <2> QED
    BY <1>0, <1>4, <2>1, <2>2, <2>3, PrepareKeeps DEF Restart, StartKinds, procVars
<1> QED
  BY <1>1, <1>2, <1>3, <1>4

\* A new process, of the registered manager or of one that StopAll can reach.
LEMMA LaunchedKeeps ==
  ASSUME IInv, NEW g \in Goroutines, g = gate, NEW m \in Managers, NEW at, NewProcess(m),
         Goto(g, at, m), desired = "enabled", jobs[g].kind \in StartKinds,
         item' = item, item # 0,
         \/ at = "starting" /\ m = item /\ retired' = retired /\ created' = created
         \/ /\ at = "swapStart" /\ jobs[g].kind = "reload" /\ m # item /\ retired' = retired \cup {m}
            /\ created < m /\ created' = m /\ state[item] = "running",
         jobs[g].at \in {"held", "prepare"},
         UNCHANGED <<desired, shown, crashes, slot, shut, calls, faults>>
  PROVE  IInv'
<1>0. /\ TypeRest /\ TypeManagers /\ TypeJobs /\ ManagersFit /\ JobsFit /\ HolderFits
      /\ Owned /\ Pending
  BY DEF IInv
<1>1. jobs[g] # NoJob /\ g # 0 /\ m # 0 /\ m \in 1..MaxManagers /\ m \in 0..MaxManagers
      /\ at \in Stages
  BY HolderShape, Bounds DEF Stages
<1>2. /\ proc[m] = "none" /\ state' = [state EXCEPT ![m] = "starting"]
      /\ proc' = [proc EXCEPT ![m] = "live"] /\ restart' = [restart EXCEPT ![m] = FALSE]
  BY DEF NewProcess
<1>3. TypeJobs' /\ Turns(g, at, m) /\ gate' = gate
  BY <1>0, <1>1, TurnsTyped DEF Goto
<1>4. /\ jobs'[g].kind = jobs[g].kind /\ jobs'[g].at = at /\ jobs'[g].m = m
      /\ (CrashTold => CrashTold') /\ \A h \in Goroutines \ {g} : jobs'[h] = jobs[h]
  BY <1>0, <1>3, TurnsKeeps DEF Turns
<1>5. /\ created \in Nat /\ created' \in 0..MaxManagers /\ created <= created' /\ m <= created'
      /\ m \in Reachable' /\ retired \subseteq retired'
      /\ created' \in Nat
  BY <1>0, <1>1, Bounds DEF TypeRest, Reachable
<1>6. TypeRest'
  BY <1>0, <1>1, <1>3, <1>5 DEF TypeRest
<1>7. /\ state'[m] = "starting" /\ proc'[m] = "live" /\ Moves(m) /\ TypeManagers'
      /\ \A k \in Managers \ {m} : state'[k] = state[k] /\ proc'[k] = proc[k]
  BY <1>0, <1>2 DEF TypeManagers, Moves, States
<1>8. ManagersFit'
  <2>1. proc'[m] \in ProcessOf(state'[m])
    BY <1>7 DEF ProcessOf
  <2>2. crashes[m] \in Nat /\ crashes[m] + Unseen(m) <= faults /\ faults \in Nat
    BY <1>0, Bounds DEF ManagersFit, TypeManagers, TypeRest
  <2>3. crashes'[m] + Unseen(m)' <= faults' /\ faults <= faults'
    BY <1>2, <1>7, <2>2 DEF Unseen
  <2> QED
    BY <1>0, <1>1, <1>5, <1>6, <1>7, <2>1, <2>3, MovesFit
<1>9. JobsFit'
  <2>1. faults \in Nat /\ faults' \in Nat /\ faults <= faults'
    BY <1>0, Bounds DEF TypeRest
  <2> QED
    BY <1>0, <1>1, <1>3, <2>1, TurnsFit DEF InsideStages, FreshStages, SwapStages
<1>10. HolderFits'
  <2>1. item' # 0 /\ item \in Managers
    BY <1>0, Bounds DEF TypeRest, Managers
  <2>2. state'[item'] # "backoff"
    BY <1>7, <2>1
  <2> QED
    BY <1>3, <1>4, <1>7, <2>1, <2>2 DEF HolderFits, FreshStages, SwapStages
<1>11. (\A k : ~Swaps(k)) /\ (m = item \/ Swaps(m)')
  BY <1>1, <1>3, <1>4 DEF Swaps, SwapStages
<1>12. ~WorkersDone /\ shut \notin {"stopping", "ended"}
  <2>1. ~WorkersDone
    BY DEF WorkersDone, ApiKinds, StartKinds
  <2> QED
    BY <1>0, <2>1 DEF Owned
<1>13. Owned'
  <2>1. \A k \in Managers : proc'[k] # "none" => k \in Reachable'
    BY <1>0, <1>5, <1>7 DEF Owned, Reachable
  <2>2. \A k \in Managers : state'[k] \in {"starting", "running"} => k = item' \/ Swaps(k)'
    BY <1>0, <1>7, <1>11 DEF Owned
  <2> QED
    BY <1>0, <1>12, <2>1, <2>2 DEF Owned
<1>14. Pending'
  <2>1. ASSUME NEW k \in Managers, state'[k] = "crashed", k = item' \/ Swaps(k)', ~closed'
        PROVE  CrashTold'
    <3>1. k # m
      BY <1>7, <2>1
    <3>2. k = item
      BY <1>3, <1>4, <2>1, <3>1 DEF Swaps
    <3> QED
      BY <1>0, <1>4, <1>7, <2>1, <3>1, <3>2 DEF Pending, closed
  <2>2. ASSUME NEW k \in Managers, state'[k] = "backoff"
        PROVE  k = item' /\ (closed' \/ RestartComes(k)')
    <3>1. k # m /\ state[k] = "backoff" /\ k = item /\ (closed \/ RestartComes(k))
      BY <1>0, <1>7, <2>2 DEF Pending
    <3>2. FALSE
      BY <1>7, <3>1
    <3> QED
      BY <3>2
  <2> QED
    BY <2>1, <2>2 DEF Pending
<1> QED
  BY <1>3, <1>6, <1>7, <1>8, <1>9, <1>10, <1>13, <1>14 DEF IInv

LEMMA ProcessesStart ==
  ASSUME IInv, NEW g \in Goroutines, g = gate, StartProcess(g) \/ ReloadSwaps(g)
  PROVE  IInv'
<1>0. TypeRest /\ TypeManagers /\ HolderFits /\ g # 0 /\ Shape(jobs[g])
  BY HolderShape, Bounds DEF IInv
<1>1. CASE StartProcess(g)
  <2>1. jobs[g].at = "prepare" /\ jobs[g].kind \in StartKinds /\ item # 0 /\ jobs[g].m = item
    BY <1>0, <1>1 DEF StartProcess, Inside, HolderFits, FreshStages, Shape
  <2> PICK m \in Managers : m = item
    BY <1>0, <2>1, ShownTyped
  <2> QED
    BY <1>1, <2>1, LaunchedKeeps DEF StartProcess, Inside, regVars
<1>2. CASE ReloadSwaps(g)
  <2>1. jobs[g].at = "held" /\ jobs[g].kind = "reload" /\ item # 0 /\ state[item] = "running"
    BY <1>0, <1>2, ShownTyped DEF ReloadSwaps, Holds, At
  <2> PICK m \in Managers : m = created + 1
    BY <1>0, <1>2, Bounds DEF ReloadSwaps, TypeRest, Managers
  <2>2. m # item /\ created < m
    BY <1>0, Bounds DEF TypeRest
  <2> QED
    BY <1>2, <2>1, <2>2, LaunchedKeeps DEF ReloadSwaps, StartKinds
<1> QED
  BY <1>1, <1>2

LEMMA HandshakeKeeps == ASSUME IInv, NEW g \in Goroutines, g = gate, Handshake(g) PROVE IInv'
<1>0. /\ TypeRest /\ TypeManagers /\ TypeJobs /\ ManagersFit /\ JobsFit /\ HolderFits
      /\ Owned /\ Pending
  BY DEF IInv
<1> PICK m : m = jobs[g].m
  OBVIOUS
<1> DEFINE at == IF jobs[g].at = "starting" THEN "activate" ELSE "swapActivate"
<1>1. /\ jobs[g].at \in {"starting", "swapStart"} /\ state' = [state EXCEPT ![m] = "running"]
      /\ jobs' = [jobs EXCEPT ![g].at = at, ![g].m = m] /\ gate' = gate
      /\ UNCHANGED <<desired, shown, regVars, crashes, proc, restart, slot, shut, calls, faults>>
  BY DEF Handshake, Goto
<1>2. /\ jobs[g] # NoJob /\ g # 0 /\ desired = "enabled" /\ state[m] = "starting" /\ item # 0
      /\ state[item] # "backoff" /\ (jobs[g].at = "starting" => m = item)
      /\ jobs[g].at = "swapStart" => m \in retired /\ m # item
      /\ jobs[g].kind \in StartKinds /\ (jobs[g].at = "swapStart" => jobs[g].kind = "reload")
  BY <1>0, <1>1, HolderShape, Bounds DEF HolderFits, FreshStages, SwapStages, Shape, StartKinds
<1>3. m \in Managers /\ item \in Managers /\ m \in 0..MaxManagers /\ m <= created
      /\ m \in Nat /\ created \in Nat /\ m # 0
  BY <1>0, <1>1, <1>2, Bounds DEF TypeRest, Managers
<1>4. TypeJobs' /\ Turns(g, at, m)
  <2>1. at \in Stages
    BY DEF Stages
  <2> QED
    BY <1>0, <1>1, <1>2, <1>3, <2>1, TurnsTyped
<1>5. /\ jobs'[g].kind = jobs[g].kind /\ jobs'[g].at = at /\ jobs'[g].m = m
      /\ (CrashTold => CrashTold') /\ \A h \in Goroutines \ {g} : jobs'[h] = jobs[h]
  BY <1>0, <1>4, TurnsKeeps DEF Turns
<1>6. TypeRest' /\ TypeManagers'
  BY <1>0, <1>1, Bounds DEF TypeRest, TypeManagers, States, regVars
<1>7. /\ state'[m] = "running" /\ Moves(m)
      /\ \A k \in Managers \ {m} : state'[k] = state[k]
  BY <1>0, <1>1, <1>3 DEF TypeManagers, Moves
<1>8. ManagersFit'
  <2>1. proc'[m] \in ProcessOf(state'[m])
    BY <1>0, <1>1, <1>2, <1>3, <1>7 DEF ManagersFit, ProcessOf
  <2>2. crashes'[m] + Unseen(m)' <= faults'
    BY <1>0, <1>1, <1>3 DEF ManagersFit, Unseen
  <2>3. created <= created' /\ faults <= faults'
    BY <1>0, <1>1, <1>3, Bounds DEF TypeRest, regVars
  <2> QED
    BY <1>0, <1>1, <1>3, <1>6, <1>7, <2>1, <2>2, <2>3, MovesFit DEF regVars
<1>9. JobsFit'
  <2>1. faults \in Nat /\ faults' \in Nat /\ faults <= faults'
    BY <1>0, <1>1, Bounds DEF TypeRest
  <2> QED
    BY <1>0, <1>1, <1>2, <1>3, <1>4, <2>1, TurnsFit DEF InsideStages, FreshStages, SwapStages
<1>10. HolderFits'
  <2>1. state'[item'] # "backoff" /\ item' = item /\ retired' = retired
    BY <1>1, <1>2, <1>3, <1>7 DEF regVars
  <2> QED
    BY <1>1, <1>2, <1>5, <2>1 DEF HolderFits, FreshStages, SwapStages
<1>11. m = item \/ Swaps(m)'
  BY <1>1, <1>2, <1>5 DEF Swaps, SwapStages
<1>12. \A k \in Managers : Swaps(k)' <=> Swaps(k)
  BY <1>1, <1>2, <1>5 DEF Swaps, SwapStages
<1>13. Owned'
  <2>1. ~WorkersDone
    BY <1>2 DEF WorkersDone, ApiKinds, StartKinds
  <2>2. \A k \in Managers : state'[k] \in {"starting", "running"} => k = item' \/ Swaps(k)'
    BY <1>0, <1>1, <1>7, <1>11, <1>12 DEF Owned, regVars
  <2> QED
    BY <1>0, <1>1, <2>1, <2>2 DEF Owned, Reachable, regVars
<1>14. Pending'
  <2>1. \A k \in Managers : state'[k] # "backoff"
    BY <1>0, <1>2, <1>7 DEF Pending
  <2>2. ASSUME NEW k \in Managers, state'[k] = "crashed", k = item' \/ Swaps(k)', ~closed'
        PROVE  CrashTold'
    BY <1>0, <1>1, <1>5, <1>7, <1>12, <2>2 DEF Pending, closed, regVars
  <2> QED
    BY <1>1, <1>2, <2>1, <2>2 DEF Pending
<1> QED
  BY <1>4, <1>6, <1>8, <1>9, <1>10, <1>13, <1>14 DEF IInv

LEMMA ActivateKeeps == ASSUME IInv, NEW g \in Goroutines, g = gate, Activate(g) PROVE IInv'
<1>0. TypeRest /\ HolderFits /\ g # 0 /\ Shape(jobs[g])
  BY HolderShape, Bounds DEF IInv
<1>1. /\ jobs[g].at = "activate" /\ slot' = jobs[g].m /\ shown' = "running" /\ Finish(g)
      /\ UNCHANGED <<desired, regVars, procVars, shut, calls, faults>>
  BY DEF Activate, Inside
<1>2. /\ item # 0 /\ jobs[g].m = item /\ desired = "enabled" /\ state[item] # "backoff"
      /\ jobs[g].kind \in StartKinds
  BY <1>0, <1>1 DEF HolderFits, FreshStages, Shape
<1>3. ItemState # "backoff" /\ shown' \in States
  BY <1>1, <1>2 DEF ItemState, States
<1> QED
  BY <1>1, <1>2, <1>3, LeavesGate DEF Finish, StartKinds

-----------------------------------------------------------------------------
(* Starts that fail. *)

LEMMA RejectedKeeps == ASSUME IInv, NEW g \in Goroutines, g = gate, StartRejected(g) PROVE IInv'
<1>0. /\ TypeRest /\ TypeManagers /\ TypeJobs /\ ManagersFit /\ JobsFit /\ HolderFits
      /\ Owned /\ Pending
  BY DEF IInv
<1>1. /\ jobs[g].at = "prepare" /\ desired = "enabled" /\ StartFails(g, jobs, state, proc)
      /\ UNCHANGED <<desired, regVars, crashes, proc, restart, slot, shut, calls, faults>>
  BY DEF StartRejected, Inside
<1>2. /\ jobs[g] # NoJob /\ g # 0 /\ item # 0 /\ jobs[g].m = item /\ jobs[g].kind \in StartKinds
      /\ jobs[g].m \in 0..MaxManagers /\ \A h \in Goroutines : jobs[h].n \in Nat
  BY <1>0, <1>1, HolderShape, JobShape, Bounds DEF HolderFits, FreshStages, Shape
<1>3. CASE jobs[g].kind = "start"
  <2>1. /\ jobs' = [jobs EXCEPT ![g].at = "report"] /\ gate' = 0
        /\ UNCHANGED <<desired, shown, regVars, procVars, slot, shut, calls, faults>>
    BY <1>1, <1>3 DEF StartFails, procVars
  <2>2. TypeJobs' /\ Turns(g, "report", jobs[g].m)
    BY <1>0, <1>2, <2>1, MovesTyped DEF Stages
  <2>3. /\ jobs'[g].kind = jobs[g].kind /\ jobs'[g].at = "report" /\ jobs'[g].n = jobs[g].n
        /\ (CrashTold => CrashTold') /\ \A h \in Goroutines \ {g} : jobs'[h] = jobs[h]
    BY <1>0, <2>2, TurnsKeeps DEF Turns
  <2>4. JobsFit' /\ HolderFits'
    BY <1>0, <1>2, <1>3, <2>1, <2>3, Bounds
    DEF JobsFit, HolderFits, Shape, InsideStages, FreshStages, SwapStages
  <2>5. TypeRest'
    BY <1>0, <2>1, Bounds DEF TypeRest, regVars
  <2>6. \A k : Swaps(k)' <=> Swaps(k)
    BY <1>1, <2>1 DEF Swaps, SwapStages
  <2>7. /\ WorkersDone => WorkersDone'
        /\ StopComes => StopComes'
        /\ \A k : RestartComes(k) => RestartComes(k)'
    BY <1>3, <2>3 DEF WorkersDone, StopComes, RestartComes
  <2> QED
    BY <2>1, <2>2, <2>3, <2>4, <2>5, <2>6, <2>7, WorldStays
<1>4. CASE jobs[g].kind # "start" /\ state' = state
  <2>1. jobs' = Without(jobs, g) /\ gate' = 0 /\ shown' \in States
    BY <1>0, <1>1, <1>4, ShownTyped DEF StartFails
  <2>2. jobs[g].kind = "backoff" => ItemState # "backoff"
    <3>1. SUFFICES ASSUME jobs[g].kind = "backoff", state[item] = "backoff" PROVE FALSE
      BY <1>2 DEF ItemState
    <3>2. item \in Managers
      BY <1>0, <1>2, ShownTyped
    <3>3. state' = Stopped(item, state, proc)
      BY <1>1, <1>2, <3>1 DEF StartFails
    <3> QED
      BY <1>0, <1>4, <3>1, <3>2, <3>3, StoppedMoves DEF Active
  <2>3. slot' \in {0, slot}
    BY <1>1
  <2> QED
    BY <1>1, <1>2, <1>4, <2>1, <2>2, <2>3, LeavesGate DEF StartKinds, procVars
<1>5. CASE jobs[g].kind # "start" /\ state' # state
  <2> PICK m \in Managers : m = item
    BY <1>0, <1>2, ShownTyped
  <2>1. jobs[g].kind = "backoff"
    BY <1>1, <1>2, <1>5 DEF StartFails
  <2>2. /\ jobs' = Without(jobs, g) /\ gate' = 0 /\ state' = Stopped(m, state, proc)
        /\ shown' = Published("stopped", item, state')
    BY <1>1, <1>2, <1>5, <2>1 DEF StartFails
  <2>3. /\ state' \in [Managers -> States] /\ \A k \in Managers \ {m} : state'[k] = state[k]
        /\ state[m] \notin Active /\ state'[m] = "stopped"
    <3>1. /\ state' \in [Managers -> States] /\ \A k \in Managers \ {m} : state'[k] = state[k]
          /\ state'[m] = IF state[m] \in Active THEN state[m] ELSE "stopped"
      BY <1>0, <2>2, StoppedMoves
    <3>2. state'[m] # state[m]
      BY <1>0, <1>5, <3>1 DEF TypeManagers
    <3> QED
      BY <3>1, <3>2
  <2>4. shown' \in States
    BY <1>2, <2>2, <2>3 DEF Published, States
  <2>5. TypeRest' /\ TypeManagers' /\ Moves(m) /\ proc'[m] = "none"
    BY <1>0, <1>1, <2>2, <2>3, <2>4, Bounds
    DEF TypeRest, TypeManagers, Moves, regVars, ManagersFit, ProcessOf, Active
  <2>6. ManagersFit'
    <3>1. proc'[m] \in ProcessOf(state'[m])
      BY <2>3, <2>5 DEF ProcessOf
    <3>2. crashes'[m] + Unseen(m)' <= faults'
      BY <1>0, <1>1 DEF ManagersFit, Unseen
    <3>3. created <= created' /\ faults <= faults'
      BY <1>0, <1>1, Bounds DEF TypeRest, regVars
    <3> QED
      BY <1>0, <2>3, <2>5, <3>1, <3>2, <3>3, MovesFit
  <2>7. TypeJobs' /\ Ends(g) /\ Others(g)
    BY <1>0, <2>2, EndsTyped, OthersStay
  <2>8. JobsFit' /\ HolderFits'
    BY <1>0, <1>1, <2>2, <2>7, EndsFit, Bounds DEF TypeRest
  <2>9. /\ WorkersDone => WorkersDone'
        /\ CrashTold => CrashTold'
        /\ StopComes => StopComes'
    <3>1. WorkersDone => WorkersDone'
      BY <2>7, Nothing DEF WorkersDone, Ends, NoJobFields
    <3> QED
      BY <1>0, <2>1, <2>7, <3>1, WitnessesStay
  <2>10. \A k : ~Swaps(k) /\ ~Swaps(k)'
    BY <1>1, <2>2 DEF Swaps, SwapStages
  <2> QED
    BY <1>1, <2>2, <2>3, <2>5, <2>6, <2>7, <2>8, <2>9, <2>10, ManagerSettles DEF regVars
<1> QED
  BY <1>3, <1>4, <1>5

\* A process was started in vain: its manager, item, is in state st, the goroutines
\* do js, and the caller of startRuntimeLocked acts upon the error.
LEMMA FailedStart ==
  ASSUME IInv, NEW g \in Goroutines, g = gate, jobs[g].at \in {"starting", "activate"},
         NEW js \in [Goroutines -> {NoJob} \cup Work], js[g] = jobs[g],
         \/ js = jobs
         \/ \E h \in Goroutines :
              /\ jobs[h] = NoJob /\ js[h].kind = "crash" /\ js[h].at = "wait" /\ js[h].n <= faults'
              /\ \A k \in Goroutines \ {h} : js[k] = jobs[k],
         NEW st \in [Managers -> States], NEW pr, pr = proc', NEW m \in Managers, m = item,
         StartFails(g, js, st, pr), UNCHANGED <<desired, regVars, shut, calls>>,
         faults' \in 0..MaxFaults, faults <= faults', slot' \in {0, slot},
         crashes' \in [Managers -> 0..MaxFaults], restart' \in [Managers -> BOOLEAN],
         proc' \in [Managers -> {"none", "live", "exited", "dying"}],
         \A k \in Managers \ {m} : st[k] = state[k] /\ proc'[k] = proc[k] /\ crashes'[k] = crashes[k],
         st[m] \in {"stopped", "crashed", "stopping"},
         proc'[m] = IF st[m] = "stopping" THEN "dying" ELSE "none",
         st[m] = "crashed" => js # jobs, crashes'[m] + Unseen(m)' <= faults'
  PROVE  IInv'
<1>0. /\ TypeRest /\ TypeManagers /\ TypeJobs /\ ManagersFit /\ JobsFit /\ HolderFits
      /\ Owned /\ Pending
  BY DEF IInv
<1>1. /\ jobs[g] # NoJob /\ jobs[g] \in Work /\ g # 0 /\ item # 0 /\ jobs[g].m = m
      /\ desired = "enabled" /\ jobs[g].kind \in StartKinds
      /\ \A h \in Goroutines : jobs[h].n \in Nat /\ js[h] \in {NoJob} \cup Work
      /\ faults \in Nat /\ faults' \in Nat
  BY <1>0, HolderShape, JobShape, Bounds DEF HolderFits, FreshStages, Shape, TypeRest
<1>2. /\ gate' = 0
      /\ state' \in [Managers -> States] /\ \A k \in Managers \ {m} : state'[k] = st[k]
      /\ state'[m] \in {st[m], "stopped"} /\ (st[m] = "stopping" => state'[m] = "stopping")
      /\ shown' \in States
  <2>1. CASE jobs[g].kind = "start"
    BY <1>0, <2>1 DEF StartFails, TypeRest
  <2>2. CASE jobs[g].kind = "backoff"
    <3>1. /\ state' = Stopped(m, st, pr) /\ gate' = 0 /\ shown' = Published("stopped", item, state')
      BY <1>1, <2>2 DEF StartFails
    <3>2. CleanupComplete(m, st, pr) => st[m] # "stopping"
      BY DEF CleanupComplete
    <3>3. /\ state' \in [Managers -> States] /\ \A k \in Managers \ {m} : state'[k] = st[k]
          /\ state'[m] \in {st[m], "stopped"} /\ (st[m] = "stopping" => state'[m] = "stopping")
      BY <3>1, <3>2 DEF Stopped, States
    <3> QED
      BY <3>1, <3>3 DEF Published, States
  <2>3. CASE jobs[g].kind \notin {"start", "backoff"}
    BY <2>3 DEF StartFails, Failure, Published, States
  <2> QED
    BY <2>1, <2>2, <2>3
<1>3. jobs' = Without(js, g) \/ (jobs[g].kind = "start" /\ jobs' = [js EXCEPT ![g].at = "report"])
  BY DEF StartFails
<1>4. /\ TypeJobs' /\ \A h \in Goroutines \ {g} : jobs'[h] = js[h]
      /\ \/ jobs'[g] = NoJob
         \/ /\ jobs'[g].kind = jobs[g].kind /\ jobs[g].kind = "start" /\ jobs'[g].at = "report"
            /\ jobs'[g].n = jobs[g].n
  <2>1. CASE jobs' = Without(js, g)
    BY <2>1 DEF Without, TypeJobs
  <2>2. CASE jobs[g].kind = "start" /\ jobs' = [js EXCEPT ![g].at = "report"]
    <3>1. js[g] \in Work /\ "report" \in Stages
      BY <1>1 DEF Stages
    <3> QED
      BY <2>2, <3>1 DEF TypeJobs, Work
  <2> QED
    BY <1>3, <2>1, <2>2
<1>5. /\ \A h \in Goroutines : js[h] = jobs[h] \/ (jobs[h] = NoJob /\ js[h].kind = "crash" /\ js[h].at = "wait" /\ js[h].n <= faults')
      /\ js # jobs => \E h \in Goroutines : h # g /\ js[h].kind = "crash"
  BY <1>1
<1>6. JobsFit' /\ HolderFits'
  <2>1. \A h \in Goroutines : Shape(jobs'[h]) /\ jobs'[h].n <= faults' /\ jobs'[h].at \notin InsideStages
    <3> SUFFICES ASSUME NEW h \in Goroutines
                 PROVE  Shape(jobs'[h]) /\ jobs'[h].n <= faults' /\ jobs'[h].at \notin InsideStages
      OBVIOUS
    <3>1. CASE h = g
      BY <1>0, <1>1, <1>4, <3>1, Nothing
      DEF Shape, InsideStages, FreshStages, SwapStages, JobsFit, NoJobFields
    <3>2. CASE h # g /\ js[h] = jobs[h]
      BY <1>0, <1>1, <1>4, <3>2 DEF JobsFit
    <3>3. CASE h # g /\ js[h] # jobs[h]
      BY <1>4, <1>5, <3>3 DEF Shape, InsideStages, FreshStages, SwapStages
    <3> QED
      BY <3>1, <3>2, <3>3
  <2> QED
    BY <1>2, <2>1, Bounds DEF JobsFit, HolderFits
<1>7. TypeRest' /\ TypeManagers'
  BY <1>0, <1>2, Bounds DEF TypeRest, TypeManagers, regVars
<1>8. /\ Moves(m) /\ state'[m] \notin {"starting", "running", "backoff"}
      /\ proc'[m] \in {"none", "dying"} /\ (state'[m] = "crashed" => js # jobs)
  BY <1>2 DEF Moves
<1>9. ManagersFit'
  <2>1. proc'[m] \in ProcessOf(state'[m])
    BY <1>2 DEF ProcessOf
  <2>2. created <= created' /\ m <= created /\ m \in Nat /\ created \in Nat
    BY <1>0, Bounds DEF TypeRest, regVars
  <2> QED
    BY <1>0, <1>7, <1>8, <2>1, <2>2, MovesFit DEF regVars
<1>10. \A k : ~Swaps(k) /\ ~Swaps(k)'
  BY <1>2 DEF Swaps, SwapStages
<1>11. Others(g) /\ (WorkersDone => WorkersDone') /\ (js # jobs => CrashTold')
  <2>1. Others(g)
    BY <1>4, <1>5 DEF Others
  <2>2. WorkersDone => WorkersDone'
    BY <1>1 DEF WorkersDone, StartKinds, ApiKinds
  <2>3. js # jobs => CrashTold'
    BY <1>4, <1>5 DEF CrashTold
  <2> QED
    BY <2>1, <2>2, <2>3
<1>12. CrashTold => CrashTold'
  BY <1>0, <1>1, <1>11, WitnessesStay DEF StartKinds
<1>13. m \in Reachable'
  BY <1>1 DEF Reachable, regVars
<1> QED
  BY <1>1, <1>4, <1>6, <1>7, <1>8, <1>9, <1>10, <1>11, <1>12, <1>13, ManagerSettles DEF regVars

LEMMA StartsFail ==
  ASSUME IInv, NEW g \in Goroutines, g = gate, HandshakeFails(g) \/ ActivateFails(g)
  PROVE  IInv'
<1>0. /\ TypeRest /\ TypeManagers /\ TypeJobs /\ ManagersFit /\ JobsFit /\ HolderFits
  BY DEF IInv
<1>1. /\ jobs[g].at \in {"starting", "activate"}
      /\ UNCHANGED <<desired, regVars, shut, calls>> /\ slot' \in {0, slot}
  BY DEF HandshakeFails, ActivateFails, Inside
<1>2. g # 0 /\ item # 0 /\ jobs[g].m = item /\ jobs[g] # NoJob
      /\ jobs \in [Goroutines -> {NoJob} \cup Work]
  BY <1>0, <1>1, HolderShape, Bounds DEF HolderFits, FreshStages, TypeJobs
<1> PICK m \in Managers : m = item
  BY <1>0, <1>2, ShownTyped
<1>3. faults \in Nat /\ crashes[m] \in Nat /\ crashes[m] + Unseen(m) <= faults
  BY <1>0, Bounds DEF TypeRest, TypeManagers, ManagersFit
<1>4. CASE HandshakeFails(g)
  <2>1. UNCHANGED <<crashes, restart, slot, faults>>
    BY <1>4 DEF HandshakeFails
  <2> PICK k \in KillOutcomes(m) : proc' = k[2] /\ StartFails(g, jobs, k[1], k[2])
    BY <1>2, <1>4 DEF HandshakeFails
  <2>2. /\ k[1] \in [Managers -> States] /\ \A i \in Managers \ {m} : k[1][i] = state[i]
        /\ k[2] \in [Managers -> {"none", "live", "exited", "dying"}]
        /\ \A i \in Managers \ {m} : k[2][i] = proc[i]
        /\ k[1][m] \in {"stopped", "stopping"}
        /\ k[2][m] = IF k[1][m] = "stopping" THEN "dying" ELSE "none"
    <3>1. CASE k = <<[state EXCEPT ![m] = "stopped"], [proc EXCEPT ![m] = "none"]>>
      BY <1>0, <3>1 DEF TypeManagers, States
    <3>2. CASE k = <<[state EXCEPT ![m] = "stopping"], [proc EXCEPT ![m] = "dying"]>>
      BY <1>0, <3>2 DEF TypeManagers, States
    <3> QED
      BY <3>1, <3>2 DEF KillOutcomes
  <2>3. crashes'[m] + Unseen(m)' <= faults'
    BY <1>3, <2>1, <2>2 DEF Unseen
  <2>4. faults' \in 0..MaxFaults /\ faults <= faults'
    BY <1>0, <1>3, <2>1 DEF TypeRest
  <2>5. crashes' \in [Managers -> 0..MaxFaults] /\ restart' \in [Managers -> BOOLEAN]
    BY <1>0, <2>1 DEF TypeManagers
  <2> QED
    BY <1>1, <1>2, <2>1, <2>2, <2>3, <2>4, <2>5, FailedStart
<1>5. CASE ActivateFails(g)
  <2> PICK o \in StopOutcomes(m) :
        /\ StopEffects(m, o, FALSE) /\ (o.crash => Free(jobs) # {})
        /\ StartFails(g, CalledBack(jobs, m, o), [state EXCEPT ![m] = o.state],
                      [proc EXCEPT ![m] = o.proc])
    BY <1>2, <1>5 DEF ActivateFails
  <2>1. /\ crashes' \in [Managers -> 0..MaxFaults] /\ restart' \in [Managers -> BOOLEAN]
        /\ proc' \in [Managers -> {"none", "live", "exited", "dying"}] /\ proc'[m] = o.proc
        /\ \A k \in Managers \ {m} : proc'[k] = proc[k] /\ crashes'[k] = crashes[k]
        /\ o.state \in {"stopped", "crashed", "stopping"}
        /\ o.proc = IF o.state = "stopping" THEN "dying" ELSE "none"
        /\ o.crash \in BOOLEAN /\ (o.crash <=> o.state = "crashed")
        /\ crashes[m] + o.extra <= faults' /\ crashes[m] + o.extra \in 0..MaxFaults
        /\ crashes'[m] + Unseen(m)' <= faults'
        /\ faults' \in 0..MaxFaults /\ faults <= faults'
    <3> PICK reset \in BOOLEAN : StopEffects(m, o, reset)
      OBVIOUS
    <3> QED
      BY <1>0, StopEnds
  <2> DEFINE st == [state EXCEPT ![m] = o.state]
             js == CalledBack(jobs, m, o)
             pr == [proc EXCEPT ![m] = o.proc]
  <2>2. /\ st \in [Managers -> States] /\ st[m] = o.state
        /\ \A k \in Managers \ {m} : st[k] = state[k]
    BY <1>0, <2>1 DEF TypeManagers, States
  <2>3. pr = proc'
    BY DEF StopEffects
  <2>4. /\ js \in [Goroutines -> {NoJob} \cup Work] /\ js[g] = jobs[g]
        /\ \/ js = jobs
           \/ \E h \in Goroutines :
                /\ jobs[h] = NoJob /\ js[h].kind = "crash" /\ js[h].at = "wait" /\ js[h].n <= faults'
                /\ \A k \in Goroutines \ {h} : js[k] = jobs[k]
        /\ o.crash => js # jobs
    <3>1. CASE ~o.crash
      BY <1>2, <3>1 DEF CalledBack
    <3>2. CASE o.crash
      <4> DEFINE job == Job("crash", m, crashes[m] + o.extra)
                 h == CHOOSE k \in Free(jobs) : TRUE
      <4>1. /\ job \in Work /\ job.kind = "crash" /\ job.at = "wait" /\ job.n = crashes[m] + o.extra
        BY <2>1, Bounds DEF Job, Work, Kinds, Stages, Managers
      <4>2. h \in Free(jobs) /\ js = [jobs EXCEPT ![h] = job]
        BY <3>2 DEF CalledBack, With
      <4> HIDE DEF job, h, js
      <4>3. h \in Goroutines /\ jobs[h] = NoJob /\ h # g /\ jobs[h].kind = "none"
        BY <1>2, <4>2, Nothing DEF Free, NoJobFields
      <4>4. js[h] = job /\ \A k \in Goroutines \ {h} : js[k] = jobs[k]
        BY <1>2, <4>2, <4>3
      <4>5. js \in [Goroutines -> {NoJob} \cup Work]
        BY <1>2, <4>1, <4>2
      <4> QED
        BY <2>1, <4>1, <4>3, <4>4, <4>5
    <3> QED
      BY <3>1, <3>2
  <2>5. StartFails(g, js, st, pr)
    OBVIOUS
  <2> HIDE DEF st, js, pr
  <2> QED
    BY <1>1, <1>2, <2>1, <2>2, <2>3, <2>4, <2>5, FailedStart
<1> QED
  BY <1>4, <1>5

-----------------------------------------------------------------------------
(* Reloads that have a second runtime beside the registered one. *)

LEMMA SwapStartFailsKeeps ==
  ASSUME IInv, NEW g \in Goroutines, g = gate, SwapStartFails(g)
  PROVE  IInv'
<1>0. /\ TypeRest /\ TypeManagers /\ TypeJobs /\ ManagersFit /\ JobsFit /\ HolderFits
  BY DEF IInv
<1> PICK m : m = jobs[g].m
  OBVIOUS
<1>1. /\ jobs[g].at = "swapStart" /\ shown' = "running" /\ Finish(g)
      /\ retired' = Released(m, retired, state', proc')
      /\ UNCHANGED <<desired, item, created, crashes, restart, slot, shut, calls, faults>>
  BY DEF SwapStartFails, Inside
<1> PICK k \in KillOutcomes(m) : state' = k[1] /\ proc' = k[2]
  BY DEF SwapStartFails
<1>2. g # 0 /\ m \in retired /\ m # item /\ desired = "enabled" /\ jobs[g].kind = "reload"
  BY <1>0, <1>1, HolderShape, Bounds DEF HolderFits, SwapStages, Shape
<1>3. m \in Managers /\ m <= created /\ m \in Nat /\ created \in Nat
  <2>1. m \in 1..created /\ created \in 0..MaxManagers
    BY <1>0, <1>2 DEF TypeRest
  <2> QED
    BY <2>1, Bounds DEF Managers
<1>4. /\ state' \in [Managers -> States] /\ proc' \in [Managers -> {"none", "live", "exited", "dying"}]
      /\ \A i \in Managers \ {m} : state'[i] = state[i] /\ proc'[i] = proc[i]
      /\ state'[m] \in {"stopped", "stopping"}
      /\ proc'[m] = IF state'[m] = "stopping" THEN "dying" ELSE "none"
  <2>1. CASE k = <<[state EXCEPT ![m] = "stopped"], [proc EXCEPT ![m] = "none"]>>
    BY <1>0, <1>3, <2>1 DEF TypeManagers, States
  <2>2. CASE k = <<[state EXCEPT ![m] = "stopping"], [proc EXCEPT ![m] = "dying"]>>
    BY <1>0, <1>3, <2>2 DEF TypeManagers, States
  <2> QED
    BY <2>1, <2>2 DEF KillOutcomes
<1>5. retired' = retired \/ (retired' = retired \ {m} /\ proc'[m] = "none")
  BY <1>1 DEF Released, CleanupComplete
<1>6. TypeRest' /\ TypeManagers' /\ Moves(m) /\ faults <= faults'
  <2>1. TypeManagers' /\ Moves(m)
    BY <1>0, <1>1, <1>4 DEF TypeManagers, Moves
  <2>2. gate' = 0 /\ retired' \subseteq retired
    BY <1>1, <1>5 DEF Finish
  <2>3. faults <= faults'
    BY <1>0, <1>1, Bounds DEF TypeRest
  <2>4. TypeRest'
    <3>1. 0 \in 0..MaxGoroutines /\ "running" \in States
      BY Bounds DEF States
    <3> QED
      BY <1>0, <1>1, <2>2, <3>1 DEF TypeRest
  <2> QED
    BY <2>1, <2>3, <2>4
<1>7. ManagersFit'
  <2>1. proc'[m] \in ProcessOf(state'[m])
    BY <1>4 DEF ProcessOf
  <2>2. crashes[m] \in Nat /\ crashes[m] + Unseen(m) <= faults /\ faults \in Nat
    BY <1>0, <1>3, Bounds DEF ManagersFit, TypeManagers, TypeRest
  <2>3. crashes'[m] + Unseen(m)' <= faults'
    BY <1>1, <1>4, <2>2 DEF Unseen
  <2> QED
    BY <1>0, <1>1, <1>3, <1>6, <2>1, <2>3, MovesFit
<1>8. /\ TypeJobs' /\ JobsFit' /\ HolderFits' /\ Others(g)
      /\ (WorkersDone => WorkersDone') /\ \A i : ~Swaps(i)'
  BY <1>1, <1>6, FinishFits
<1>9. \A i : Swaps(i) => i = m
  BY DEF Swaps
<1>10. /\ CrashTold => CrashTold'
       /\ \A i : RestartComes(i) => RestartComes(i)'
  BY <1>0, <1>2, <1>8, WitnessesStay
<1>11. proc'[m] # "none" => m \in Reachable'
  BY <1>2, <1>5 DEF Reachable
<1> QED
  BY <1>1, <1>2, <1>3, <1>4, <1>5, <1>6, <1>7, <1>8, <1>9, <1>10, <1>11, ManagerSettles

LEMMA SwapKeeps == ASSUME IInv, NEW g \in Goroutines, g = gate, Swap(g) PROVE IInv'
<1>0. /\ TypeRest /\ TypeManagers /\ TypeJobs /\ ManagersFit /\ JobsFit /\ HolderFits
      /\ Owned /\ Pending
  BY DEF IInv
<1> PICK m : m = jobs[g].m
  OBVIOUS
<1> PICK old : old = item
  OBVIOUS
<1>1. /\ jobs[g].at = "swapActivate" /\ slot' = m /\ item' = m /\ created' = created
      /\ retired' = (retired \ {m}) \cup {old} /\ shown' = "running"
      /\ jobs' = [jobs EXCEPT ![g].at = "retire", ![g].m = old] /\ gate' = gate
      /\ UNCHANGED <<desired, procVars, shut, calls, faults>>
  BY DEF Swap, Inside, Goto
<1>2. /\ jobs[g] # NoJob /\ g # 0 /\ m \in retired /\ m # old /\ old # 0 /\ desired = "enabled"
      /\ jobs[g].kind = "reload" /\ state[old] # "backoff"
  BY <1>0, <1>1, HolderShape, Bounds DEF HolderFits, SwapStages, Shape
<1>3. m \in 1..created /\ old \in 1..created /\ old \in 0..MaxManagers /\ m # 0
  BY <1>0, <1>2, Bounds DEF TypeRest
<1>4. TypeJobs' /\ Turns(g, "retire", old)
  BY <1>0, <1>1, <1>2, <1>3, TurnsTyped DEF Stages
<1>5. /\ jobs'[g].kind = jobs[g].kind /\ jobs'[g].at = "retire" /\ jobs'[g].m = old
      /\ (CrashTold => CrashTold') /\ \A h \in Goroutines \ {g} : jobs'[h] = jobs[h]
  BY <1>0, <1>4, TurnsKeeps DEF Turns
<1>6. TypeRest' /\ TypeManagers' /\ ManagersFit'
  <2>1. TypeRest'
    BY <1>0, <1>1, <1>3, Bounds DEF TypeRest, States
  <2> QED
    BY <1>0, <1>1, <2>1 DEF TypeManagers, ManagersFit, Unseen, procVars
<1>7. JobsFit'
  <2>1. faults \in Nat /\ faults' \in Nat /\ faults <= faults'
    BY <1>0, <1>1, Bounds DEF TypeRest
  <2> QED
    BY <1>0, <1>1, <1>2, <1>4, <2>1, TurnsFit DEF InsideStages, FreshStages, SwapStages
<1>8. HolderFits'
  BY <1>1, <1>2, <1>3, <1>5 DEF HolderFits, FreshStages, SwapStages
<1>9. /\ \A k : Swaps(k) <=> k = m
      /\ \A k : Swaps(k)' <=> k = old
  BY <1>1, <1>2, <1>5 DEF Swaps, SwapStages
<1>10. Owned'
  <2>1. Reachable' = Reachable
    BY <1>1, <1>2, <1>3 DEF Reachable
  <2>2. ~WorkersDone
    BY <1>2 DEF WorkersDone, ApiKinds
  <2>3. slot' \in {0, item'}
    BY <1>1
  <2>4. \A k \in Managers : state'[k] \in {"starting", "running"} => k = item' \/ Swaps(k)'
    BY <1>0, <1>1, <1>9 DEF Owned, procVars
  <2> QED
    BY <1>0, <1>1, <2>1, <2>2, <2>3, <2>4 DEF Owned, procVars
<1>11. Pending'
  <2>1. \A k \in Managers : state'[k] # "backoff"
    BY <1>0, <1>1, <1>2 DEF Pending, procVars
  <2>2. ASSUME NEW k \in Managers, state'[k] = "crashed", k = item' \/ Swaps(k)', ~closed'
        PROVE  CrashTold'
    BY <1>0, <1>1, <1>5, <1>9, <2>2 DEF Pending, closed, procVars
  <2> QED
    BY <1>1, <1>2, <2>1, <2>2 DEF Pending
<1> QED
  BY <1>4, <1>6, <1>7, <1>8, <1>10, <1>11 DEF IInv

\* The new runtime is given up, or the old one has been replaced.
LEMMA SwapEndsKeep ==
  ASSUME IInv, NEW g \in Goroutines, g = gate, SwapFails(g) \/ Retire(g)
  PROVE  IInv'
<1>0. TypeRest /\ TypeManagers /\ TypeJobs /\ ManagersFit /\ JobsFit /\ HolderFits
  BY DEF IInv
<1> PICK m : m = jobs[g].m
  OBVIOUS
<1>1. /\ jobs[g].at \in SwapStages /\ retired' = Released(m, retired, state', proc')
      /\ UNCHANGED <<desired, item, created, slot, shut, calls>>
      /\ shown' = shown \/ shown' = state[item]
  BY DEF SwapFails, Retire, Inside, SwapStages
<1> PICK o \in StopOutcomes(m) :
      /\ StopManager(m, o, FALSE)
      /\ jobs' = CalledBack(Without(jobs, g), m, o) /\ gate' = 0
  BY DEF SwapFails, Retire
<1>2. g # 0 /\ m \in retired /\ m # item /\ item # 0 /\ jobs[g].kind = "reload"
  BY <1>0, <1>1, HolderShape, Bounds DEF HolderFits, Shape
<1>3. m \in Managers /\ shown' \in States
  BY <1>0, <1>1, <1>2, ShownTyped, Bounds DEF TypeRest, Managers
<1> PICK reset \in BOOLEAN : StopManager(m, o, reset)
  OBVIOUS
<1>4. /\ o.state \in {"stopped", "crashed", "stopping"} /\ o.crash \in BOOLEAN
      /\ o.extra \in {0, 1} /\ crashes[m] + o.extra <= faults'
      /\ proc'[m] = o.proc /\ o.proc = IF o.state = "stopping" THEN "dying" ELSE "none"
      /\ faults' \in 0..MaxFaults /\ faults <= faults'
  BY <1>0, <1>3, StopMoves
<1>5. crashes[m] + o.extra \in 0..MaxFaults
  BY <1>0, <1>3, <1>4, Bounds DEF TypeManagers
<1>6. TypeRest'
  <2>1. retired' \subseteq retired
    BY <1>1 DEF Released
  <2> QED
    BY <1>0, <1>1, <1>3, <1>4, <2>1, Bounds DEF TypeRest
<1>7. /\ TypeJobs' /\ JobsFit' /\ Others(g) /\ (o.crash => CrashTold')
      /\ WorkersDone => WorkersDone'
  BY <1>0, <1>3, <1>4, <1>5, <1>6, CalledBackHands
<1> QED
  BY <1>1, <1>2, <1>3, <1>7, StopLeaves

-----------------------------------------------------------------------------
(* The runtime of a disabled plugin is stopped. *)

LEMMA StopActiveKeeps == ASSUME IInv, NEW g \in Goroutines, g = gate, StopActive(g) PROVE IInv'
<1>0. TypeRest /\ TypeManagers /\ TypeJobs /\ ManagersFit /\ JobsFit /\ HolderFits
  BY DEF IInv
<1>1. /\ jobs[g].at = "held" /\ jobs[g].kind = "stop" /\ desired = "disabled"
      /\ ItemState \in Active /\ slot' = 0
      /\ UNCHANGED <<desired, shut, calls>>
  BY DEF StopActive, Holds, At
<1>2. item \in Managers /\ item # 0 /\ g # 0
  BY <1>0, <1>1, ShownTyped, Bounds DEF Active
<1> PICK m \in Managers : m = item
  BY <1>2
<1> PICK o \in StopOutcomes(m) :
      /\ StopManager(m, o, TRUE)
      /\ shown' = o.state
      /\ IF o.ok THEN /\ Delete(state', proc')
                      /\ jobs' = CalledBack(Without(jobs, g), item, o) /\ gate' = 0
         ELSE /\ UNCHANGED regVars
              /\ IF o.proc = "none" THEN Finish(g)
                 ELSE Launch(g, [Job("observe", item, 0) EXCEPT !.at = "reap"])
  BY DEF StopActive
<1> PICK reset \in BOOLEAN : StopManager(m, o, reset)
  OBVIOUS
<1>3. /\ TypeManagers' /\ Moves(m) /\ state'[m] = o.state /\ proc'[m] = o.proc
      /\ o.state \in {"stopped", "crashed", "stopping"}
      /\ o.proc = IF o.state = "stopping" THEN "dying" ELSE "none"
      /\ o.crash \in BOOLEAN /\ (o.crash <=> o.state = "crashed")
      /\ o.ok \in BOOLEAN /\ (o.ok => o.proc = "none") /\ (o.crash => o.ok)
      /\ o.extra \in {0, 1} /\ crashes[m] + o.extra <= faults'
      /\ crashes'[m] + Unseen(m)' <= faults'
      /\ faults \in Nat /\ faults' \in 0..MaxFaults /\ faults <= faults'
  BY <1>0, StopMoves
<1>4. crashes[m] + o.extra \in 0..MaxFaults /\ o.state \in States
  BY <1>0, <1>3, Bounds DEF TypeManagers, States
<1>5. CASE o.ok
  <2>1. /\ item' = 0 /\ created' = created /\ retired' \in {retired, retired \cup {item}}
        /\ jobs' = CalledBack(Without(jobs, g), m, o) /\ gate' = 0
    BY <1>5 DEF Delete
  <2>2. TypeRest'
    BY <1>0, <1>1, <1>2, <1>3, <1>4, <2>1, Bounds DEF TypeRest
  <2>3. TypeJobs' /\ JobsFit' /\ (WorkersDone => WorkersDone')
    BY <1>0, <1>3, <1>4, <2>1, <2>2, CalledBackHands
  <2>4. ManagersFit' /\ proc'[m] = "none"
    <3>1. proc'[m] \in ProcessOf(state'[m]) /\ proc'[m] = "none"
      BY <1>3, <1>5 DEF ProcessOf
    <3>2. m <= created' /\ created <= created' /\ m \in Nat /\ created' \in Nat
      BY <1>0, <1>2, <2>1, Bounds DEF TypeRest
    <3> QED
      BY <1>0, <1>3, <2>2, <3>1, <3>2, MovesFit
  <2>5. \A k \in Managers : ~Swaps(k)
    BY <1>1 DEF Swaps, SwapStages
  <2> QED
    BY <1>1, <1>2, <1>3, <2>1, <2>2, <2>3, <2>4, <2>5, ItemForgotten
<1>6. CASE ~o.ok
  <2>1. UNCHANGED regVars /\ ~o.crash
    BY <1>3, <1>6
  <2>2. CASE o.proc = "none" \/ closed
    <3>1. Finish(g)
      BY <1>6, <2>2 DEF Launch
    <3>2. TypeRest'
      BY <1>0, <1>1, <1>3, <1>4, <2>1, <3>1, Bounds DEF TypeRest, regVars, Finish
    <3>3. TypeJobs' /\ JobsFit' /\ Others(g) /\ (WorkersDone => WorkersDone') /\ gate' = 0
      BY <1>3, <3>1, <3>2, FinishFits
    <3> QED
      BY <1>1, <1>2, <1>4, <2>1, <3>3, StopLeaves DEF regVars, SwapStages
  <2>3. CASE o.proc # "none" /\ ~closed
    <3> DEFINE job == [Job("observe", m, 0) EXCEPT !.at = "reap"]
    <3>1. jobs' = With(Without(jobs, g), job) /\ gate' = 0
      BY <1>6, <2>3 DEF Launch, FinishWith
    <3>2. /\ job \in Work /\ Shape(job) /\ job.at \notin InsideStages /\ job.n = 0
      BY <1>2, Bounds
      DEF Job, Work, Kinds, Stages, Shape, InsideStages, FreshStages, SwapStages, Managers
    <3> HIDE DEF job
    <3>3. TypeJobs' /\ Hands(g, job) /\ Others(g)
      BY <1>0, <3>1, <3>2, HandsTyped, OthersStay
    <3>4. JobsFit'
      BY <1>0, <1>3, <3>1, <3>2, <3>3, HandsFit, Bounds
    <3>5. ~WorkersDone
      BY <1>1 DEF WorkersDone, ApiKinds
    <3> QED
      BY <1>1, <1>2, <1>4, <2>1, <3>1, <3>3, <3>4, <3>5, StopLeaves DEF regVars, SwapStages
  <2> QED
    BY <2>2, <2>3
<1> QED
  BY <1>3, <1>5, <1>6

-----------------------------------------------------------------------------
(* Crash recovery. *)

\* The goroutine that handles a crash, or ends a backoff, leaves the registered
\* manager in a state that needs nobody, or in backoff with its restart launched.
LEMMA RecoveryKeeps ==
  ASSUME IInv, NEW g \in Goroutines, g = gate, gate' = 0, jobs[g].at = "held",
         NEW m \in Managers, m = item, jobs[g].kind \in {"crash", "backoff"},
         state[m] \notin Active, state' = [state EXCEPT ![m] = state'[m]],
         \/ state'[m] \in {"stopped", "dead_letter"}
         \/ state'[m] = "backoff" /\ (closed \/ RestartComes(m)'),
         UNCHANGED <<desired, regVars, crashes, proc, restart, shut, calls, faults>>,
         shown' \in States, slot' \in {0, slot},
         TypeJobs', JobsFit', HolderFits', Others(g), closed /\ WorkersDone => WorkersDone'
  PROVE  IInv'
<1>0. /\ TypeRest /\ TypeManagers /\ TypeJobs /\ ManagersFit
  BY DEF IInv
<1>1. TypeRest' /\ TypeManagers'
  BY <1>0, Bounds DEF TypeRest, TypeManagers, States, regVars
<1>2. Moves(m) /\ proc'[m] = "none"
  BY <1>0 DEF Moves, TypeManagers, ManagersFit, ProcessOf, Active
<1>3. ManagersFit'
  <2>1. proc'[m] \in ProcessOf(state'[m])
    BY <1>2 DEF ProcessOf
  <2>2. crashes'[m] + Unseen(m)' <= faults'
    BY <1>0 DEF ManagersFit, Unseen
  <2>3. created <= created' /\ faults <= faults' /\ m <= created' /\ m \in Nat /\ created' \in Nat
    BY <1>0, Bounds DEF TypeRest, regVars
  <2> QED
    BY <1>0, <1>1, <1>2, <2>1, <2>2, <2>3, MovesFit
<1>4. \A k : ~Swaps(k) /\ ~Swaps(k)'
  BY DEF Swaps, SwapStages
<1>5. StopComes => StopComes'
  BY <1>0, WitnessesStay
<1> QED
  BY <1>1, <1>2, <1>3, <1>4, <1>5, ManagerSettles DEF regVars

LEMMA CrashHandled ==
  ASSUME IInv, NEW g \in Goroutines, g = gate,
         CrashOfDisabled(g) \/ EnterDeadLetter(g) \/ EnterBackoff(g)
  PROVE  IInv'
<1>0. /\ TypeRest /\ TypeManagers /\ TypeJobs /\ ManagersFit /\ JobsFit
  BY DEF IInv
<1>1. /\ jobs[g].at = "held" /\ jobs[g].kind = "crash" /\ ItemState \in {"crashed", "stopped"}
      /\ slot' = 0 /\ UNCHANGED <<desired, regVars, crashes, proc, restart, shut, calls, faults>>
  BY DEF CrashOfDisabled, EnterDeadLetter, EnterBackoff, HandlesCrash, Holds, At
<1>2. item \in Managers /\ item # 0 /\ state[item] \in {"crashed", "stopped"} /\ g # 0
  BY <1>0, <1>1, ShownTyped, Bounds
<1> PICK m \in Managers : m = item
  BY <1>2
<1>3. faults \in Nat /\ faults' \in Nat /\ faults <= faults'
  BY <1>0, <1>1, Bounds DEF TypeRest
<1>4. CASE Finish(g) /\ shown' \in States /\ state' = [state EXCEPT ![m] = state'[m]]
           /\ (state'[m] \in {"stopped", "dead_letter"} \/ (state'[m] = "backoff" /\ closed))
  <2>1. TypeRest'
    BY <1>0, <1>1, <1>4, Bounds DEF TypeRest, regVars, Finish
  <2>2. /\ TypeJobs' /\ JobsFit' /\ HolderFits' /\ Others(g) /\ gate' = 0
        /\ (WorkersDone => WorkersDone')
    BY <1>3, <1>4, <2>1, FinishFits
  <2> QED
    BY <1>1, <1>2, <1>4, <2>2, RecoveryKeeps DEF Active
<1>5. CASE CrashOfDisabled(g)
  <2>1. /\ state' = Stopped(m, state, proc) /\ shown' = Published("stopped", item, state')
        /\ Finish(g)
    BY <1>5 DEF CrashOfDisabled
  <2>2. /\ state' \in [Managers -> States] /\ state'[m] = "stopped"
        /\ \A k \in Managers \ {m} : state'[k] = state[k]
    BY <1>0, <1>2, <2>1, StoppedMoves DEF Active
  <2>3. state' = [state EXCEPT ![m] = state'[m]]
    BY <1>0, <2>2 DEF TypeManagers
  <2>4. shown' \in States
    BY <1>2, <2>1, <2>2 DEF Published, States
  <2> QED
    BY <1>4, <2>1, <2>2, <2>3, <2>4
<1>6. CASE EnterDeadLetter(g)
  <2>1. Finish(g) /\ state' = [state EXCEPT ![m] = "dead_letter"] /\ shown' = "dead_letter"
    BY <1>6 DEF EnterDeadLetter
  <2>2. state'[m] = "dead_letter" /\ shown' \in States
    BY <1>0, <2>1 DEF TypeManagers, States
  <2> QED
    BY <1>4, <2>1, <2>2
<1>7. CASE EnterBackoff(g)
  <2> DEFINE job == [Job("backoff", m, 0) EXCEPT !.at = "timer"]
  <2>1. /\ state' = [state EXCEPT ![m] = "backoff"] /\ shown' = "backoff" /\ Launch(g, job)
    BY <1>7 DEF EnterBackoff
  <2>2. state'[m] = "backoff" /\ shown' \in States
    BY <1>0, <2>1 DEF TypeManagers, States
  <2>3. CASE closed
    BY <1>4, <2>1, <2>2, <2>3 DEF Launch
  <2>4. CASE ~closed
    <3>1. jobs' = With(Without(jobs, g), job) /\ gate' = 0
      BY <2>1, <2>4 DEF Launch, FinishWith
    <3>2. /\ job \in Work /\ Shape(job) /\ job.at \notin InsideStages /\ job.n = 0
          /\ job.kind = "backoff" /\ job.m = m
      BY <1>2, Bounds
      DEF Job, Work, Kinds, StartKinds, Stages, Shape, InsideStages, FreshStages, SwapStages, Managers
    <3> HIDE DEF job
    <3>3. TypeJobs' /\ Hands(g, job) /\ Others(g)
      BY <1>0, <3>1, <3>2, HandsTyped, OthersStay
    <3>4. JobsFit' /\ HolderFits'
      BY <1>0, <1>3, <3>1, <3>2, <3>3, HandsFit
    <3>5. RestartComes(m)'
      BY <3>2, <3>3 DEF RestartComes, Hands
    <3>6. state[m] \notin Active /\ state' = [state EXCEPT ![m] = state'[m]]
      BY <1>2, <2>1, <2>2 DEF Active
    <3> QED
      BY <1>1, <2>2, <2>4, <3>1, <3>3, <3>4, <3>5, <3>6, RecoveryKeeps
  <2> QED
    BY <2>3, <2>4
<1> QED
  BY <1>5, <1>6, <1>7

LEMMA RestartOfDisabledKeeps ==
  ASSUME IInv, NEW g \in Goroutines, g = gate, RestartOfDisabled(g)
  PROVE  IInv'
<1>0. /\ TypeRest /\ TypeManagers /\ TypeJobs /\ ManagersFit /\ JobsFit
  BY DEF IInv
<1>1. /\ jobs[g].at = "held" /\ jobs[g].kind = "backoff" /\ item = jobs[g].m /\ Finish(g)
      /\ state' = Stopped(item, state, proc) /\ shown' = Published("stopped", item, state')
      /\ UNCHANGED <<desired, regVars, crashes, proc, restart, slot, shut, calls, faults>>
  BY DEF RestartOfDisabled, Holds, At
<1>2. item # 0 /\ item \in Managers
  BY <1>0, <1>1, ShownTyped DEF JobsFit, Shape
<1> PICK m \in Managers : m = item
  BY <1>2
<1>3. /\ state' \in [Managers -> States] /\ \A k \in Managers \ {m} : state'[k] = state[k]
      /\ state'[m] = IF state[m] \in Active THEN state[m] ELSE "stopped"
  BY <1>0, <1>1, StoppedMoves
<1>4. shown' \in States
  BY <1>1, <1>2, <1>3 DEF Published, States
<1>5. CASE state[m] \in Active
  <2>1. state' = state /\ ItemState # "backoff"
    BY <1>0, <1>2, <1>3, <1>5 DEF TypeManagers, ItemState, Active
  <2>2. slot' \in {0, slot}
    BY <1>1
  <2> QED
    BY <1>1, <1>4, <2>1, <2>2, LeavesGate DEF Finish, procVars
<1>6. CASE state[m] \notin Active
  <2>1. state' = [state EXCEPT ![m] = state'[m]] /\ state'[m] = "stopped"
    BY <1>0, <1>3, <1>6 DEF TypeManagers
  <2>2. TypeRest' /\ faults <= faults'
    BY <1>0, <1>1, <1>4, Bounds DEF TypeRest, regVars, Finish
  <2>3. /\ TypeJobs' /\ JobsFit' /\ HolderFits' /\ Others(g) /\ gate' = 0
        /\ (WorkersDone => WorkersDone')
    BY <1>1, <2>2, FinishFits
  <2>4. slot' \in {0, slot}
    BY <1>1
  <2> QED
    BY <1>1, <1>4, <1>6, <2>1, <2>3, <2>4, RecoveryKeeps
<1> QED
  BY <1>5, <1>6

-----------------------------------------------------------------------------
(* Shutdown, and all steps together. *)

LEMMA ShutdownKeeps ==
  ASSUME IInv, Close \/ CloseReturns \/ StopAllReturns
  PROVE  IInv'
<1>0. /\ TypeRest /\ TypeManagers /\ TypeJobs /\ ManagersFit /\ JobsFit /\ HolderFits
      /\ Owned /\ Pending
  BY DEF IInv
<1>1. /\ UNCHANGED <<desired, shown, regVars, procVars, slot, jobs, gate, calls, faults>>
      /\ shut' \in {"closing", "stopping", "ended"} /\ closed'
  BY DEF Close, CloseReturns, StopAllReturns, closed
<1>2. TypeRest' /\ TypeManagers' /\ TypeJobs' /\ ManagersFit'
  <2>1. TypeRest' /\ TypeManagers' /\ TypeJobs'
    BY <1>0, <1>1 DEF TypeRest, TypeManagers, TypeJobs, regVars, procVars
  <2> QED
    BY <1>0, <1>1, <2>1 DEF ManagersFit, Unseen, regVars, procVars
<1>3. JobsFit' /\ HolderFits'
  BY <1>0, <1>1 DEF JobsFit, HolderFits, regVars, procVars
<1>4. Owned'
  <2>1. shut' \in {"stopping", "ended"} => WorkersDone'
    BY <1>0, <1>1 DEF Owned, WorkersDone, Close, CloseReturns, StopAllReturns
  <2>2. shut' = "ended" => \A m \in Managers : proc'[m] \in {"none", "dying"}
    BY <1>0, <1>1 DEF Owned, Close, CloseReturns, StopAllReturns, procVars
  <2> QED
    BY <1>0, <1>1, <2>1, <2>2 DEF Owned, Reachable, Swaps, regVars, procVars
<1>5. Pending'
  BY <1>0, <1>1 DEF Pending, regVars, procVars
<1> QED
  BY <1>2, <1>3, <1>4, <1>5 DEF IInv

LEMMA StepKeeps == ASSUME IInv, NEW g \in Goroutines, Step(g) PROVE IInv'
<1>1. CASE gate # g /\ jobs[g] # NoJob /\ Outside(g)
  BY <1>1, OutsideKeeps
<1>2. CASE gate = g /\ Managing(g)
  BY <1>2, CallsAccepted, RemovalKeeps, DisableUnstartedKeeps, RecoverKeeps, CallsLeave, LaunchKeeps
  DEF Managing
<1>3. CASE gate = g /\ Starting(g)
  BY <1>3, CallsLeave, StartsKeep, RejectedKeeps, ProcessesStart, HandshakeKeeps, StartsFail,
     ActivateKeeps
  DEF Starting
<1>4. CASE gate = g /\ Stopping(g)
  BY <1>4, CallsLeave, RemovalKeeps, StopActiveKeeps, ObserveStopKeeps DEF Stopping
<1>5. CASE gate = g /\ Recovering(g)
  BY <1>5, CallsLeave, CrashHandled, RestartOfDisabledKeeps, StartsKeep DEF Recovering
<1>6. CASE gate = g /\ Reloading(g)
  BY <1>6, CallsLeave, StartsKeep, ProcessesStart, SwapStartFailsKeeps, SwapKeeps, SwapEndsKeep
  DEF Reloading
<1> QED
  BY <1>1, <1>2, <1>3, <1>4, <1>5, <1>6 DEF Step

LEMMA StutterKeeps == ASSUME IInv, UNCHANGED vars PROVE IInv'
<1>1. TypeRest' /\ TypeManagers' /\ TypeJobs' /\ ManagersFit'
  BY DEF IInv, vars, TypeRest, TypeManagers, TypeJobs, ManagersFit, Unseen
<1>2. JobsFit' /\ HolderFits' /\ Owned'
  BY DEF IInv, vars, JobsFit, HolderFits, Owned, Reachable, Swaps, WorkersDone
<1>3. Pending'
  BY DEF IInv, vars, Pending, Swaps, CrashTold, RestartComes, StopComes, closed
<1> QED
  BY <1>1, <1>2, <1>3 DEF IInv

LEMMA NextKeeps == IInv /\ [Next]_vars => IInv'
<1> SUFFICES ASSUME IInv, [Next]_vars PROVE IInv'
  OBVIOUS
<1>1. CASE \E kind \in CallKinds : Call(kind)
  BY <1>1, CallKeeps
<1>2. CASE \E g \in Goroutines : Step(g)
  BY <1>2, StepKeeps
<1>3. CASE \E m \in Managers : ProcessExit(m) \/ WatchExit(m) \/ FailRuntime(m) \/ Reaped(m)
                               \/ StopOne(m)
  BY <1>3, ExitKeeps, WatchKeeps, FailKeeps, ReapedKeeps, StopOneKeeps
<1>4. CASE Close \/ CloseReturns \/ StopAllReturns
  BY <1>4, ShutdownKeeps
<1>5. CASE UNCHANGED vars
  BY <1>5, StutterKeeps
<1> QED
  BY <1>1, <1>2, <1>3, <1>4, <1>5 DEF Next

LEMMA InitHolds == Init => IInv
<1> SUFFICES ASSUME Init PROVE IInv
  OBVIOUS
<1>1. /\ 1 \in Managers /\ 1 \in 0..MaxManagers /\ 0 \in 0..MaxGoroutines /\ 0 \in 0..MaxCalls
      /\ 0 \in 0..MaxFaults /\ 0 \in Nat
  BY Bounds DEF Managers
<1>2. TypeRest
  BY <1>1 DEF Init, TypeRest, States
<1>3. TypeManagers
  BY <1>1 DEF Init, TypeManagers, States
<1>4. TypeJobs
  BY DEF Init, TypeJobs
<1>5. \A g \in Goroutines : jobs[g] = NoJob
  BY DEF Init
<1>6. \A m \in Managers : /\ state[m] = IF m = 1 THEN "running" ELSE "stopped"
                          /\ proc[m] = IF m = 1 THEN "live" ELSE "none"
                          /\ crashes[m] = 0
  BY DEF Init
<1>7. ManagersFit
  BY <1>1, <1>6, Bounds DEF Init, ManagersFit, ProcessOf, Unseen
<1>8. JobsFit
  BY <1>5, Nothing, Bounds DEF Init, JobsFit, NoJobFields
<1>9. HolderFits
  BY DEF Init, HolderFits
<1>10. Owned
  BY <1>1, <1>6 DEF Init, Owned, Reachable
<1>11. Pending
  BY <1>6 DEF Init, Pending, closed
<1> QED
  BY <1>2, <1>3, <1>4, <1>7, <1>8, <1>9, <1>10, <1>11 DEF IInv

LEMMA Inductive == Spec => []IInv
<1> QED
  BY InitHolds, NextKeeps, PTL DEF Spec

-----------------------------------------------------------------------------

\* Every variable stays within its type: no manager beyond those the registry
\* created, no crash counted that did not happen (process_handle.go:188-222).
THEOREM LifecycleTyped == Spec => []TypeOK
<1>1. IInv => TypeOK
  BY TypeParts DEF IInv
<1> QED
  BY <1>1, Inductive, PTL

\* Every process the server started can be reached by StopAll, at most the
\* registered runtime is up outside of an operation, and none is left running
\* after the shutdown, whatever reloads, removals and late stops came between
\* (runtime_registry.go:120-184, reload.go:150-205).
THEOREM ProcessesReachable == Spec => []ProcessesOwned
<1>1. IInv => ProcessesOwned
  <2> SUFFICES ASSUME IInv PROVE ProcessesOwned
    OBVIOUS
  <2>1. gate = 0 => \A m : ~Swaps(m)
    BY DEF Swaps
  <2> QED
    BY <2>1 DEF IInv, Owned, ProcessesOwned
<1> QED
  BY <1>1, Inductive, PTL

\* A crash of an enabled plugin always has its recovery under way, and once all
\* work is done a disabled plugin runs nothing and is delivered nothing
\* (crash_recovery.go:64-198, runtime_lifecycle.go:98-109, 152-229).
THEOREM IntentKept == Spec => []IntentFollowed
<1>1. IInv => IntentFollowed
  <2> SUFFICES ASSUME IInv PROVE IntentFollowed
    OBVIOUS
  <2>1. TypeRest /\ Owned /\ Pending
    BY DEF IInv
  <2>2. item # 0 => item \in Managers
    BY <2>1, Bounds DEF TypeRest, Managers
  <2>3. RecoveryPending
    BY <2>1, <2>2 DEF Pending, RecoveryPending, CrashTold, RestartComes
  <2>4. DisabledStays
    <3> SUFFICES ASSUME Idle, desired = "disabled"
                 PROVE  /\ slot = 0
                        /\ \A m \in Managers : state[m] \notin {"starting", "running", "backoff"}
      BY DEF DisabledStays
    <3>1. ~closed /\ gate = 0 /\ \A g \in Goroutines : jobs[g].kind = "none"
      BY Nothing DEF Idle, NoJobFields
    <3>2. ~StopComes /\ \A m : ~RestartComes(m) /\ ~Swaps(m)
      BY <3>1 DEF StopComes, RestartComes, Swaps
    <3>3. slot = 0 /\ (item # 0 => state[item] \notin {"starting", "running"})
      BY <2>1, <3>1, <3>2 DEF Pending
    <3>4. \A m \in Managers : m # 0
      BY Bounds
    <3> QED
      BY <2>1, <3>1, <3>2, <3>3, <3>4 DEF Owned, Pending
  <2> QED
    BY <2>3, <2>4 DEF IntentFollowed
<1> QED
  BY <1>1, Inductive, PTL

=============================================================================
