---------------------------- MODULE RenderWorker ----------------------------
(***************************************************************************)
(* The rendering of images (render.Worker and the chromiumRunner it owns): *)
(* requests that are admitted, wait for a slot and render in a tab of the  *)
(* one browser their runner shares; a refresh that takes every slot to     *)
(* replace the runner; Close, which waits for the requests.  The browser   *)
(* is started by the first request that needs it, closed by one that fails *)
(* in it, and may end by itself.                                           *)
(*                                                                         *)
(* The page, the browser and its files are outside the server: to render,  *)
(* to start a browser and to remove its profile may fail.  A render always *)
(* ends, by its time limit at the latest.                                  *)
(***************************************************************************)
EXTENDS Naturals, FiniteSets

CONSTANTS
  Requests,       \* calls of Render that need a browser
  WorkerCounts,   \* the configurations: how many slots
  QueueMaxLength, \* how many requests may wait for one
  MaxRunners,     \* bound: runners made, the first one included
  Closers,        \* calls of Close
  None

\* The requests are finitely many, a worker has a number of slots, and None
\* and the refresh are nobody.
RenderAssumption ==
  /\ IsFiniteSet(Requests)
  /\ WorkerCounts \subseteq Nat
  /\ None \notin Requests /\ None \notin Closers /\ None # "refresh"
  /\ "refresh" \notin Closers

VARIABLES
  workerCount,    \* how many slots there are
  closed,         \* Close was called: the context of the worker is cancelled
  closeComplete,
  runner,         \* the current runner, 0 for none
  runners,        \* the chromiumRunners: [closed, mu, browser, profile]
  activeRequests, \* and the count of the wait group
  pc,             \* of each request
  expired,        \* the requests whose context is cancelled or timed out
  using,          \* the runner a request has read
  tab,            \* the browser it renders in, named by who started it
  watched,        \* requests whose watcher of the startup is to cancel it
  running,        \* the browsers that run
  disk,           \* the profiles on the disk
  lifecycleMu,    \* who has it
  refresh,        \* the refresh under way: [phase, slots, old]
  closer          \* the calls of Close

workerVars == <<workerCount, closed, closeComplete, runner, activeRequests>>
browserVars == <<runners, watched, running, disk>>
callVars == <<lifecycleMu, refresh, closer>>
vars == <<workerVars, pc, expired, using, tab, browserVars, callVars>>

NewRunner == [closed |-> FALSE, mu |-> None, browser |-> None, profile |-> None]

NoRefresh == [phase |-> "idle", slots |-> 0, old |-> 0]

\* Requests between reserveSlot and releaseSlot, and those with a slot.
Inside == {r \in Requests : pc[r] \notin {"idle", "returned"}}
Slotted == {r \in Inside : pc[r] \notin {"waiting", "released"}}

SlotFree == Cardinality(Slotted) + refresh.slots < workerCount

\* The context of a render: the one of its caller with the time limit, and
\* the one of the worker.  It ends with the request at the latest.
Done(r) == closed \/ r \in expired \/ pc[r] = "returned"

Goto(r, place) == pc' = [pc EXCEPT ![r] = place]

-----------------------------------------------------------------------------
(* The worker: Acquire, and the release it returns. *)

\* reserveSlot.
Reserve(r) ==
  LET ok == ~closed /\ activeRequests < workerCount + QueueMaxLength IN
  /\ pc[r] = "idle"
  /\ Goto(r, IF ok THEN "waiting" ELSE "returned")
  /\ activeRequests' = IF ok THEN activeRequests + 1 ELSE activeRequests
  /\ UNCHANGED <<workerCount, closed, closeComplete, runner, expired, using,
                 tab, browserVars, callVars>>

\* The caller gives up, the wait is over or the time limit is reached.
Expire(r) ==
  /\ pc[r] \in {"waiting", "taken", "entering", "starting", "rendering"}
  /\ expired' = expired \cup {r}
  /\ expired' # expired
  /\ UNCHANGED <<workerVars, pc, using, tab, browserVars, callVars>>

\* The select: the slot, or the end of one of the contexts.
TakeSlot(r) ==
  /\ pc[r] = "waiting"
  /\ SlotFree
  /\ Goto(r, "taken")
  /\ UNCHANGED <<workerVars, expired, using, tab, browserVars, callVars>>

GiveUp(r) ==
  /\ pc[r] = "waiting"
  /\ Done(r)
  /\ Goto(r, "released")
  /\ UNCHANGED <<workerVars, expired, using, tab, browserVars, callVars>>

\* The contexts are looked at again with the slot in hand.
CheckTaken(r) ==
  /\ pc[r] = "taken"
  /\ Goto(r, IF Done(r) THEN "leaving" ELSE "holding")
  /\ UNCHANGED <<workerVars, expired, using, tab, browserVars, callVars>>

\* The slot is given back, then the place of the request.
FreeSlot(r) ==
  /\ pc[r] = "leaving"
  /\ Goto(r, "released")
  /\ UNCHANGED <<workerVars, expired, using, tab, browserVars, callVars>>

ReleaseSlot(r) ==
  /\ pc[r] = "released"
  /\ Goto(r, "returned")
  /\ activeRequests' = activeRequests - 1
  /\ expired' = expired \ {r}
  /\ using' = [using EXCEPT ![r] = 0]
  /\ tab' = [tab EXCEPT ![r] = None]
  /\ UNCHANGED <<workerCount, closed, closeComplete, runner, browserVars,
                 callVars>>

-----------------------------------------------------------------------------
(* One render: the steps of renderInternal and of chromiumRunner.Render. *)

\* A result found in the cache, a template that fails, or no runner.
WithoutBrowser(r) ==
  /\ pc[r] = "holding"
  /\ Goto(r, "leaving")
  /\ UNCHANGED <<workerVars, expired, using, tab, browserVars, callVars>>

CurrentRunner(r) ==
  /\ pc[r] = "holding"
  /\ runner # 0
  /\ Goto(r, "entering")
  /\ using' = [using EXCEPT ![r] = runner]
  /\ UNCHANGED <<workerVars, expired, tab, browserVars, callVars>>

\* closeLocked of runner k; the profile may resist.
CloseLocked(k, isClosed, removed) ==
  LET old == runners[k] IN
  /\ runners' = [runners EXCEPT ![k] =
        [closed |-> isClosed, mu |-> None, browser |-> None,
         profile |-> IF removed THEN None ELSE old.profile]]
  /\ running' = running \ {old.browser}
  /\ disk' = IF removed THEN disk \ {old.profile} ELSE disk

\* browserContext: the runner is closed or the request late, there is a
\* browser, or this request starts one, on a new profile.  The profile of an
\* earlier browser that is still there has to go first.
RefuseBrowser(r) ==
  LET k == using[r] IN
  /\ pc[r] = "entering"
  /\ runners[k].mu = None
  /\ \/ runners[k].closed \/ Done(r)
     \/ runners[k].browser = None
  /\ Goto(r, "leaving")
  /\ UNCHANGED <<workerVars, expired, using, tab, browserVars, callVars>>

ShareBrowser(r) ==
  LET k == using[r] IN
  /\ pc[r] = "entering"
  /\ runners[k].mu = None
  /\ ~runners[k].closed /\ ~Done(r)
  /\ runners[k].browser # None
  /\ Goto(r, "rendering")
  /\ tab' = [tab EXCEPT ![r] = runners[k].browser]
  /\ UNCHANGED <<workerVars, expired, using, browserVars, callVars>>

StartBrowser(r) ==
  LET k == using[r] IN
  /\ pc[r] = "entering"
  /\ runners[k].mu = None
  /\ ~runners[k].closed /\ ~Done(r)
  /\ runners[k].browser = None
  /\ Goto(r, "starting")
  /\ tab' = [tab EXCEPT ![r] = r]
  /\ runners' = [runners EXCEPT ![k].mu = r, ![k].browser = r, ![k].profile = r]
  /\ running' = running \cup {r}
  /\ watched' = watched \cup {r}
  /\ disk' = (disk \ {runners[k].profile}) \cup {r}
  /\ UNCHANGED <<workerVars, expired, using, callVars>>

\* The goroutine beside the startup, when it finds the context ended: it may
\* come to cancel the browser only when the startup has succeeded, or find
\* both and choose.
CancelStartup(r) ==
  /\ r \in watched
  /\ Done(r)
  /\ watched' = watched \ {r}
  /\ running' = running \ {r}
  /\ UNCHANGED <<workerVars, pc, expired, using, tab, runners, disk, callVars>>

WatcherEnds(r) ==
  /\ r \in watched
  /\ pc[r] # "starting"
  /\ watched' = watched \ {r}
  /\ UNCHANGED <<workerVars, pc, expired, using, tab, runners, running, disk,
                 callVars>>

StartSucceeds(r) ==
  LET k == using[r] IN
  /\ pc[r] = "starting"
  /\ r \in running
  /\ Goto(r, "rendering")
  /\ runners' = [runners EXCEPT ![k].mu = None]
  /\ UNCHANGED <<workerVars, expired, using, tab, watched, running, disk,
                 callVars>>

StartFails(r) ==
  LET k == using[r] IN
  /\ pc[r] = "starting"
  /\ Goto(r, "leaving")
  /\ watched' = watched \ {r}
  /\ \E removed \in BOOLEAN : CloseLocked(k, FALSE, removed)
  /\ UNCHANGED <<workerVars, expired, using, tab, callVars>>

\* A browser that has been handed out ends by itself.
BrowserDies(b) ==
  /\ b \in running
  /\ pc[b] # "starting"
  /\ running' = running \ {b}
  /\ UNCHANGED <<workerVars, pc, expired, using, tab, runners, watched, disk,
                 callVars>>

\* The actions of the page are over: done, failed because the context of the
\* request ended, or failed in any other way.
Rendered(r) ==
  /\ pc[r] = "rendering"
  /\ \/ (tab[r] \in running \/ Done(r)) /\ Goto(r, "leaving")
     \/ ~Done(r) /\ Goto(r, "resetting")
  /\ UNCHANGED <<workerVars, expired, using, tab, browserVars, callVars>>

\* resetBrowser closes the browser the runner has now.
ResetBrowser(r) ==
  LET k == using[r] IN
  /\ pc[r] = "resetting"
  /\ runners[k].mu = None
  /\ Goto(r, "leaving")
  /\ \E removed \in BOOLEAN : CloseLocked(k, runners[k].closed, removed)
  /\ UNCHANGED <<workerVars, expired, using, tab, watched, callVars>>

-----------------------------------------------------------------------------
(* RefreshChromiumRunner. *)

BeginRefresh ==
  /\ refresh.phase = "idle"
  /\ lifecycleMu = None
  /\ ~closed /\ runner # 0 /\ Cardinality(DOMAIN runners) < MaxRunners
  /\ lifecycleMu' = "refresh"
  /\ refresh' = [phase |-> "taking", slots |-> 0, old |-> runner]
  /\ UNCHANGED <<workerVars, pc, expired, using, tab, browserVars, closer>>

\* Mutant: the runner is replaced before all slots are taken.
TakeAllSlotsMutant ==
  /\ refresh.phase = "taking"
  /\ SlotFree
  /\ refresh' = [refresh EXCEPT !.phase = "swapping", !.slots = @ + 1]
  /\ UNCHANGED <<workerVars, pc, expired, using, tab, browserVars,
                 lifecycleMu, closer>>

\* acquireAllWorkerSlots.
TakeAllSlots ==
  /\ refresh.phase = "taking"
  /\ IF refresh.slots = workerCount
     THEN refresh' = [refresh EXCEPT !.phase = "swapping"]
     ELSE SlotFree /\ refresh' = [refresh EXCEPT !.slots = @ + 1]
  /\ UNCHANGED <<workerVars, pc, expired, using, tab, browserVars,
                 lifecycleMu, closer>>

SwapRunner ==
  LET k == Cardinality(DOMAIN runners) + 1 IN
  /\ refresh.phase = "swapping"
  /\ IF closed
     THEN /\ refresh' = [refresh EXCEPT !.phase = "giving"]
          /\ UNCHANGED <<runner, runners>>
     ELSE /\ refresh' = [refresh EXCEPT !.phase = "closing"]
          /\ runner' = k
          /\ runners' = [j \in DOMAIN runners \cup {k} |->
                           IF j = k THEN NewRunner ELSE runners[j]]
  /\ UNCHANGED <<workerCount, closed, closeComplete, activeRequests, pc,
                 expired, using, tab, watched, running, disk, lifecycleMu,
                 closer>>

CloseOldRunner ==
  /\ refresh.phase = "closing"
  /\ runners[refresh.old].mu = None
  /\ \E removed \in BOOLEAN : CloseLocked(refresh.old, TRUE, removed)
  /\ refresh' = [refresh EXCEPT !.phase = "giving"]
  /\ UNCHANGED <<workerVars, pc, expired, using, tab, watched, lifecycleMu,
                 closer>>

GiveSlotsBack ==
  /\ refresh.phase = "giving"
  /\ IF refresh.slots > 0
     THEN /\ refresh' = [refresh EXCEPT !.slots = @ - 1]
          /\ UNCHANGED lifecycleMu
     ELSE refresh' = NoRefresh /\ lifecycleMu' = None
  /\ UNCHANGED <<workerVars, pc, expired, using, tab, browserVars, closer>>

-----------------------------------------------------------------------------
(* Close. *)

CallClose(c) ==
  /\ closer[c] = "idle"
  /\ closer' = [closer EXCEPT ![c] = "called"]
  /\ closed' = TRUE
  /\ UNCHANGED <<workerCount, closeComplete, runner, activeRequests, pc,
                 expired, using, tab, browserVars, lifecycleMu, refresh>>

BeginClose(c) ==
  /\ closer[c] = "called"
  /\ lifecycleMu = None
  /\ IF closeComplete
     THEN closer' = [closer EXCEPT ![c] = "returned"] /\ UNCHANGED lifecycleMu
     ELSE closer' = [closer EXCEPT ![c] = "waiting"] /\ lifecycleMu' = c
  /\ UNCHANGED <<workerVars, pc, expired, using, tab, browserVars, refresh>>

\* The requests are over and the runner, which nobody can read any more, is
\* closed.
CloseRunner(c) ==
  /\ closer[c] = "waiting"
  /\ activeRequests = 0
  /\ closer' = [closer EXCEPT ![c] = "returned"]
  /\ lifecycleMu' = None
  /\ closeComplete' = TRUE
  /\ runner' = 0
  /\ \E removed \in BOOLEAN : CloseLocked(runner, TRUE, removed)
  /\ UNCHANGED <<workerCount, closed, activeRequests, pc, expired, using, tab,
                 watched, refresh>>

-----------------------------------------------------------------------------
Init ==
  /\ workerCount \in WorkerCounts
  /\ closed = FALSE /\ closeComplete = FALSE
  /\ runner = 1 /\ runners = [k \in {1} |-> NewRunner]
  /\ activeRequests = 0
  /\ pc = [r \in Requests |-> "idle"]
  /\ expired = {} /\ watched = {} /\ running = {} /\ disk = {}
  /\ using = [r \in Requests |-> 0]
  /\ tab = [r \in Requests |-> None]
  /\ lifecycleMu = None
  /\ refresh = NoRefresh
  /\ closer = [c \in Closers |-> "idle"]

RequestStep(r) ==
  \/ TakeSlot(r) \/ GiveUp(r) \/ CheckTaken(r) \/ FreeSlot(r) \/ ReleaseSlot(r)
  \/ WithoutBrowser(r) \/ CurrentRunner(r) \/ RefuseBrowser(r)
  \/ ShareBrowser(r) \/ StartBrowser(r) \/ CancelStartup(r)
  \/ WatcherEnds(r) \/ StartSucceeds(r) \/ StartFails(r) \/ Rendered(r)
  \/ ResetBrowser(r)

RefreshStep == TakeAllSlots \/ SwapRunner \/ CloseOldRunner \/ GiveSlotsBack

CloseStep(c) == BeginClose(c) \/ CloseRunner(c)

\* What the goroutines of the server do once they are called.
Progress ==
  \/ \E r \in Requests : RequestStep(r)
  \/ RefreshStep
  \/ \E c \in Closers : CloseStep(c)

Next ==
  \/ Progress
  \/ \E r \in Requests : Reserve(r) \/ Expire(r) \/ BrowserDies(r)
  \/ BeginRefresh
  \/ \E c \in Closers : CallClose(c)

Spec == Init /\ [][Next]_vars /\ WF_vars(Progress)

-----------------------------------------------------------------------------
(* Properties. *)

\* The requests and the slots are counted: no request is forgotten by the
\* count Close waits for, and no slot is lost or given twice.
SlotsCounted ==
  /\ activeRequests = Cardinality(Inside)
  /\ Cardinality(Slotted) + refresh.slots <= workerCount

\* At most one browser runs: it is the one of the runner that is current or
\* being replaced, and its profile is there; a profile on the disk is known
\* to a runner; a request has to do with no runner but the current one, which
\* is open; and when Close has returned, nothing runs and no request is left.
OneBrowser ==
  /\ Cardinality(running) <= 1
  /\ \A b \in running : b \in disk /\
       \E k \in DOMAIN runners : /\ runners[k].browser = b
                                 /\ ~runners[k].closed
                                 /\ k \in {runner, refresh.old}
  /\ disk \subseteq {runners[k].profile : k \in DOMAIN runners}
  /\ \A r \in Requests :
       pc[r] \in {"entering", "starting", "rendering", "resetting"} =>
         using[r] = runner /\ ~runners[runner].closed
  /\ closeComplete => running = {} /\ Inside = {}

\* The two together.
RendersSound == SlotsCounted /\ OneBrowser

\* Every request returns, and so do every refresh and every Close.
AllReturned ==
  /\ Inside = {} /\ refresh.phase = "idle"
  /\ \A c \in Closers : closer[c] \in {"idle", "returned"}

=============================================================================
