---------------------------- MODULE Conversation ----------------------------
(***************************************************************************)
(* The registry of conversations (bot/conversation/registry.go) with the   *)
(* ingress that routes messages into it and the deliveries whose actions   *)
(* call it.  A plugin that handles a message may wait for the next one of  *)
(* the same actor (or of anybody in the chat); that message then goes to   *)
(* the waiting process instead of the ordinary flow.  A session ends by    *)
(* its timer, by the plugin, with its process, by a failed or abandoned    *)
(* event, or when the registry is closed.                                  *)
(*                                                                         *)
(* Every critical section of Registry.mu is one action.  Time is relative: *)
(* an instant is what is left until it, 0 when it has passed.  All         *)
(* messages are of one chat; a route is an actor, or Everybody for the     *)
(* conversation scope.                                                     *)
(***************************************************************************)
EXTENDS Naturals, FiniteSets

CONSTANTS
  Messages,      \* numbered in the order they come
  ActorOf,       \* the actor of each message
  Everybody,     \* the route of the conversation scope
  Owners,        \* plugin processes, numbered in the order they start
  PluginOf,      \* the plugin of each process
  MaxSessions,   \* bound: the sessions that are ever opened
  MaxTotal,      \* MaxTotal and MaxPerPlugin of the registry
  MaxPerPlugin,
  Timeouts,      \* the waiting times a plugin asks for
  MaxLifetime,   \* the absolute lifetime of a session
  PluginsAwait,  \* plugins detach no event while their session.wait is unanswered
  None

VARIABLES
  proc,      \* of each process: "absent", "up", "stopping" or "dead" (Owner.Done
             \* closed)
  stage,     \* how far each message is
  owner,     \* the process a message is delivered to
  session,   \* event.Session of a message
  asked,     \* whether a session.wait of a delivery is unanswered: "no" or "pending"
  entries,   \* Registry.entries
  routes,    \* Registry.routes
  owned,     \* Registry.owners
  parents,   \* Registry.parents, by the message whose request waits
  fired,     \* callbacks of each session's timers that wait for Registry.mu
  watching,  \* processes with a watcher goroutine
  closed,    \* Registry.closed
  returned,  \* Registry.Close has returned
  issued     \* how many session ids were given out

vars == <<proc, stage, owner, session, asked, entries, routes, owned, parents,
          fired, watching, closed, returned, issued>>

messageVars == <<stage, owner, session, asked>>
registryVars == <<entries, routes, owned, parents, fired>>
closeVars == <<closed, returned>>

Sessions == 1 .. MaxSessions

Stages == {"new", "matched", "queued", "open", "detaching", "background",
           "succeeded", "failed", "done"}
Phases == {"registered", "waiting", "handling"}
Routes == {ActorOf[m] : m \in Messages} \cup {Everybody}
Plugins == {PluginOf[o] : o \in Owners}

Entries ==
  [phase : Phases, owner : Owners, route : Routes, parent : Messages \cup {None},
   input : Messages \cup {None}, expires : 0 .. MaxLifetime,
   absolute : 0 .. MaxLifetime, due : 0 .. MaxLifetime]

\* The time of a wait is positive and within the lifetime of a session
\* (MaxTimeout and MaxLifetime), and None is none of the values it stands
\* beside.
ConversationAssumption ==
  /\ MaxLifetime \in Nat \ {0} /\ Timeouts \subseteq 1 .. MaxLifetime
  /\ MaxSessions \in Nat /\ MaxTotal \in Nat /\ MaxPerPlugin \in Nat
  /\ None \notin Messages \cup Sessions \cup Entries

Init ==
  /\ proc = [o \in Owners |-> "absent"]
  /\ stage = [m \in Messages |-> "new"]
  /\ owner = [m \in Messages |-> None]
  /\ session = [m \in Messages |-> None]
  /\ asked = [m \in Messages |-> "no"]
  /\ entries = [s \in Sessions |-> None]
  /\ routes = [r \in Routes |-> None]
  /\ owned = [o \in Owners |-> {}]
  /\ parents = [m \in Messages |-> {}]
  /\ fired = [s \in Sessions |-> 0]
  /\ watching = {}
  /\ closed = FALSE
  /\ returned = FALSE
  /\ issued = 0

Goto(m, st) == stage' = [stage EXCEPT ![m] = st]

\* A message that needs nothing more; its delivery and a request it left are
\* forgotten.
Leave(m) ==
  /\ Goto(m, "done")
  /\ owner' = [owner EXCEPT ![m] = None]
  /\ session' = [session EXCEPT ![m] = None]
  /\ asked' = [asked EXCEPT ![m] = "no"]

Alive(o) == proc[o] # "dead"

Live == {s \in Sessions : entries[s] # None}

CountOf(p) == Cardinality({s \in Live : PluginOf[entries[s].owner] = p})

\* removeLocked of every session of a set.
Forget(gone) ==
  /\ entries' = [s \in Sessions |-> IF s \in gone THEN None ELSE entries[s]]
  /\ routes' = [r \in Routes |-> IF routes[r] \in gone THEN None ELSE routes[r]]
  /\ owned' = [o \in Owners |-> owned[o] \ gone]
  /\ parents' = [m \in Messages |-> parents[m] \ gone]

\* An armed timer is stopped; a callback that has fired stays.
Remove(gone) == Forget(gone) /\ UNCHANGED fired

-----------------------------------------------------------------------------
(* The ingress: routeSessionInput. *)

\* matchingLocked: the sessions that wait for the message; the user scope
\* comes before the conversation scope.
Waits(s) ==
  /\ s # None
  /\ entries[s].phase = "waiting"
  /\ Alive(entries[s].owner)
  /\ entries[s].expires > 0

Matching(m) ==
  IF Waits(routes[ActorOf[m]]) THEN routes[ActorOf[m]]
  ELSE IF Waits(routes[Everybody]) THEN routes[Everybody] ELSE None

\* The lane of the chat handles one message at a time (ingress_lanes.go).
InTurn(m) ==
  \A earlier \in Messages : earlier < m => stage[earlier] \notin {"new", "matched"}

\* HasWaiting, before the chat policy is asked.
Match(m) ==
  /\ stage[m] = "new"
  /\ InTurn(m)
  /\ ~closed
  /\ Matching(m) # None
  /\ Goto(m, "matched")
  /\ UNCHANGED <<proc, owner, session, asked, registryVars, watching, closeVars,
                 issued>>

\* The message of a blocked actor, or one no queue takes, is consumed; the
\* session goes on waiting.
Consume(m) ==
  /\ stage[m] = "matched"
  /\ Leave(m)
  /\ UNCHANGED <<proc, registryVars, watching, closeVars,
                 issued>>

\* TryRoute: the queue of the waiting process takes the message.
Route(m) ==
  LET s == Matching(m) IN
  /\ stage[m] = "matched"
  /\ ~closed
  /\ s # None
  /\ owner' = [owner EXCEPT ![m] = entries[s].owner]
  /\ session' = [session EXCEPT ![m] = s]
  /\ entries' = [entries EXCEPT ![s].phase = "handling", ![s].input = m]
  /\ Goto(m, "queued")
  /\ UNCHANGED <<proc, asked, routes, owned, parents, fired, watching, closeVars,
                 issued>>

\* Without a session that still waits, the message takes the ordinary flow.
Dispatch(m, o) ==
  /\ stage[m] \in {"new", "matched"}
  /\ InTurn(m)
  /\ closed \/ Matching(m) = None
  /\ proc[o] = "up"
  /\ owner' = [owner EXCEPT ![m] = o]
  /\ Goto(m, "queued")
  /\ UNCHANGED <<proc, session, asked, registryVars, watching, closeVars,
                 issued>>

-----------------------------------------------------------------------------
(* A delivery: BeginInput, session.wait, session.finish, CompleteParent. *)

InputOf(m) ==
  LET s == session[m] IN
  /\ ~closed
  /\ s \in Live
  /\ entries[s].phase = "handling"
  /\ entries[s].input = m
  /\ Alive(owner[m])
  /\ entries[s].expires > 0

\* Mutant: the timer of the waiting time is left running.
BeginInputMutant(m) ==
  /\ InputOf(m)
  /\ UNCHANGED registryVars

\* From here on only the absolute lifetime ends the session.
BeginInput(m) ==
  LET s == session[m] IN
  /\ InputOf(m)
  /\ entries' = [entries EXCEPT ![s].due = entries[s].absolute]
  /\ UNCHANGED <<routes, owned, parents, fired>>

\* The Before hook agrees, and the runtime registers the event.
Begin(m) ==
  /\ stage[m] = "queued"
  /\ proc[owner[m]] = "up"
  /\ IF session[m] = None THEN UNCHANGED registryVars ELSE BeginInput(m)
  /\ Goto(m, "open")
  /\ UNCHANGED <<proc, owner, session, asked, watching, closeVars, issued>>

\* The hook agrees, and the runtime is found stopping.
BeginRefused(m) ==
  /\ stage[m] = "queued"
  /\ proc[owner[m]] = "stopping"
  /\ IF session[m] = None THEN UNCHANGED registryVars ELSE BeginInput(m)
  /\ Leave(m)
  /\ UNCHANGED <<proc, watching, closeVars, issued>>

\* The process is gone, or the session does not wait for this input.
Skip(m) ==
  /\ stage[m] = "queued"
  /\ \/ proc[owner[m]] = "dead"
     \/ session[m] # None /\ ~InputOf(m)
  /\ Leave(m)
  /\ UNCHANGED <<proc, registryVars, watching, closeVars,
                 issued>>

\* The runtime reads session.wait of an event in the foreground and starts
\* a goroutine for it.  A delivery asks as often as it likes, one request
\* after the other: the goroutines of two that overlap meet only in the
\* critical section of Wait, which is one action here.
AskWait(m) ==
  /\ stage[m] = "open"
  /\ Alive(owner[m])
  /\ asked[m] # "pending"
  /\ asked' = [asked EXCEPT ![m] = "pending"]
  /\ UNCHANGED <<proc, stage, owner, session, registryVars, watching, closeVars,
                 issued>>

\* The contexts that are not done.
Running(m) == stage[m] \in {"open", "detaching", "background"}

Answered(m) == asked' = [asked EXCEPT ![m] = "no"]

RouteOf(m, scope) == IF scope = "user" THEN ActorOf[m] ELSE Everybody

Minimum(a, b) == IF a < b THEN a ELSE b

\* Wait opens a session.  An older one of the plugin on this route is
\* replaced; it does not count against the limits.
WaitNew(m, s, scope, timeout) ==
  LET o == owner[m]
      r == RouteOf(m, scope)
      old == routes[r]
      gone == {old} \ {None} IN
  /\ asked[m] = "pending"
  /\ Running(m)
  /\ ~closed
  /\ Alive(o)
  /\ s = issued + 1
  /\ old # None => PluginOf[entries[old].owner] = PluginOf[o]
  /\ Cardinality(Live \ gone) < MaxTotal
  /\ CountOf(PluginOf[o]) - Cardinality(gone) < MaxPerPlugin
  /\ entries' = [[x \in Sessions |-> IF x \in gone THEN None ELSE entries[x]]
                   EXCEPT ![s] = [phase |-> "registered", owner |-> o, route |-> r,
                                  parent |-> m, input |-> None,
                                  expires |-> timeout, absolute |-> MaxLifetime,
                                  due |-> timeout]]
  /\ routes' = [routes EXCEPT ![r] = s]
  /\ owned' = [x \in Owners |-> (owned[x] \ gone) \cup (IF x = o THEN {s} ELSE {})]
  /\ parents' = [x \in Messages |-> (parents[x] \ gone) \cup (IF x = m THEN {s} ELSE {})]
  /\ watching' = watching \cup {o}
  /\ issued' = s
  /\ Answered(m)
  /\ UNCHANGED <<proc, stage, owner, session, fired, closeVars>>

\* Wait extends the session whose input is being handled, never beyond its
\* absolute lifetime.
WaitAgain(m, timeout) ==
  LET s == session[m]
      left == Minimum(timeout, entries[s].absolute) IN
  /\ asked[m] = "pending"
  /\ Running(m)
  /\ ~closed
  /\ Alive(owner[m])
  /\ s \in Live
  /\ entries[s].owner = owner[m]
  /\ entries[s].phase = "handling"
  /\ entries[s].input = m
  /\ entries[s].absolute > 0
  /\ entries' = [entries EXCEPT ![s].expires = left, ![s].due = left, ![s].parent = m]
  /\ parents' = [x \in Messages |-> (parents[x] \ {s}) \cup (IF x = m THEN {s} ELSE {})]
  /\ Answered(m)
  /\ UNCHANGED <<proc, stage, owner, session, routes, owned, fired, watching, closeVars,
                 issued>>

\* Any refusal, among them that of a context that is done.
WaitRefused(m) ==
  /\ asked[m] = "pending"
  /\ Answered(m)
  /\ UNCHANGED <<proc, stage, owner, session, registryVars, watching, closeVars,
                 issued>>

\* session.finish of a running event of the same process.
Finish(m, s) ==
  /\ Running(m)
  /\ s \in Live
  /\ entries[s].owner = owner[m]
  /\ Remove({s})
  /\ UNCHANGED <<proc, messageVars, watching, closeVars, issued>>

\* A terminal frame, which the runtime accepts when every action has been
\* answered.
Succeed(m) ==
  /\ stage[m] = "open"
  /\ Alive(owner[m])
  /\ asked[m] # "pending"
  /\ Goto(m, "succeeded")
  /\ UNCHANGED <<proc, owner, session, asked, registryVars, watching, closeVars,
                 issued>>

\* An error, a timeout, a cancellation or the end of the process.
Fail(m) ==
  /\ stage[m] = "open"
  /\ Goto(m, "failed")
  /\ UNCHANGED <<proc, owner, session, asked, registryVars, watching, closeVars,
                 issued>>

\* event.detach: the delivery ends, the context of the event goes on.
Detach(m) ==
  /\ stage[m] = "open"
  /\ Alive(owner[m])
  /\ PluginsAwait => asked[m] # "pending"
  /\ Goto(m, "detaching")
  /\ UNCHANGED <<proc, owner, session, asked, registryVars, watching, closeVars,
                 issued>>

\* The end of an event in the background.
EndBackground(m) ==
  /\ \/ stage[m] = "detaching" /\ Goto(m, "succeeded") /\ UNCHANGED <<owner, session, asked>>
     \/ stage[m] = "background" /\ Leave(m)
  /\ UNCHANGED <<proc, registryVars, watching, closeVars, issued>>

\* Mutant: the session of an answer that was not extended stays.
AbandonedMutant(m) == {}

\* The session whose answer was handled without another wait.
Abandoned(m) ==
  {s \in Live : /\ s = session[m]
                /\ entries[s].owner = owner[m]
                /\ entries[s].phase = "handling"
                /\ entries[s].input = m
                /\ entries[s].parent = None}

\* CompleteParent, after the delivery has returned.
CompleteParent(m) ==
  LET ok == stage[m] # "failed" /\ Alive(owner[m])
      gone == (IF ok THEN {} ELSE parents[m]) \cup Abandoned(m)
      kept == parents[m] \ gone IN
  /\ stage[m] \in {"succeeded", "failed", "detaching"}
  /\ entries' = [s \in Sessions |->
                   IF s \in gone THEN None
                   ELSE IF s \in kept
                     THEN [entries[s] EXCEPT !.phase = "waiting", !.parent = None]
                   ELSE entries[s]]
  /\ routes' = [r \in Routes |-> IF routes[r] \in gone THEN None ELSE routes[r]]
  /\ owned' = [o \in Owners |-> owned[o] \ gone]
  /\ parents' = [x \in Messages |-> IF x = m THEN {} ELSE parents[x] \ gone]
  /\ IF stage[m] = "detaching"
     THEN Goto(m, "background") /\ UNCHANGED <<owner, session, asked>>
     ELSE Leave(m)
  /\ UNCHANGED <<proc, fired, watching, closeVars, issued>>

-----------------------------------------------------------------------------
(* Timers, the watchers of the processes, and Close. *)

\* expire: nothing is left to do when the session has ended meanwhile or its
\* timer was set anew.
Expire(s) ==
  /\ fired[s] > 0
  /\ fired' = [fired EXCEPT ![s] = @ - 1]
  /\ IF s \in Live /\ ~closed /\ entries[s].due = 0
     THEN Forget({s})
     ELSE UNCHANGED <<entries, routes, owned, parents>>
  /\ UNCHANGED <<proc, messageVars, watching, closeVars, issued>>

\* closeOwner, run by the watcher of a process.
CloseOwner(o) ==
  /\ o \in watching
  /\ ~Alive(o)
  /\ Remove(owned[o])
  /\ watching' = watching \ {o}
  /\ UNCHANGED <<proc, messageVars, closeVars, issued>>

\* A watcher that finds the registry closed.
Unwatch(o) ==
  /\ o \in watching
  /\ closed
  /\ watching' = watching \ {o}
  /\ UNCHANGED <<proc, messageVars, registryVars, closeVars, issued>>

Close ==
  /\ ~closed
  /\ closed' = TRUE
  /\ Remove(Live)
  /\ UNCHANGED <<proc, messageVars, watching, returned, issued>>

\* workers.Wait
CloseReturn ==
  /\ closed
  /\ ~returned
  /\ \A s \in Live : entries[s].due = 0
  /\ \A s \in Sessions : fired[s] = 0
  /\ watching = {}
  /\ returned' = TRUE
  /\ UNCHANGED <<proc, messageVars, registryVars, watching, closed, issued>>

-----------------------------------------------------------------------------
(* The processes and time. *)

\* A plugin has one process at a time.
StartProcess(o) ==
  /\ proc[o] = "absent"
  /\ \A older \in Owners :
       older < o /\ PluginOf[older] = PluginOf[o] => proc[older] = "dead"
  /\ proc' = [proc EXCEPT ![o] = "up"]
  /\ UNCHANGED <<messageVars, registryVars, watching, closeVars, issued>>

StopProcess(o) ==
  /\ proc[o] = "up"
  /\ proc' = [proc EXCEPT ![o] = "stopping"]
  /\ UNCHANGED <<messageVars, registryVars, watching, closeVars, issued>>

Die(o) ==
  /\ proc[o] \in {"up", "stopping"}
  /\ proc' = [proc EXCEPT ![o] = "dead"]
  /\ UNCHANGED <<messageVars, registryVars, watching, closeVars, issued>>

Sooner(left) == IF left > 0 THEN left - 1 ELSE 0

\* A timer that runs out starts its callback.
Tick ==
  /\ Live # {}
  /\ entries' = [s \in Sessions |->
       IF s \in Live
       THEN [entries[s] EXCEPT !.expires = Sooner(@), !.absolute = Sooner(@),
                               !.due = Sooner(@)]
       ELSE None]
  /\ fired' = [s \in Sessions |->
       IF s \in Live /\ entries[s].due = 1 THEN fired[s] + 1 ELSE fired[s]]
  /\ UNCHANGED <<proc, messageVars, routes, owned, parents, watching, closeVars,
                 issued>>

Scopes == {"user", "conversation"}

Intake(m) == Match(m) \/ Consume(m) \/ Route(m) \/ \E o \in Owners : Dispatch(m, o)

Deliver(m) == Begin(m) \/ BeginRefused(m) \/ Skip(m)

Act(m) ==
  \/ AskWait(m)
  \/ \E s \in Sessions, scope \in Scopes, t \in Timeouts :
       WaitNew(m, s, scope, t)
  \/ \E t \in Timeouts : WaitAgain(m, t)
  \/ WaitRefused(m)
  \/ \E s \in Sessions : Finish(m, s)
  \/ Succeed(m) \/ Fail(m) \/ Detach(m) \/ EndBackground(m)

Next ==
  \/ \E m \in Messages : Intake(m) \/ Deliver(m) \/ Act(m) \/ CompleteParent(m)
  \/ \E s \in Sessions : Expire(s)
  \/ \E o \in Owners : CloseOwner(o) \/ Unwatch(o) \/ StartProcess(o)
                        \/ StopProcess(o) \/ Die(o)
  \/ Close \/ CloseReturn \/ Tick

\* The timers, the watchers and Close.  What plugins, processes and the
\* outside do is their own business, and no delivery has to return.
Progress ==
  \/ \E s \in Sessions : Expire(s)
  \/ \E o \in Owners : CloseOwner(o) \/ Unwatch(o)
  \/ CloseReturn
  \/ Tick

Fairness == WF_vars(Progress)

Spec == Init /\ [][Next]_vars /\ Fairness

-----------------------------------------------------------------------------
(* Properties. *)

\* Typing, and the indexes of the registry agree with its entries: a
\* session is reachable by its route, its process and the request it waits
\* for, nothing else is, and every process with a session is watched.
IndexesAgree ==
  /\ \A s \in Live :
       /\ entries[s] \in Entries
       /\ routes[entries[s].route] = s
       /\ entries[s].owner \in watching
       /\ entries[s].expires <= entries[s].absolute
  /\ \A r \in Routes :
       routes[r] # None => routes[r] \in Live /\ entries[routes[r]].route = r
  /\ \A o \in Owners : owned[o] = {s \in Live : entries[s].owner = o}
  /\ \A m \in Messages : parents[m] = {s \in Live : entries[s].parent = m}
  /\ Cardinality(Live) <= MaxTotal
  /\ \A p \in Plugins : CountOf(p) <= MaxPerPlugin

\* The messages whose CompleteParent is still to come.
Unsettled == {m \in Messages : stage[m] \in
                {"queued", "open", "detaching", "succeeded", "failed"}}

\* No session is left behind in a phase nobody will end: a registered one
\* has a delivery whose return makes it wait or removes it, one whose answer
\* is being handled has that answer under way, unless the answer came too
\* late or the process goes away; and each has a timer, or the callback of
\* one, that ends it.
SessionsAttended ==
  \A s \in Live :
    LET e == entries[s] IN
    /\ e.due > 0 \/ fired[s] > 0
    /\ e.phase = "registered" => e.parent \in Unsettled
    /\ e.phase = "waiting" => e.parent = None
    /\ e.phase = "handling" => \/ e.input \in Unsettled
                               \/ e.expires = 0
                               \/ proc[e.owner] # "up"
                               \/ closed

\* A timer ends a session (and the process is told session.expired, if it
\* asked for that) only when the time of the wait has passed; once the
\* answer is being handled only the absolute lifetime does, until the answer
\* itself waits again, however the timer and the answer cross.
ExpiredInTimeStep ==
  \A s \in Live : s \notin Live' /\ fired'[s] < fired[s] =>
     /\ entries[s].expires = 0
     /\ /\ entries[s].phase = "handling"
        /\ stage[entries[s].input] = "open"
        /\ entries[s].parent = None
        => entries[s].absolute = 0
ExpiredInTime == [][ExpiredInTimeStep]_vars

\* Every session ends (each is opened once), and a Close returns.
SessionsEnded == Live = {} /\ (closed => returned)

=============================================================================
