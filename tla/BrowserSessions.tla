-------------------------- MODULE BrowserSessions --------------------------
(***************************************************************************)
(* The browsers of plugins (browser.Manager): a launch that tries several  *)
(* ways, the lifetime of a session, the process of the plugin that owns    *)
(* it, Close by the plugin, CloseAll at the end of the server and          *)
(* PurgePlugin, which removes the profiles of a plugin.  All of them end a *)
(* session by closeSession, side by side.                                  *)
(*                                                                         *)
(* To start a browser and to end one is outside the server: either may     *)
(* fail.  A browser that ends by itself is one that can always be ended.   *)
(***************************************************************************)
EXTENDS Naturals, FiniteSets

CONSTANTS
  Launches,    \* the calls of Launch, and the sessions they make
  PluginOf,    \* the plugin of each
  ProfileOf,   \* and its profile: a profile belongs to one plugin
  MaxAttempts, \* the ways a launch may try, one after the other
  MaxCalls,    \* bound: calls of Close, PurgePlugin and CloseAll
  MaxBusy,     \* bound: calls and timers that close sessions side by side
  None

\* None is no launch, and what has one profile has one plugin.
BrowserAssumption ==
  /\ None \notin Launches
  /\ \A l, m \in Launches : ProfileOf[l] = ProfileOf[m] => PluginOf[l] = PluginOf[m]

Launchers == {PluginOf[l] : l \in Launches}
Profiles == {ProfileOf[l] : l \in Launches}

\* Who calls closeSession for one session: the timer of its lifetime, its
\* launch when it failed, and its owner, the plugin that closes it or the
\* watcher of the plugin's process.
Reasons == {"timer", "launch", "owner"}
Calls == (Reasons \X Launches) \cup ({"purge"} \X Launchers) \cup {<<"all", None>>}

VARIABLES
  stage,      \* of each launch
  attempts,   \* how many ways its loop has tried
  browser,    \* whether a local browser of the launch runs
  cancelled,  \* whether its context is cancelled
  closing,    \* its session is being closed
  settled,    \* launchDone is closed
  timer,      \* "off", "armed" or "fired"
  sessions,   \* the sessions registered
  profiles,   \* the session that holds a profile
  ended,      \* sessions closed for good
  stuck,      \* sessions whose browser could not be ended, at least once
  call,       \* the calls: [phase, target, todo, failed]
  purging,    \* plugins whose profiles are being removed
  managerClosed

launchVars == <<stage, attempts, cancelled>>
sessionVars == <<closing, settled, timer, sessions, profiles, ended, stuck>>
vars == <<launchVars, browser, sessionVars, call, purging, managerClosed>>

Stages == {"idle", "trying", "starting", "opened", "failed", "live", "refused",
           "returned"}

Idle == [phase |-> "idle", target |-> None, todo |-> {}, failed |-> FALSE]

-----------------------------------------------------------------------------
(* Launch. *)

\* Launch, up to the registration of the session and the start of its timer.
Begin(l) ==
  LET ok == /\ ~managerClosed
            /\ PluginOf[l] \notin purging
            /\ profiles[ProfileOf[l]] = None IN
  /\ stage[l] = "idle"
  /\ stage' = [stage EXCEPT ![l] = IF ok THEN "trying" ELSE "refused"]
  /\ IF ok
     THEN /\ sessions' = sessions \cup {l}
          /\ profiles' = [profiles EXCEPT ![ProfileOf[l]] = l]
          /\ timer' = [timer EXCEPT ![l] = "armed"]
     ELSE UNCHANGED <<sessions, profiles, timer>>
  /\ UNCHANGED <<attempts, cancelled, browser, closing, settled, ended, stuck,
                 call, purging, managerClosed>>

\* The caller goes away.
Cancel(l) ==
  /\ stage[l] \in {"trying", "starting", "opened", "failed"}
  /\ ~cancelled[l]
  /\ cancelled' = [cancelled EXCEPT ![l] = TRUE]
  /\ UNCHANGED <<stage, attempts, browser, sessionVars, call, purging,
                 managerClosed>>

\* The head of the loop over the ways to launch.
GiveUp(l) ==
  /\ stage[l] = "trying"
  /\ cancelled[l] \/ attempts[l] = MaxAttempts
  /\ stage' = [stage EXCEPT ![l] = "failed"]
  /\ UNCHANGED <<attempts, cancelled, browser, sessionVars, call, purging,
                 managerClosed>>

\* An attempt: it starts a browser, finds the one of a remote endpoint, or
\* fails before there is one.
Attempt(l) ==
  /\ stage[l] = "trying"
  /\ ~cancelled[l] /\ attempts[l] < MaxAttempts
  /\ attempts' = [attempts EXCEPT ![l] = @ + 1]
  /\ \/ /\ stage' = [stage EXCEPT ![l] = "starting"]
        /\ browser' = [browser EXCEPT ![l] = TRUE]
     \/ /\ stage' = [stage EXCEPT ![l] = "opened"]
        /\ UNCHANGED browser
     \/ UNCHANGED <<stage, browser>>
  /\ UNCHANGED <<cancelled, sessionVars, call, purging, managerClosed>>

\* waitBrowserDevTools, and the cleanup of launchLocalBrowser: a browser that
\* could not be ended leaves its session failed, without another attempt.
Started(l) ==
  /\ stage[l] = "starting"
  /\ \/ /\ browser[l]
        /\ stage' = [stage EXCEPT ![l] = "opened"]
        /\ UNCHANGED browser
     \/ /\ stage' = [stage EXCEPT ![l] = "trying"]
        /\ browser' = [browser EXCEPT ![l] = FALSE]
     \/ /\ browser[l]
        /\ stage' = [stage EXCEPT ![l] = "failed"]
        /\ UNCHANGED browser
  /\ UNCHANGED <<attempts, cancelled, sessionVars, call, purging,
                 managerClosed>>

\* The end of Launch: it hands the session over, or closes it.
Settle(l) ==
  LET ok == /\ stage[l] = "opened"
            /\ ~closing[l] /\ ~managerClosed /\ ~cancelled[l] IN
  /\ stage[l] \in {"opened", "failed"}
  /\ settled' = [settled EXCEPT ![l] = TRUE]
  /\ attempts' = [attempts EXCEPT ![l] = 0]
  /\ stage' = [stage EXCEPT ![l] = IF ok THEN "live" ELSE "returned"]
  /\ call' = IF ok THEN call
             ELSE [call EXCEPT ![<<"launch", l>>].phase = "called",
                               ![<<"launch", l>>].todo = {l}]
  /\ UNCHANGED <<cancelled, browser, closing, timer, sessions, profiles, ended, stuck,
                  purging, managerClosed>>

-----------------------------------------------------------------------------
(* Who closes sessions. *)

\* Calls under way.
Busy == {c \in Calls : call[c].phase \notin {"idle", "returned"}}

\* A call of Close, PurgePlugin or CloseAll that has not been made before.
CallClose(c, todo) ==
  /\ call[c].phase = "idle"
  /\ Cardinality(Busy) < MaxBusy
  /\ Cardinality({d \in Calls : call[d].phase # "idle" /\
                     d[1] \in {"owner", "purge", "all"}}) < MaxCalls
  /\ call' = [call EXCEPT ![c].phase = "called", ![c].todo = todo]

\* The lifetime of a session is over.
Fire(l) ==
  /\ timer[l] = "armed"
  /\ Cardinality(Busy) < MaxBusy
  /\ timer' = [timer EXCEPT ![l] = "fired"]
  /\ call' = [call EXCEPT ![<<"timer", l>>].phase = "called",
                          ![<<"timer", l>>].todo = {l}]
  /\ UNCHANGED <<launchVars, browser, closing, settled, sessions, profiles,
                 ended, stuck, purging, managerClosed>>

\* The process of the plugin ends, or the plugin closes its session.
CloseOwn(c) ==
  /\ c[1] = "owner"
  /\ c[2] \in sessions
  /\ CallClose(c, {c[2]})
  /\ UNCHANGED <<launchVars, browser, sessionVars, purging, managerClosed>>

\* PurgePlugin, up to its first closeSession.
Purge(p) ==
  /\ CallClose(<<"purge", p>>, {l \in sessions : PluginOf[l] = p})
  /\ purging' = purging \cup {p}
  /\ UNCHANGED <<launchVars, browser, sessionVars, managerClosed>>

CloseAll ==
  /\ CallClose(<<"all", None>>, sessions)
  /\ managerClosed' = TRUE
  /\ UNCHANGED <<launchVars, browser, sessionVars, purging>>

-----------------------------------------------------------------------------
(* closeSession, called by c for one session after the other. *)

\* The session is looked up and marked; its launch is cancelled.
Mark(c) ==
  /\ call[c].phase = "called"
  /\ \E l \in call[c].todo :
       IF l \in sessions
       THEN /\ call' = [call EXCEPT ![c].phase = "marked", ![c].target = l,
                                    ![c].todo = @ \ {l}]
            /\ closing' = [closing EXCEPT ![l] = TRUE]
            /\ cancelled' = [cancelled EXCEPT ![l] = TRUE]
       ELSE /\ call' = [call EXCEPT ![c].todo = @ \ {l}]
            /\ UNCHANGED <<closing, cancelled>>
  /\ UNCHANGED <<stage, attempts, browser, settled, timer, sessions, profiles,
                 ended, stuck, purging, managerClosed>>

\* Another call has closed the session meanwhile.
Closed(c) ==
  /\ call[c].phase = "marked"
  /\ call[c].target \in ended
  /\ call' = [call EXCEPT ![c].phase = "called", ![c].target = None]
  /\ UNCHANGED <<launchVars, browser, sessionVars, purging, managerClosed>>

\* Mutant: closeSession does not wait for the launch, whose browser it does
\* not know yet.
CleanUpMutant(c) ==
  LET l == call[c].target IN
  /\ call[c].phase = "marked"
  /\ l \notin ended
  /\ ~\E d \in Calls : call[d].phase = "clean" /\ call[d].target = l
  /\ timer' = [timer EXCEPT ![l] = IF @ = "armed" THEN "off" ELSE @]
  /\ \/ /\ call' = [call EXCEPT ![c].phase = "clean"]
        /\ browser' = [browser EXCEPT ![l] = @ /\ ~settled[l]]
        /\ UNCHANGED stuck
     \/ /\ browser[l]
        /\ stuck' = stuck \cup {l}
        /\ call' = [call EXCEPT ![c].phase = "called", ![c].target = None,
                                ![c].todo = IF c[1] = "all" THEN @ ELSE {},
                                ![c].failed = c[1] \in {"purge", "all"}]
        /\ UNCHANGED browser
  /\ UNCHANGED <<launchVars, closing, settled, sessions, profiles, ended,
                 purging, managerClosed>>

\* With closeMu, which one call has at a time until the session is given back
\* or its browser could not be ended, it waits for the launch and ends the
\* browser.  A failure ends the call; CloseAll goes on with the next session.
CleanUp(c) ==
  LET l == call[c].target IN
  /\ call[c].phase = "marked"
  /\ l \notin ended
  /\ settled[l]
  /\ ~\E d \in Calls : call[d].phase = "clean" /\ call[d].target = l
  /\ timer' = [timer EXCEPT ![l] = IF @ = "armed" THEN "off" ELSE @]
  /\ \/ /\ call' = [call EXCEPT ![c].phase = "clean"]
        /\ browser' = [browser EXCEPT ![l] = FALSE]
        /\ UNCHANGED stuck
     \/ /\ browser[l]
        /\ stuck' = stuck \cup {l}
        /\ call' = [call EXCEPT ![c].phase = "called", ![c].target = None,
                                ![c].todo = IF c[1] = "all" THEN @ ELSE {},
                                ![c].failed = c[1] \in {"purge", "all"}]
        /\ UNCHANGED browser
  /\ UNCHANGED <<launchVars, closing, settled, sessions, profiles, ended,
                 purging, managerClosed>>

\* The session and its profile are given back.
Forget(c) ==
  LET l == call[c].target
      key == ProfileOf[l] IN
  /\ call[c].phase = "clean"
  /\ sessions' = sessions \ {l}
  /\ profiles' = [profiles EXCEPT ![key] = IF @ = l THEN None ELSE @]
  /\ ended' = ended \cup {l}
  /\ call' = [call EXCEPT ![c].phase = "called", ![c].target = None]
  /\ UNCHANGED <<launchVars, browser, closing, settled, timer, stuck, purging,
                 managerClosed>>

\* The call returns; a purge that closed every session removes the profiles
\* first.
Return(c) ==
  LET removes == c[1] = "purge" /\ call[c].phase = "called" /\ ~call[c].failed IN
  /\ \/ call[c].phase = "called" /\ call[c].todo = {}
     \/ call[c].phase = "removing"
  /\ call' = [call EXCEPT ![c] =
                IF removes THEN [@ EXCEPT !.phase = "removing"]
                ELSE IF c[1] \in {"timer", "launch"} THEN Idle
                ELSE [@ EXCEPT !.phase = "returned"]]
  /\ purging' = IF c[1] = "purge" /\ ~removes THEN purging \ {c[2]} ELSE purging
  /\ UNCHANGED <<launchVars, browser, sessionVars, managerClosed>>

-----------------------------------------------------------------------------
Init ==
  /\ stage = [l \in Launches |-> "idle"]
  /\ attempts = [l \in Launches |-> 0]
  /\ browser = [l \in Launches |-> FALSE]
  /\ cancelled = [l \in Launches |-> FALSE]
  /\ closing = [l \in Launches |-> FALSE]
  /\ settled = [l \in Launches |-> FALSE]
  /\ timer = [l \in Launches |-> "off"]
  /\ sessions = {} /\ ended = {} /\ stuck = {} /\ purging = {}
  /\ profiles = [p \in Profiles |-> None]
  /\ call = [c \in Calls |-> Idle]
  /\ managerClosed = FALSE

LaunchStep(l) == GiveUp(l) \/ Attempt(l) \/ Started(l) \/ Settle(l)

CloseStep(c) == Mark(c) \/ Closed(c) \/ CleanUp(c) \/ Forget(c) \/ Return(c)

Next ==
  \/ \E l \in Launches : Begin(l) \/ Cancel(l) \/ LaunchStep(l) \/ Fire(l)
  \/ \E c \in Calls : CloseOwn(c) \/ CloseStep(c)
  \/ \E p \in Launchers : Purge(p)
  \/ CloseAll

\* What the server's goroutines and its timers do.
Progress ==
  \/ \E l \in Launches : LaunchStep(l) \/ Fire(l)
  \/ \E c \in Calls : CloseStep(c)

Spec == Init /\ [][Next]_vars /\ WF_vars(Progress)

-----------------------------------------------------------------------------
(* Properties. *)

\* No browser is orphaned: one that runs has a session that is registered
\* and holds its profile, so that no two ever share one, none runs on a
\* profile that is being removed, and none is left by a CloseAll that
\* reported no failure.
BrowsersOwned ==
  /\ \A l \in Launches : browser[l] =>
       /\ l \in sessions
       /\ profiles[ProfileOf[l]] = l
       /\ call[<<"purge", PluginOf[l]>>].phase # "removing"
  /\ LET all == call[<<"all", None>>] IN
     all.phase = "returned" /\ ~all.failed =>
       \A l \in Launches : ~browser[l] /\ l \notin sessions

\* Every launch and every close ends, and every session with its lifetime,
\* unless its browser could not be ended.
AllEnded ==
  /\ \A l \in Launches : stage[l] \in {"idle", "refused", "live", "returned"}
  /\ \A c \in Calls : call[c].phase \in {"idle", "returned"}
  /\ sessions \subseteq stuck

=============================================================================
