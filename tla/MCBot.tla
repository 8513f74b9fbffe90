-------------------------------- MODULE MCBot --------------------------------
(***************************************************************************)
(* A small instance of each component of Bot.  A behaviour begins with all *)
(* of them in an initial state and is one of a single component, while the *)
(* others stay as they are.  The logs are alike: "first" is the one that is *)
(* admitted first.                                                         *)
(***************************************************************************)
EXTENDS Bot, TLC

MCKeyOf == (1 :> "a") @@ (2 :> "a") @@ (3 :> "b")
MCLimits == {[count |-> 1, window |-> 2], [count |-> 2, window |-> 1]}
MCActorOf == (1 :> "ann") @@ (2 :> "ann")
MCPluginOf == (1 :> "p") @@ (2 :> "p")
MCSettings == {[forward |-> TRUE, reverse |-> FALSE], [forward |-> FALSE, reverse |-> TRUE]}

VARIABLE component  \* the component that runs

Components == {"ingress", "limiter", "conversation", "qq", "onebot", "stats", "logs"}

AllInit ==
  /\ component \in Components
  /\ Init /\ Window!Init /\ Talk!Init /\ Gateway!Init /\ Shell!Init /\ Stats!Init
  /\ Stream!Init
  /\ component # "limiter" => limit.count = 1
  /\ component # "onebot" => settings.forward

\* The component c runs, and the others, of which vs are all the variables, do not.
Runs(c, vs) == component = c /\ UNCHANGED <<component, vs>>

AllNext ==
  \/ /\ Runs("limiter", <<vars, talkVars, gatewayVars, shellVars, statsVars, streamVars>>)
     /\ Window!Next
  \/ /\ Runs("conversation", <<vars, windowVars, gatewayVars, shellVars, statsVars, streamVars>>)
     /\ Talk!Next
  \/ /\ Runs("ingress", <<windowVars, talkVars, gatewayVars, shellVars, statsVars, streamVars>>)
     /\ Next
  \/ /\ Runs("qq", <<vars, windowVars, talkVars, shellVars, statsVars, streamVars>>)
     /\ Gateway!Next
  \/ /\ Runs("onebot", <<vars, windowVars, talkVars, gatewayVars, statsVars, streamVars>>)
     /\ Shell!Next
  \/ /\ Runs("stats", <<vars, windowVars, talkVars, gatewayVars, shellVars, streamVars>>)
     /\ Stats!Next
  \/ /\ Runs("logs", <<vars, windowVars, talkVars, gatewayVars, shellVars, statsVars>>)
     /\ Stream!Next
     /\ log["first"] = "new" => log'["second"] = "new"

all == <<component, vars, windowVars, talkVars, gatewayVars, shellVars, statsVars, streamVars>>

AllSpec ==
  /\ AllInit /\ [][AllNext]_all
  /\ WF_windowVars(component = "limiter" /\ Window!Tick)
  /\ \A c \in Callers : WF_windowVars(component = "limiter" /\ Window!Proceed(c))
  /\ WF_talkVars(component = "conversation" /\ Talk!Progress)
  /\ WF_vars(component = "ingress" /\ \E l \in Events : RunnerStep(l))
  /\ \A s \in Stoppers :
       WF_vars(component = "ingress" /\ caller[s] # "idle" /\ CallerStep(s))
  /\ WF_gatewayVars(component = "qq" /\ Gateway!LoopStep)
  /\ WF_gatewayVars(component = "qq" /\ Gateway!CancelOnStop)
  /\ WF_gatewayVars(component = "qq" /\ Gateway!CallStep)
  /\ WF_shellVars(component = "onebot" /\ Shell!SupervisorStep)
  /\ WF_shellVars(component = "onebot" /\ Shell!CallStep)
  /\ WF_shellVars(component = "onebot" /\ \E w \in workers : Shell!WorkerEnds(w))
  /\ \A a \in {1, 2} :
       WF_shellVars(component = "onebot" /\ a \in DOMAIN sessions /\ Shell!SessionStep(a))
  /\ WF_streamVars(component = "logs" /\ Stream!WriterStep)
  /\ WF_streamVars(component = "logs" /\ Stream!ReplayStep)
  /\ SF_streamVars(component = "logs" /\ Stream!EndReplays)
  /\ WF_streamVars(component = "logs" /\ Stream!EndClose)
  /\ \A l \in Logs : WF_streamVars(component = "logs" /\ Stream!Overflow(l))

\* Every caller of the limiter comes back (they are alike, so that one stands
\* for all), though the one whose turn it is may give up in that moment;
\* every session ends and Close of the registry returns; every lane
\* goroutine ends and a drain returns or expires; and the connection of a QQ
\* adapter follows the settings: the last ones are dialled, an adapter that
\* is switched off comes to rest, one that is stopped ends; a call of a
\* OneBot adapter returns, an adapter that is told to stop stops, and a
\* reverse session that was replaced ends; and a log that was admitted
\* leaves the memory, with Flush and Close answered.
EverythingReturns ==
  []<>(/\ component = "limiter" => Window!Back("c1")
       /\ component = "conversation" => Talk!SessionsEnded
       /\ component = "qq" => Gateway!SettingsApplied
       /\ component = "onebot" => Shell!AtRest
       /\ component = "logs" => Stream!LogsSettle
       /\ AtRest)

==============================================================================
