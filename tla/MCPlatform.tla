----------------------------- MODULE MCPlatform -----------------------------
(***************************************************************************)
(* A small instance of each component of Platform.  A behaviour begins     *)
(* with all of them in an initial state and is one of a single component,  *)
(* while the others stay as they are.                                      *)
(***************************************************************************)
EXTENDS Platform, TLC

CONSTANTS a1, a2, a3, one

MCAcquisitions == {a1, a2, a3}
MCPlugins == {one}
MCPluginOf == [a \in MCAcquisitions |-> one]
MCIds == {<<1, "a">>, <<1, "detach">>}
MCLauncherOf == (1 :> "p") @@ (2 :> "p")
MCProfileOf == (1 :> "x") @@ (2 :> "x")

VARIABLE component  \* the component that runs

\* The SDK runs in two ways that its state space allows side by side: as
\* "sdk" the first event asks for nothing but its detachment, and as
\* "handler" the second event does not come.
Components == {"gate", "runtime", "sdk", "handler", "package", "browser", "render", "shutdown"}

AllInit ==
  /\ component \in Components
  /\ Init /\ Runtime!Init /\ Sdk!Init /\ Package!Init /\ Browser!Init /\ Render!Init
  /\ Server!Init
  /\ component # "package" => target = None
  /\ component # "render" => workerCount = 1

\* The component c runs, and the others, of which vs are all the variables, do not.
Runs(c, vs) == component = c /\ UNCHANGED <<component, vs>>

AllNext ==
  \/ /\ Runs("gate", <<runtimeVars, sdkVars, packageVars, browserVars, renderVars, serverVars>>)
     /\ Next
  \/ /\ Runs("runtime", <<vars, sdkVars, packageVars, browserVars, renderVars, serverVars>>)
     /\ Runtime!Next
  \/ /\ Runs("sdk", <<vars, runtimeVars, packageVars, browserVars, renderVars, serverVars>>)
     /\ Sdk!Next /\ UNCHANGED call[<<1, "a">>]
  \/ /\ Runs("handler", <<vars, runtimeVars, packageVars, browserVars, renderVars, serverVars>>)
     /\ Sdk!Next /\ UNCHANGED handler[2]
  \/ /\ Runs("package", <<vars, runtimeVars, sdkVars, browserVars, renderVars, serverVars>>)
     /\ Package!Next
  \/ /\ Runs("browser", <<vars, runtimeVars, sdkVars, packageVars, renderVars, serverVars>>)
     /\ Browser!Next
  \/ /\ Runs("render", <<vars, runtimeVars, sdkVars, packageVars, browserVars, serverVars>>)
     /\ Render!Next
  \/ /\ Runs("shutdown", <<vars, runtimeVars, sdkVars, packageVars, browserVars, renderVars>>)
     /\ Server!Next

all == <<component, vars, runtimeVars, sdkVars, packageVars, browserVars, renderVars, serverVars>>

AllSpec ==
  /\ AllInit /\ [][AllNext]_all
  /\ \A a \in Acquisitions : WF_vars(component = "gate" /\ Proceed(a))
  /\ WF_runtimeVars(component = "runtime" /\ Runtime!Progress)
  /\ WF_runtimeVars(component = "runtime" /\ Runtime!Starting)
  /\ WF_runtimeVars(component = "runtime" /\ Runtime!Stopping)
  /\ WF_sdkVars(component = "sdk" /\ Sdk!Progress /\ UNCHANGED call[<<1, "a">>])
  /\ WF_sdkVars(component = "handler" /\ Sdk!Progress /\ UNCHANGED handler[2])
  /\ WF_browserVars(component = "browser" /\ Browser!Progress)
  /\ WF_renderVars(component = "render" /\ Render!Progress)
  /\ WF_serverVars(component = "shutdown" /\ Server!Progress)

\* No call waits at the gate for ever while others come and go; every
\* delivery returns, every background event ends, a process that failed is
\* reaped, and Start and Stop give the lifecycle gate back; every action,
\* terminal and handler of a plugin ends, and every launch of a browser
\* and every close ends, and every session with its lifetime, unless its
\* browser could not be ended; every render, refresh and Close of the
\* renderer returns; and the server ends when it is asked to, whatever
\* hangs.
EverythingEnds ==
  /\ WaitersProceed
  /\ <>[](/\ component = "runtime" => Runtime!Settled
          /\ component \in {"sdk", "handler"} => Sdk!AllOver
          /\ component = "browser" => Browser!AllEnded
          /\ component = "render" => Render!AllReturned
          /\ component = "shutdown" => Server!ShutDown)
  /\ []<>(component = "runtime" => Runtime!GateFree)

=============================================================================
