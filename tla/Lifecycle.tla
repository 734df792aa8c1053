----------------------------- MODULE Lifecycle -----------------------------
(***************************************************************************)
(* From start to exit: main() of app/main.py resolves the services wired   *)
(* by app/bootstrap.py one after the other, the collectors share           *)
(* one registry of capabilities and one provider of sensor readings while  *)
(* the event loop runs, and at the end the container is disposed of.  A    *)
(* behaviour explores this program, the container alone, used by several   *)
(* threads as its comments allow, or the sensor readings alone.            *)
(***************************************************************************)
EXTENDS Container, Hwmon, Capabilities

CONSTANTS
  Gui,         \* the thread of main()
  Tried,       \* the keys registered for the container alone
  Wirings,     \* and the ways in which their factories need each other
  MaxRounds,   \* bound on disposals of the container alone
  MaxObjects   \* and on the objects built in it

Services == {"CapabilityRegistry", "ConfigService", "HwmonProvider", "MetricRegistry", "Database",
             "AlertRepository", "MonitorService", "HistoryService", "AlertEngine",
             "DiagnosticsService", "NotificationService", "ExportService"}

ASSUME LifecycleAssumption ==
  /\ Services \subseteq Keys
  /\ Gui \in Threads
  /\ Tried \subseteq Keys
  /\ Wirings \subseteq [Tried -> Seq(Tried)]
  /\ MaxRounds \in Nat /\ MaxObjects \in Nat

VARIABLES
  explored,    \* "program", "container" or "sensors"
  phase,       \* of main(): "start", "run", "stop" or "over"
  pc           \* how many of Script are resolved

vars == <<explored, phase, pc, containerVars, hwmonVars, capabilityVars>>
shared == <<hwmonVars, capabilityVars>>

\* build_container: what the factory of each service resolves.
Wiring ==
  [k \in Keys |->
     CASE k = "AlertRepository"     -> <<"Database">>
       [] k \in {"MonitorService", "NotificationService"} -> <<"ConfigService">>
       [] k = "HistoryService"      -> <<"ConfigService", "Database", "MetricRegistry">>
       [] k = "AlertEngine"         -> <<"ConfigService", "AlertRepository", "MetricRegistry">>
       [] k = "DiagnosticsService"  -> <<"CapabilityRegistry">>
       [] k = "ExportService"       -> <<"HistoryService", "DiagnosticsService">>
       [] OTHER                     -> <<>>]

RegisterCollectors == <<"MonitorService", "CapabilityRegistry", "HwmonProvider">>
WireCrossDomain == <<"MonitorService">>
PageContext ==
  <<"ConfigService", "CapabilityRegistry", "MonitorService", "HistoryService", "AlertEngine",
    "DiagnosticsService", "ExportService", "NotificationService", "MetricRegistry">>

\* What main() resolves, and the place where it asks for the summary of capabilities.
Script == <<"ConfigService", "CapabilityRegistry">> \o RegisterCollectors \o WireCrossDomain
            \o <<"HistoryService">> \o PageContext \o <<"MonitorService">>
Summary == 2

Init ==
  /\ HwmonInit
  /\ CapabilitiesInit
  /\ pc = 0
  /\ \/ /\ explored = "program" /\ phase = "start"
        /\ ContainerInit({[k \in Keys |-> "singleton"]}, {Wiring})
     \/ /\ explored = "sensors" /\ phase = "run"
        /\ ContainerInit({[k \in Keys |-> "singleton"]}, {Wiring})
     \/ /\ explored = "container" /\ phase = "over"
        /\ ContainerInit({[k \in Keys |-> "none"]},
                         {[k \in Keys |-> IF k \in Tried THEN w[k] ELSE <<>>] : w \in Wirings})
  /\ explored # "program" => machine = [f \in Features |-> CHOOSE m \in Facts : TRUE] /\ root

Pin == UNCHANGED <<explored, phase, pc>>

-----------------------------------------------------------------------------
(* The program *)

\* main() goes on without the summary.
MutantProbed == TRUE

\* The summary of the start log has read every capability.
Probed == AllProbed

\* The next resolve of the start.
Request ==
  /\ phase = "start" /\ pc < Len(Script)
  /\ answer[Gui] \in {"none", "built"}
  /\ pc = Summary => Probed
  /\ Resolve(Gui, Script[pc + 1])
  /\ pc' = pc + 1
  /\ UNCHANGED <<explored, phase, shared>>

\* An exception before the event loop ends the process; nothing is disposed of.
Abort ==
  /\ phase = "start" /\ stack[Gui] = <<>> /\ answer[Gui] \notin {"none", "built"}
  /\ phase' = "over"
  /\ UNCHANGED <<explored, pc, containerVars, shared>>

\* The window is shown, monitor.start() is due, and the event loop begins.
Run ==
  /\ phase = "start" /\ stack[Gui] = <<>> /\ pc = Len(Script) /\ answer[Gui] = "built"
  /\ phase' = "run"
  /\ UNCHANGED <<explored, pc, containerVars, shared>>

\* The GUI thread reads capabilities when the registry is there, the collectors on
\* their threads when they are sampled.
ReadCapability(r) ==
  /\ \/ phase = "run"
     \/ r = Gui /\ phase = "start" /\ pc >= Summary /\ stack[Gui] = <<>>
  /\ \E f \in Features : Read(r, f)

Inspect ==
  /\ \/ \E r \in Readers : ReadCapability(r) \/ Store(r)
     \/ \E f \in Features, m \in Facts : Change(f, m)
  /\ UNCHANGED <<containerVars, hwmonVars>> /\ Pin

\* The event loop ends; monitor.close() waits for a bounded time.
Quit ==
  /\ phase = "run"
  /\ phase' = "stop"
  /\ UNCHANGED <<explored, pc, containerVars, shared>>

Shutdown ==
  /\ phase = "stop"
  /\ \/ Dispose(Gui) /\ UNCHANGED phase
     \/ CloseNext(Gui) /\ UNCHANGED phase
     \/ /\ singletons = <<>> /\ closing = <<>>
        /\ phase' = "over"
        /\ UNCHANGED containerVars
  /\ UNCHANGED <<explored, pc, shared>>

Program ==
  \/ Request \/ Abort \/ Run \/ Inspect \/ Quit \/ Shutdown
  \/ /\ ResolveNext(Gui) \/ Finish(Gui) \/ Raise(Gui)
     /\ UNCHANGED shared /\ Pin

\* Collectors ask for readings while the event loop runs.
Sample ==
  /\ \/ Tick
     \/ \E w \in Workers, k \in Scans : Ask(w, k)
     \/ \E w \in Workers : Hit(w) \/ StartScan(w) \/ Escape(w) \/ \E ok \in BOOLEAN : EndScan(w, ok)
  /\ UNCHANGED <<containerVars, capabilityVars>> /\ Pin

-----------------------------------------------------------------------------
(* The container alone *)

Alone ==
  /\ \/ \E t \in Threads :
          \/ \E k \in Tried : Resolve(t, k)
          \/ ResolveNext(t) \/ Finish(t) \/ Raise(t)
          \/ round < MaxRounds /\ Dispose(t)
          \/ CloseNext(t)
     \/ \E k \in Tried, as \in Kinds \ {"none"} : objects = <<>> /\ Register(k, as)
     \/ \E k \in Tried : RegisterInstance(k)
  /\ Len(objects') <= MaxObjects
  /\ UNCHANGED shared /\ Pin

Next ==
  \/ explored = "program" /\ Program
  \/ explored = "sensors" /\ Sample
  \/ explored = "container" /\ Alone

Spec == Init /\ [][Next]_vars
=============================================================================
