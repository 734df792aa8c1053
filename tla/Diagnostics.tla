---------------------------- MODULE Diagnostics ----------------------------
(***************************************************************************)
(* From the machine to the verdict: collectors deliver snapshots, the main *)
(* window puts the last one of each domain into the SnapshotStore          *)
(* (app/services/diagnostics.py), the metric registry takes from it what   *)
(* alerts and history see, and a diagnostics run checks what is in the     *)
(* store.  A collector that raises delivers an empty snapshot instead.     *)
(* The page (app/ui/pages/diagnostics.py) shows the report: the verdict,   *)
(* how many results have each severity, and three groups of cards.         *)
(***************************************************************************)
EXTENDS Readings

CONSTANTS
  Raw,         \* Raw[domain]: the readings considered
  Broken,      \* stands for the readings of a sample that raised
  Absences,    \* for each start considered, why optional sources are missing
  MaxSampled   \* bound on the domains sampled in a behaviour

Domains == {"cpu", "memory", "storage", "gpu", "sensors", "battery", "network", "services",
            "processes"}

ASSUME DiagnosticsAssumption ==
  /\ DOMAIN Raw = Domains
  /\ \A d \in Domains : Broken \notin Raw[d]
  /\ \A r \in Raw["cpu"] : CpuReading(r)
  /\ \A r \in Raw["memory"] : MemoryReading(r)
  /\ \A r \in Raw["storage"] : StorageReading(r)
  /\ \A r \in Raw["gpu"] : GpuReading(r)
  /\ \A r \in Raw["sensors"] : SensorReading(r)
  /\ \A r \in Raw["battery"] : BatteryReading(r)
  /\ \A r \in Raw["services"] : ServiceReading(r)
  /\ Raw["processes"] \subseteq Nat
  /\ Absences \subseteq SUBSET {"no tool", "no permission", "no driver", "no hardware"}
  /\ MaxSampled \in Nat

VARIABLES
  store,    \* SnapshotStore._snapshots
  missing,  \* the reasons of the capabilities that are absent, fixed at the start
  report,   \* DiagnosticsPage._report: the results of the last run, Nothing before it
  shown,    \* what the page shows
  sampled,  \* the readings behind each snapshot of the store
  basis     \* what sampled was when the last run was made

diagnosticsVars == <<store, missing, report, shown, sampled, basis>>

Collect(d, raw) ==
  CASE d = "cpu"       -> IF raw = Broken THEN NoCpuSnapshot ELSE CpuSnapshot(raw)
    [] d = "memory"    -> IF raw = Broken THEN NoMemorySnapshot ELSE MemorySnapshot(raw)
    [] d = "storage"   -> IF raw = Broken THEN NoStorageSnapshot ELSE StorageSnapshot(raw)
    [] d = "gpu"       -> IF raw = Broken THEN NoGpuSnapshot ELSE GpuSnapshot(raw)
    [] d = "sensors"   -> IF raw = Broken THEN NoSensorSnapshot ELSE SensorSnapshot(raw)
    [] d = "battery"   -> IF raw = Broken THEN NoBatterySnapshot ELSE BatterySnapshot(raw)
    [] d = "network"   -> IF raw = Broken THEN NoNetworkSnapshot ELSE NetworkSnapshot(raw)
    [] d = "services"  -> IF raw = Broken THEN NoServiceSnapshot ELSE ServiceSnapshot(raw)
    [] d = "processes" -> IF raw = Broken THEN NoProcessSnapshot ELSE ProcessSnapshot(raw)

-----------------------------------------------------------------------------
(* The checks *)

OK == 0
INFO == 1
WARNING == 2
CRITICAL == 3

Finding(check, severity) ==
  {[check |-> check, of |-> None, severity |-> severity, skipped |-> FALSE]}
FindingOf(check, thing, severity) ==
  {[check |-> check, of |-> thing, severity |-> severity, skipped |-> FALSE]}
Skip(check) == {[check |-> check, of |-> None, severity |-> OK, skipped |-> TRUE]}

\* The severity of a value that is bad when high, or when low.
High(value, critical, warning) ==
  IF value >= critical THEN CRITICAL ELSE IF value >= warning THEN WARNING ELSE OK
Low(value, critical, warning) ==
  IF value < critical THEN CRITICAL ELSE IF value < warning THEN WARNING ELSE OK

\* Load per core.
CheckCpuLoad(s) ==
  LET cores == IF s.cores > 1 THEN s.cores ELSE 1
  IN  Finding("cpu.load", IF s.load >= 2 * cores THEN WARNING
                          ELSE IF s.load >= cores THEN INFO ELSE OK)

\* Against the limit the sensor gives, or 100 degrees.
CheckCpuThermals(s) ==
  LET limit == IF Truthy(s.critical) THEN s.critical ELSE 100
  IN  IF s.temperature = None THEN Skip("cpu.thermal")
      ELSE Finding("cpu.thermal", High(100 * s.temperature, 95 * limit, 85 * limit))

\* Available memory as a share of all.
CheckMemory(s) ==
  Finding("memory.usage",
          IF s.total = 0 THEN OK ELSE Low(100 * s.available, 5 * s.total, 12 * s.total))

CheckMemoryPressure(s) ==
  IF s.pressure = None THEN Skip("memory.pressure")
  ELSE Finding("memory.pressure", High(s.pressure, 20, 5))

CheckSwap(s) ==
  Finding("memory.swap", IF s.swapTotal = 0 THEN INFO
                         ELSE IF 100 * s.swapUsed >= 80 * s.swapTotal THEN WARNING ELSE OK)

Measured(filesystems) == {f \in filesystems : Truthy(f.total)}

\* One result per filesystem that is short of space, or one for all.
MutantCheckDiskSpace(s) ==
  LET Severity(f) == High(100 * f.used, 98 * f.total, 95 * f.total)
      short == {f \in Measured(s.filesystems) : Severity(f) > OK}
  IN  IF short = {} THEN Finding("storage.space", OK)
      ELSE UNION {FindingOf("storage.space", f.device, Severity(f)) : f \in short}

CheckDiskSpace(s) ==
  LET Severity(f) == High(100 * f.used, 95 * f.total, 88 * f.total)
      short == {f \in Measured(s.filesystems) : Severity(f) > OK}
  IN  IF short = {} THEN Finding("storage.space", OK)
      ELSE UNION {FindingOf("storage.space", f.device, Severity(f)) : f \in short}

\* Nothing is said of any disk when one cannot be read.
MutantCheckDiskHealth(s) ==
  LET Severity(d) == CASE d.verdict = "failing" -> CRITICAL
                       [] d.verdict = "warning" -> WARNING
                       [] d.verdict = "passed"  -> OK
  IN  IF \E d \in s.disks : d.verdict = "unknown" THEN Skip("storage.health")
      ELSE UNION {FindingOf("storage.health", d.name, Severity(d)) : d \in s.disks}

CheckDiskHealth(s) ==
  LET Severity(d) == CASE d.verdict = "failing" -> CRITICAL
                       [] d.verdict = "warning" -> WARNING
                       [] d.verdict = "passed"  -> OK
      known == {d \in s.disks : d.verdict # "unknown"}
  IN  (UNION {FindingOf("storage.health", d.name, Severity(d)) : d \in known})
        \cup (IF known = s.disks THEN {} ELSE Skip("storage.health"))

CheckDiskThermals(s) ==
  LET measured == {d \in s.disks : d.temperature # None}
      hot == {d \in measured : d.temperature >= 75}
  IN  IF hot # {} THEN UNION {FindingOf("storage.thermal", d.name, WARNING) : d \in hot}
      ELSE IF measured # {} THEN Finding("storage.thermal", OK) ELSE {}

\* The first that applies: no telemetry, throttling, heat.
CheckGpu(gpus) ==
  LET Result(i) ==
        LET g == gpus[i]
        IN  IF g.utilisation = None /\ g.clock = None THEN FindingOf("gpu.driver", i, WARNING)
            ELSE IF g.throttle # {} THEN FindingOf("gpu.throttle", i, WARNING)
            ELSE IF g.temperature # None /\ g.temperature >= 87
              THEN FindingOf("gpu.thermal", i, WARNING)
            ELSE FindingOf("gpu.status", i, OK)
  IN  IF gpus = <<>> THEN Skip("gpu.status") ELSE UNION {Result(i) : i \in DOMAIN gpus}

CheckSensors(sensors) ==
  IF sensors = {} THEN Skip("sensors.available")
  ELSE Finding("sensors.thermal", CASE WorstStatus(sensors) = "critical" -> CRITICAL
                                    [] WorstStatus(sensors) = "hot"      -> WARNING
                                    [] WorstStatus(sensors) = "fine"     -> OK)

\* A battery whose capacity is not known has no result for its health.
CheckBattery(s) ==
  IF ~s.present THEN Skip("battery.health")
  ELSE (IF s.health = None THEN {}
        ELSE Finding("battery.health", IF s.health < 55 THEN WARNING
                                       ELSE IF s.health < 80 THEN INFO ELSE OK))
       \cup (IF s.percent # None /\ s.percent < 15 /\ ~s.charging
               THEN Finding("battery.charge", WARNING) ELSE {})

CheckNetwork(s) ==
  IF ~s.online THEN Finding("network.status", WARNING)
  ELSE Finding("network.status", OK)
         \cup IF s.errors > 1000 THEN Finding("network.errors", WARNING) ELSE {}

CheckServices(units) ==
  IF units = <<>> THEN Skip("services.failed")
  ELSE Finding("services.failed", IF Failed(units) # {} THEN WARNING ELSE OK)

CheckProcesses(s) == Finding("processes.zombies", IF s.zombie >= 10 THEN WARNING ELSE OK)

\* The results of the checks of a domain; without a snapshot there is at most one
\* that says so.
Results(d, s) ==
  CASE d = "cpu"       -> CheckCpuLoad(s) \cup CheckCpuThermals(s)
    [] d = "memory"    -> CheckMemory(s) \cup CheckMemoryPressure(s) \cup CheckSwap(s)
    [] d = "storage"   -> CheckDiskSpace(s) \cup CheckDiskHealth(s) \cup CheckDiskThermals(s)
    [] d = "gpu"       -> CheckGpu(s)
    [] d = "sensors"   -> CheckSensors(s)
    [] d = "battery"   -> CheckBattery(s)
    [] d = "network"   -> CheckNetwork(s)
    [] d = "services"  -> CheckServices(s)
    [] d = "processes" -> CheckProcesses(s)

Unsampled == [cpu |-> "cpu.load", memory |-> "memory.usage", storage |-> "storage.space",
              gpu |-> "gpu.status", network |-> "network.status",
              services |-> "services.failed"]

\* Of the sources that are missing, some could be enabled by the user.
CheckCoverage(reasons) ==
  Finding("monitor.coverage", IF reasons \subseteq {"no hardware"} THEN OK ELSE INFO)

\* run(): the results by the domain they are about, those on the monitor itself
\* included.
Report(snapshots, reasons) ==
  [d \in Domains \cup {"monitor"} |->
     IF d = "monitor" THEN CheckCoverage(reasons)
     ELSE IF d \in DOMAIN snapshots THEN Results(d, snapshots[d])
     ELSE IF d \in DOMAIN Unsampled THEN Skip(Unsampled[d]) ELSE {}]

\* DiagnosticReport.worst, of one domain.
Worst(results) ==
  Largest({OK} \cup {r.severity : r \in {x \in results : ~x.skipped}})

-----------------------------------------------------------------------------
(* The page *)

\* DiagnosticReport.problems, and the results that passed, of one domain.
Problems(results) == {r \in results : ~r.skipped /\ r.severity >= WARNING}
Passed(results) == {r \in results : ~r.skipped /\ r.severity = OK}
Skipped(results) == {r \in results : r.skipped}

\* DiagnosticReport.counts
Counts(results) ==
  [severity \in OK..CRITICAL |->
     Cardinality({r \in results : ~r.skipped /\ r.severity = severity})]

\* _render
Render(results) ==
  LET all == UNION {results[d] : d \in DOMAIN results}
  IN  [verdict |-> Worst(all), counts |-> Counts(all), findings |-> Problems(all),
       passed |-> Passed(all), skipped |-> Skipped(all)]

-----------------------------------------------------------------------------
(* The metrics of MetricRegistry that the default rules use *)

\* Shares as fractions: a value above a threshold t has above > t * of.
Whole(x) == IF x = None THEN None ELSE [above |-> x, of |-> 1]

MetricsOf(d, s) ==
  CASE d = "cpu"     -> [temperature |-> Whole(s.temperature)]
    [] d = "memory"  -> [percent |-> IF s.total = 0 THEN Whole(0)
                                     ELSE [above |-> 100 * s.used, of |-> s.total],
                         pressure |-> Whole(s.pressure)]
    [] d = "storage" -> [fullest |->
                          LET Fuller(f, g) == f.used * g.total >= g.used * f.total
                              measured == Measured(s.filesystems)
                          IN  IF measured = {} THEN None
                              ELSE LET f == CHOOSE x \in measured :
                                              \A y \in measured : Fuller(x, y)
                                   IN  [above |-> 100 * f.used, of |-> f.total]]
    [] d = "gpu"     -> [temperature |->
                          IF s = <<>> THEN None ELSE Whole(Primary(s).temperature)]
    [] d = "battery" -> [percent |-> Whole(s.percent), health |-> Whole(s.health)]
    [] d = "network" -> [online |-> Whole(IF s.online THEN 1 ELSE 0)]
    [] d = "services" -> [failed |-> Whole(Cardinality(Failed(s)))]
    [] d \in {"sensors", "processes"} -> [none |-> None]

\* Comparison.matches
Breached(rule, value) ==
  /\ value # None
  /\ IF rule.above THEN value.above > rule.threshold * value.of
     ELSE value.above < rule.threshold * value.of

\* _default_rules, but for the one on processor usage, which no check looks at.
Rule(d, m, above, t) == [domain |-> d, metric |-> m, above |-> above, threshold |-> t]
DefaultRules ==
  {Rule("cpu", "temperature", TRUE, 88), Rule("memory", "percent", TRUE, 92),
   Rule("memory", "pressure", TRUE, 20), Rule("storage", "fullest", TRUE, 92),
   Rule("gpu", "temperature", TRUE, 87), Rule("battery", "percent", FALSE, 12),
   Rule("battery", "health", FALSE, 55), Rule("services", "failed", TRUE, 0),
   Rule("network", "online", FALSE, 1)}

-----------------------------------------------------------------------------

Nothing == [d \in {} |-> None]
Put(f, d, value) == [e \in DOMAIN f \cup {d} |-> IF e = d THEN value ELSE f[e]]

DiagnosticsInit ==
  /\ store = Nothing
  /\ missing \in Absences
  /\ report = Nothing
  /\ shown = Nothing
  /\ sampled = Nothing
  /\ basis = Nothing

\* A sample is delivered; the readings may be any, and the sample may raise.
Deliver(d, raw) ==
  /\ Cardinality(DOMAIN store \cup {d}) <= MaxSampled
  /\ store' = Put(store, d, Collect(d, raw))
  /\ sampled' = Put(sampled, d, raw)
  /\ UNCHANGED <<missing, report, shown, basis>>

\* run_checks, from the button of the page.
Run ==
  /\ report' = Report(store, missing)
  /\ shown' = Render(report')
  /\ basis' = sampled
  /\ UNCHANGED <<store, missing, sampled>>

\* The page is entered, or a document exported: a report is made if there is none.
ShowOrExport ==
  /\ report = Nothing
  /\ Run

DiagnosticsNext ==
  \/ \E d \in Domains : \E raw \in Raw[d] \cup {Broken} : Deliver(d, raw)
  \/ Run
  \/ ShowOrExport

DiagnosticsSpec == DiagnosticsInit /\ [][DiagnosticsNext]_diagnosticsVars

-----------------------------------------------------------------------------
(* Properties *)

Severities == OK..CRITICAL
ResultsOf(d, raw) == Results(d, Collect(d, raw))

DiagnosticsTypeOK ==
  /\ DOMAIN store \subseteq Domains
  /\ missing \in Absences
  /\ DOMAIN sampled = DOMAIN store
  /\ DOMAIN basis \subseteq DOMAIN sampled
  /\ \A d \in DOMAIN sampled : sampled[d] \in Raw[d] \cup {Broken}
  /\ \A d \in DOMAIN basis : basis[d] \in Raw[d] \cup {Broken}
  /\ report = Nothing => basis = Nothing
  /\ report # Nothing =>
       /\ DOMAIN report = Domains \cup {"monitor"}
       /\ \A d \in DOMAIN report : \A r \in report[d] :
            r.severity \in Severities /\ r.skipped \in BOOLEAN

\* What the readings of a domain say by themselves about each thing it has: the
\* danger that no other thing, and nothing that cannot be read, may cover up.
InDanger(d, raw, severity) ==
  CASE d = "storage" ->
         \/ \E i \in DOMAIN raw.mounts :
              LET m == raw.mounts[i]
              IN  /\ \A j \in DOMAIN raw.mounts : raw.mounts[j].device = m.device => j = i
                  /\ ~m.remote /\ Truthy(m.total)
                  /\ 100 * m.used >= (IF severity = CRITICAL THEN 95 ELSE 88) * m.total
         \/ \E disk \in raw.disks : disk.smart # None /\ ~disk.smart.refused
                                     /\ disk.smart.passed = FALSE
    [] d = "sensors" ->
         \E s \in raw : /\ s.kind = "temperature" /\ s.value # None /\ Truthy(s.critical)
                        /\ IF severity = CRITICAL THEN s.value >= s.critical
                           ELSE 100 * s.value >= 85 * s.critical
    [] d = "gpu" ->
         /\ severity = WARNING
         /\ \/ /\ "nvidia" \notin raw.raised /\ raw.nvidia # None
               /\ \E row \in Elements(raw.nvidia) :
                    /\ row.whole /\ row.identified
                    /\ \/ row.temperature # None /\ row.temperature >= 87
                       \/ row.throttle \ {"GPU idle"} # {}
            \/ /\ "amd" \notin raw.raised
               /\ \E card \in Elements(raw.amd) :
                    card.hwmon /\ card.temperature # None /\ card.temperature >= 87
            \/ /\ "intel" \notin raw.raised
               /\ \/ None \in Elements(raw.intel)
                  \/ /\ raw.intel # <<>>
                     /\ \E r \in Elements(raw.chip) :
                          /\ r.label = "package" /\ r.value # None /\ r.value >= 87
                          /\ \A x \in Elements(raw.chip) : x.label = "package" => x = r
    [] d = "battery" ->
         severity = WARNING /\ raw.found /\ raw.status = "discharging"
           /\ raw.capacity # None /\ raw.capacity < 15
    [] d = "services" ->
         severity = WARNING /\ raw.systemd
           /\ \E i \in DOMAIN raw.units : raw.units[i] = "failed" /\ (i - 1) \div BatchSize \in raw.answered
    [] d = "network" -> severity = WARNING /\ \A i \in raw : i.ipv4 => ~i.up
    [] OTHER -> FALSE

\* "``max()`` over a collection yields the worst item" (models/diagnostics.py:12):
\* what is in danger shows in the verdict on the system, and as a finding of its
\* domain with an advice, whatever the state of the other disks, filesystems,
\* sensors, adapters or units, read or not.  Every variable keeps its type.
DangersAreReported ==
  /\ DiagnosticsTypeOK
  /\ \A d \in DOMAIN basis : \A severity \in {WARNING, CRITICAL} :
       basis[d] # Broken /\ InDanger(d, basis[d], severity) =>
         /\ shown.verdict >= severity
         /\ \E r \in shown.findings \cap report[d] : r.severity >= severity

\* Readings that are at least as bad: the same things, each as bad or worse.
NoBetter(d, a, b) ==
  CASE d = "cpu" ->
         /\ b.cores = a.cores /\ b.load >= a.load
         /\ Len(b.chips) = Len(a.chips)
         /\ \A c \in DOMAIN a.chips :
              /\ Len(b.chips[c]) = Len(a.chips[c])
              /\ \A i \in DOMAIN a.chips[c] :
                   LET r == a.chips[c][i]
                       t == b.chips[c][i]
                   IN  /\ t.label = r.label /\ t.critical = r.critical
                       /\ (t.value = None) = (r.value = None)
                       /\ r.value # None => t.value >= r.value
    [] d = "memory" ->
         /\ b.total = a.total /\ b.free = a.free /\ b.swapTotal = a.swapTotal
         /\ IF a.available = None THEN b.available = None
            ELSE b.available # None /\ b.available <= a.available
         /\ IF a.swapFree = None THEN b.swapFree = None
            ELSE b.swapFree # None /\ b.swapFree <= a.swapFree
         /\ b.psi = a.psi
    [] d = "sensors" ->
         \A s \in a : \E t \in b : /\ t.kind = s.kind /\ t.high = s.high
                                   /\ t.critical = s.critical
                                   /\ IF s.value = None THEN TRUE
                                      ELSE t.value # None /\ t.value >= s.value
    [] d = "services" ->
         /\ b.systemd = a.systemd /\ b.answered = a.answered /\ Len(b.units) = Len(a.units)
         /\ \A i \in DOMAIN a.units : a.units[i] = "failed" => b.units[i] = "failed"
    [] d = "processes" -> b >= a
    [] OTHER -> FALSE

\* When a run finds a domain no better than the run before it found it, its
\* verdict is no milder: the bands of the thresholds do not overlap, and no
\* limit, group of sensors or batch of units is taken in the wrong order.
WorseIsNeverMilder ==
  [][\A d \in DOMAIN basis \cap DOMAIN basis' :
       basis[d] # Broken /\ basis'[d] # Broken /\ NoBetter(d, basis[d], basis'[d])
         => Worst(report'[d]) >= Worst(report[d])]_diagnosticsVars

\* "Three features need "the current value of a named metric"" (metrics.py:5): a
\* rule of _default_rules whose condition holds for a snapshot finds the
\* diagnostics of that snapshot alarmed, too.  Not where the two are at odds:
\* a processor whose limit is above 103 degrees, and a battery that charges.
RulesAgreeWithChecks ==
  \A rule \in DefaultRules :
    /\ rule.domain \in DOMAIN store
    /\ Breached(rule, MetricsOf(rule.domain, store[rule.domain])[rule.metric])
    => \/ Worst(Results(rule.domain, store[rule.domain])) >= WARNING
       \/ rule.domain = "cpu" /\ Default(store["cpu"].critical, 100) > 103
       \/ rule.domain = "battery" /\ rule.metric = "percent" /\ store["battery"].charging
=============================================================================
