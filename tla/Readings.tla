------------------------------ MODULE Readings ------------------------------
(***************************************************************************)
(* What the collectors make of the readings of the machine: one operator   *)
(* per collector, from the files and tool outputs it reads to the fields   *)
(* of its snapshot that checks and metrics use.  Numbers are integers;     *)
(* None stands for a file that cannot be read, a placeholder of a vendor,  *)
(* an Unavailable and Python's None alike.                                 *)
(***************************************************************************)
EXTENDS Integers, Sequences, FiniteSets, FiniteSetsExt

CONSTANTS
  None,       \* no reading
  BatchSize   \* units per call of systemctl show

ASSUME ReadingsAssumption ==
  /\ BatchSize \in Nat \ {0}
  /\ None \notin Int \cup BOOLEAN

Truthy(x) == x # None /\ x # 0
Default(x, otherwise) == IF x # None THEN x ELSE otherwise
Positive(x) == IF x > 0 THEN x ELSE 0
Elements(s) == {s[i] : i \in DOMAIN s}
Largest(S) == CHOOSE x \in S : \A y \in S : y <= x
\* The elements of a sequence that are in S, in their order.
Kept(s, S) ==
  LET kept[n \in 0..Len(s)] ==
        IF n = 0 THEN <<>>
        ELSE IF s[n] \in S THEN Append(kept[n - 1], s[n])
        ELSE kept[n - 1]
  IN  kept[Len(s)]
FirstOf(s, Test(_)) == s[CHOOSE i \in DOMAIN s : Test(s[i]) /\ \A j \in 1..(i - 1) : ~Test(s[j])]

-----------------------------------------------------------------------------
(* What the machine may answer *)

Number == Int \cup {None}
Size == Nat \cup {None}

CpuReading(r) ==
  /\ {r.load, r.cores} \subseteq Int
  /\ r.chips \in Seq(Seq([label : {"package", "core", "other"}, value : Number, critical : Number]))

MemoryReading(r) ==
  /\ {r.total, r.free, r.available, r.swapTotal, r.swapFree} \subseteq Size
  /\ r.psi = None \/ r.psi \in [some : Int, full : Number]

\* Of a filesystem both sizes are known, or neither is.
StorageReading(r) ==
  /\ r.mounts \in Seq(Elements(r.mounts))
  /\ \A i \in DOMAIN r.mounts :
       {r.mounts[i].total, r.mounts[i].used} \in {{None}} \cup SUBSET Nat

GpuReading(r) ==
  /\ r.nvidia = None \/
     r.nvidia \in Seq([whole : BOOLEAN, identified : BOOLEAN, utilisation : Number,
                       clock : Number, temperature : Number, throttle : SUBSET STRING])
  /\ r.amd \in Seq([hwmon : BOOLEAN, utilisation : Number, clock : Number, temperature : Number])
  /\ r.intel \in Seq(Number)
  /\ r.chip \in Seq([label : {"package", "core", "other"}, value : Number])

SensorReading(r) == \A s \in r : {s.value, s.high, s.critical} \subseteq Number

ServiceReading(r) == r.units \in Seq(STRING)

BatteryReading(r) ==
  /\ r.found \in BOOLEAN
  /\ r.found =>
       /\ {r.capacity, r.psutil} \subseteq Number
       /\ {r.energyNow, r.energyFull, r.energyDesign} \subseteq Size
       /\ {r.chargeNow, r.chargeFull, r.chargeDesign, r.voltage} \subseteq Size

-----------------------------------------------------------------------------
(* Processor *)

Readable(chip) == {r \in Elements(chip) : r.value # None}
Heat(r) == [temperature |-> r.value, critical |-> IF Truthy(r.critical) THEN r.critical ELSE None]

\* _read_temperatures: the first chip of those tried that has a reading, and on
\* it the sensor of the package, else the hottest core, else the first sensor.
ProcessorHeat(chips) ==
  LET HasReading(chip) == Readable(chip) # {}
      chip == FirstOf(chips, HasReading)
      IsPackage(r) == r.value # None /\ r.label = "package"
      Answers(r) == r.value # None
      cores == {r.value : r \in {x \in Readable(chip) : x.label = "core"}}
  IN  IF \A c \in Elements(chips) : ~HasReading(c)
        THEN [temperature |-> None, critical |-> None]
      ELSE IF \E r \in Elements(chip) : IsPackage(r) THEN Heat(FirstOf(chip, IsPackage))
      ELSE IF cores # {} THEN [temperature |-> Largest(cores), critical |-> None]
      ELSE Heat(FirstOf(chip, Answers))

CpuSnapshot(r) ==
  LET heat == ProcessorHeat(r.chips)
  IN  [load |-> r.load, cores |-> r.cores,
       temperature |-> heat.temperature, critical |-> heat.critical]

NoCpuSnapshot == [load |-> 0, cores |-> 1, temperature |-> None, critical |-> None]

-----------------------------------------------------------------------------
(* Memory *)

\* _read_pressure: "full" where the kernel has it.
Pressure(psi) == IF psi = None THEN None ELSE Default(psi.full, psi.some)

\* A line that meminfo lacks counts as zero, but available memory as free.
MemorySnapshot(r) ==
  LET total == Default(r.total, 0)
      available == Default(r.available, Default(r.free, 0))
      swapTotal == Default(r.swapTotal, 0)
  IN  [total |-> total, available |-> available, used |-> Positive(total - available),
       swapTotal |-> swapTotal, swapUsed |-> Positive(swapTotal - Default(r.swapFree, 0)),
       pressure |-> Pressure(r.psi)]

NoMemorySnapshot ==
  [total |-> 0, available |-> 0, used |-> 0, swapTotal |-> 0, swapUsed |-> 0, pressure |-> None]

-----------------------------------------------------------------------------
(* Storage *)

\* _read_mounts: filesystems by the last part of their device's path, the last
\* mounted one winning; those of a network are listed but not measured.
Filesystems(mounts) ==
  LET Last(i) == \A j \in DOMAIN mounts : mounts[j].device = mounts[i].device => j <= i
  IN  {[device |-> mounts[i].device,
        total |-> IF mounts[i].remote THEN None ELSE mounts[i].total,
        used |-> IF mounts[i].remote THEN None ELSE mounts[i].used] :
       i \in {k \in DOMAIN mounts : Last(k)}}

\* Which rows of the NVMe log, and of the ATA table, speak against a drive.
Concerning(a) ==
  \/ a.row = "used" /\ a.value >= 90
  \/ a.row = "spare" /\ a.value < 10
  \/ a.row \in {"media errors", "critical warning"} /\ a.value # 0
  \/ a.row = "sectors" /\ Truthy(a.raw)
  \/ a.row \in {"sectors", "other"} /\ a.threshold > 0 /\ a.value <= a.threshold

UnknownHealth == [verdict |-> "unknown", temperature |-> None]

\* SmartReader.read: smartctl's exit bits 0 and 1 are refusals, the others warnings.
Smart(s) ==
  IF s = None THEN UnknownHealth
  ELSE IF s.refused THEN UnknownHealth
  ELSE [verdict |-> IF s.passed = None THEN "unknown"
                    ELSE IF ~s.passed THEN "failing"
                    ELSE IF \E a \in s.attributes : Concerning(a) THEN "warning"
                    ELSE "passed",
        temperature |-> s.temperature]

\* Any NVMe drive whose health has no temperature is given that of the first.
Health(d, nvme) ==
  LET health == Smart(d.smart)
  IN  [name |-> d.name, verdict |-> health.verdict,
       temperature |-> IF health.temperature = None /\ d.nvme THEN nvme ELSE health.temperature]

StorageSnapshot(r) ==
  [filesystems |-> Filesystems(r.mounts),
   disks |-> {Health(d, r.nvme) : d \in r.disks}]

NoStorageSnapshot == [filesystems |-> {}, disks |-> {}]

-----------------------------------------------------------------------------
(* Graphics *)

\* _decode_throttle
Throttle(reasons) == IF reasons = {"GPU idle"} THEN {} ELSE reasons

\* _query: the rows that have all their fields; none if nvidia-smi fails.
WholeRows(rows) ==
  IF rows = None THEN <<>> ELSE Kept(rows, {row \in Elements(rows) : row.whole})

\* Of them those of adapters that _identify knows.
NvidiaSamples(rows) ==
  LET whole == WholeRows(rows)
      Sample(row) == [utilisation |-> row.utilisation, clock |-> row.clock,
                      temperature |-> row.temperature, throttle |-> Throttle(row.throttle)]
      known == Kept(whole, {row \in Elements(whole) : row.identified})
  IN  [i \in DOMAIN known |-> Sample(known[i])]

\* Clock and temperature of an AMD card are in its hwmon directory.
AmdSample(card) ==
  LET Monitored(x) == IF card.hwmon THEN x ELSE None
  IN  [utilisation |-> card.utilisation, clock |-> Monitored(card.clock),
       temperature |-> Monitored(card.temperature), throttle |-> {}]

\* _read_temperature: integrated graphics are as hot as the processor's package.
PackageHeat(chip) ==
  LET IsPackage(r) == r.label = "package"
  IN  IF chip = <<>> THEN None
      ELSE IF \E r \in Elements(chip) : IsPackage(r) THEN FirstOf(chip, IsPackage).value
      ELSE Head(chip).value

\* An Intel card tells its clock if it has a driver, and its utilisation never.
IntelSample(clock, chip) ==
  [utilisation |-> None, clock |-> clock, temperature |-> PackageHeat(chip), throttle |-> {}]

\* Those with a driver come first.
IntelSamples(clocks, chip) ==
  LET ordered == Kept(clocks, Elements(clocks) \ {None}) \o Kept(clocks, {None})
  IN  [i \in DOMAIN ordered |-> IntelSample(ordered[i], chip)]

\* safe_sample: a vendor whose back end raised has no adapters.
Isolated(r, vendor, samples) == IF vendor \in r.raised THEN <<>> ELSE samples

GpuSnapshot(r) ==
  Isolated(r, "nvidia", NvidiaSamples(r.nvidia))
    \o Isolated(r, "amd", [i \in DOMAIN r.amd |-> AmdSample(r.amd[i])])
    \o Isolated(r, "intel", IntelSamples(r.intel, r.chip))

NoGpuSnapshot == <<>>

\* GpuSnapshot.primary: the busiest adapter, else the first.
Primary(gpus) ==
  LET Busiest(g) == /\ g.utilisation # None
                    /\ \A h \in Elements(gpus) : h.utilisation # None =>
                         h.utilisation <= g.utilisation
  IN  IF \E g \in Elements(gpus) : g.utilisation # None THEN FirstOf(gpus, Busiest)
      ELSE Head(gpus)

-----------------------------------------------------------------------------
(* Sensors *)

\* Temperatures and fans are listed as they are, the electrical ones if read.
SensorSnapshot(r) ==
  {s \in r : s.kind \in {"temperature", "fan"} \/ s.value # None}

NoSensorSnapshot == {}

\* Sensor.status
Status(s) ==
  LET v == 100 * s.value
      critical == Truthy(s.critical)
      high == Truthy(s.high)
  IN  IF s.kind # "temperature" \/ s.value = None THEN "unknown"
      ELSE IF critical /\ s.value >= s.critical THEN "critical"
      ELSE IF high /\ s.value >= s.high THEN "hot"
      ELSE IF critical /\ v >= 85 * s.critical THEN "hot"
      ELSE IF high /\ v >= 85 * s.high THEN "warm"
      ELSE IF high \/ critical THEN "normal"
      ELSE IF s.value >= 90 THEN "critical"
      ELSE IF s.value >= 80 THEN "hot"
      ELSE IF s.value >= 70 THEN "warm"
      ELSE "normal"

\* The status of the hottest sensor.
MutantWorstStatus(sensors) ==
  LET heats == {s \in sensors : s.kind = "temperature" /\ s.value # None}
      hottest == CHOOSE s \in heats : \A t \in heats : t.value <= s.value
  IN  IF heats = {} THEN "fine"
      ELSE IF Status(hottest) \in {"critical", "hot"} THEN Status(hottest) ELSE "fine"

\* SensorSnapshot.worst_status, as far as the checks distinguish.
WorstStatus(sensors) ==
  LET statuses == {Status(s) : s \in sensors}
  IN  IF "critical" \in statuses THEN "critical" ELSE IF "hot" \in statuses THEN "hot" ELSE "fine"

-----------------------------------------------------------------------------
(* Battery *)

\* _read_capacity: energy, or charge times voltage.
Energy(r) ==
  IF r.energyNow # None \/ r.energyFull # None
    THEN [now |-> r.energyNow, full |-> r.energyFull, design |-> r.energyDesign]
  ELSE LET Times(charge) == IF charge = None \/ ~Truthy(r.voltage) THEN None
                            ELSE charge * r.voltage
       IN  [now |-> Times(r.chargeNow), full |-> Times(r.chargeFull),
            design |-> Times(r.chargeDesign)]

\* Whole percents, rounded down; at most 100.
PercentOf(part, whole) == IF part >= whole THEN 100 ELSE (100 * part) \div whole

\* _read_percent, with psutil's figure as the last resort.
Charge(r) ==
  LET e == Energy(r)
  IN  IF r.capacity # None THEN r.capacity
      ELSE IF e.now # None /\ Truthy(e.full) THEN PercentOf(e.now, e.full)
      ELSE r.psutil

\* BatterySnapshot.health_percent
Endurance(full, design) ==
  IF full # None /\ Truthy(design) THEN PercentOf(full, design) ELSE None

BatterySnapshot(r) ==
  IF ~r.found THEN [present |-> FALSE, percent |-> None, health |-> None, charging |-> FALSE]
  ELSE [present |-> TRUE, percent |-> Charge(r), charging |-> r.status = "charging",
        health |-> Endurance(Energy(r).full, Energy(r).design)]

NoBatterySnapshot == [present |-> FALSE, percent |-> None, health |-> None, charging |-> FALSE]

-----------------------------------------------------------------------------
(* Network *)

\* _classify: what the kernel says goes before the name, but for tunnels and
\* virtual devices.
Class(i) ==
  IF i.name = "lo" \/ i.type = 772 THEN "loopback"
  ELSE IF i.wireless THEN "wireless"
  ELSE IF i.bridge THEN "bridge"
  ELSE IF i.name = "tun" THEN "tunnel"
  ELSE IF i.name = "veth" THEN "virtual"
  ELSE IF i.type = 32 THEN "bluetooth"
  ELSE IF i.name = "wwan" \/ i.type = 530 THEN "cellular"
  ELSE IF i.type = 1 THEN "ethernet"
  ELSE "unknown"

\* _aggregate leaves out what mirrors or never leaves the machine.
Aggregate(interfaces) ==
  LET Errors(i) == i.errors
  IN  MapThenSumSet(Errors, {i \in interfaces : Class(i) \notin {"loopback", "bridge", "virtual"}})

\* online asks for an IPv4 address.
NetworkSnapshot(interfaces) ==
  [online |-> \E i \in interfaces : i.up /\ Class(i) # "loopback" /\ i.ipv4,
   errors |-> Aggregate(interfaces)]

NoNetworkSnapshot == [online |-> FALSE, errors |-> 0]

-----------------------------------------------------------------------------
(* Services and processes *)

\* The state of a unit is unknown when the call of systemctl show for its batch
\* gave no output.
ServiceSnapshot(r) ==
  IF ~r.systemd THEN <<>>
  ELSE [i \in DOMAIN r.units |->
          IF (i - 1) \div BatchSize \in r.answered THEN r.units[i] ELSE "unknown"]

NoServiceSnapshot == <<>>

Failed(units) == {i \in DOMAIN units : units[i] = "failed"}

ProcessSnapshot(r) == [zombie |-> r]
NoProcessSnapshot == [zombie |-> 0]
=============================================================================
