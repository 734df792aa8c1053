---------------------------- MODULE Capabilities ----------------------------
(***************************************************************************)
(* app/core/capabilities.py: what the machine offers, probed feature by    *)
(* feature, each answer kept as a cached_property.  Since Python 3.12 such *)
(* a property takes no lock: a thread that finds nothing kept probes, and  *)
(* keeps what it found whatever others have kept meanwhile.                *)
(***************************************************************************)
EXTENDS Naturals, FiniteSets

CONSTANTS
  Features,    \* the properties of CapabilityRegistry that are looked at
  Readers,     \* threads that read them
  MaxChanges   \* bound on the changes of the machine

ASSUME CapabilitiesAssumption == MaxChanges \in Nat

VARIABLES
  machine,     \* for a feature: its tool is on PATH, its node exists and can be read
  root,        \* the effective user is root
  kept,        \* the cached answers
  probing,     \* what a reader has found and not kept yet
  told,        \* for a feature, the answers it ever gave
  changes      \* how often the machine changed

capabilityVars == <<machine, root, kept, probing, told, changes>>

Unprobed == "unprobed"
Nowhere == [feature |-> "none", found |-> Unprobed]
Facts == [tool : BOOLEAN, node : BOOLEAN, readable : BOOLEAN]

-----------------------------------------------------------------------------
(* The probes *)

\* _tool: a command that is missing.
Tool(m) == IF m.tool THEN "available" ELSE "no tool"

\* _path and _any_glob, with the reason that each of them gives.
Node(m, otherwise) == IF m.node THEN "available" ELSE otherwise

Tools == {"polkit", "glxinfo", "vulkaninfo", "lsblk", "ping", "ss", "resolvectl", "journal", "lspci",
          "lsusb", "upower"}

HardwareProbes == {"cpu_frequency", "cpu_turbo", "cpu_governor", "psi", "hugepages", "zram", "amdgpu",
                   "intel_gpu", "rapl_power", "nvidia"}
HardwareProbe(f, m) ==
  CASE f \in {"cpu_frequency", "cpu_turbo"}        -> Node(m, "not exposed")
    [] f \in {"cpu_governor", "psi", "hugepages"}  -> Node(m, "unsupported")
    [] f = "zram"                                  -> Node(m, "no hardware")
    [] f \in {"amdgpu", "intel_gpu"}               -> Node(m, "no driver")
    [] f = "rapl_power" -> IF m.node /\ ~m.readable THEN "permission" ELSE Node(m, "no driver")
    [] f = "nvidia"     -> IF m.tool THEN Node(m, "no driver") ELSE "no driver"

SystemProbes == {"smartctl", "systemd", "dmi", "battery", "hwmon"}
SystemProbe(f, m) ==
  CASE f = "smartctl"              -> IF m.tool /\ ~root THEN "permission" ELSE Tool(m)
    [] f = "systemd"               -> IF m.tool THEN Node(m, "unsupported") ELSE Tool(m)
    [] f = "dmi"                   -> Node(m, "unsupported")
    [] f \in {"battery", "hwmon"}  -> Node(m, "no hardware")

ASSUME FeaturesAssumption == Features \subseteq Tools \cup HardwareProbes \cup SystemProbes

Probe(f, m) ==
  IF f \in Tools THEN Tool(m) ELSE IF f \in SystemProbes THEN SystemProbe(f, m) ELSE HardwareProbe(f, m)

-----------------------------------------------------------------------------

CapabilitiesInit ==
  /\ machine \in [Features -> Facts]
  /\ root \in BOOLEAN
  /\ kept = [f \in Features |-> Unprobed]
  /\ probing = [r \in Readers |-> Nowhere]
  /\ told = [f \in Features |-> {}]
  /\ changes = 0

\* Tools are installed, modules loaded, devices come and go.
Change(f, m) ==
  /\ changes < MaxChanges
  /\ m # machine[f]
  /\ machine' = [machine EXCEPT ![f] = m]
  /\ changes' = changes + 1
  /\ UNCHANGED <<root, kept, probing, told>>

Tell(f, found) == told' = [told EXCEPT ![f] = @ \cup {found}]

\* A property is read.
Read(r, f) ==
  /\ probing[r] = Nowhere
  /\ IF kept[f] # Unprobed
       THEN Tell(f, kept[f]) /\ UNCHANGED probing
       ELSE probing' = [probing EXCEPT ![r] = [feature |-> f, found |-> Probe(f, machine[f])]]
              /\ UNCHANGED told
  /\ UNCHANGED <<machine, root, kept, changes>>

\* What was found is kept, and returned.
Store(r) ==
  LET p == probing[r]
  IN  /\ p # Nowhere
      /\ kept' = [kept EXCEPT ![p.feature] = p.found]
      /\ Tell(p.feature, p.found)
      /\ probing' = [probing EXCEPT ![r] = Nowhere]
      /\ UNCHANGED <<machine, root, changes>>

\* snapshot() has read every property.
AllProbed == \A f \in Features : kept[f] # Unprobed

-----------------------------------------------------------------------------
(* Properties *)

\* "Every property is a functools.cached_property, so the underlying filesystem or
\* PATH probe happens at most once per process" (capabilities.py:71): whoever reads
\* a feature, from whichever thread and however the machine changes, is told the
\* same, so that a collector and the page that explains it never disagree.
OneView == \A f \in Features : Cardinality(told[f]) <= 1
=============================================================================
