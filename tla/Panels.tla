------------------------------- MODULE Panels -------------------------------
(***************************************************************************)
(* The parts of a page that grow with the machine: a bar per swap area, a  *)
(* section per disk, a row per zram device, and the tiles whose colour     *)
(* depends on a reading.  Things come and go between snapshots; a snapshot *)
(* that arrives while the page is hidden paints nothing.                   *)
(*                                                                         *)
(* The body of a page is a function from keys to rows.  Each kind of body  *)
(* has its own way of taking a snapshot, Apply(body, rows, snapshot).  A   *)
(* snapshot is the sequence of the things found, each with the name it is  *)
(* listed under, the unit that bears the name, and a reading.              *)
(***************************************************************************)
EXTENDS Naturals, Sequences, FiniteSets

CONSTANTS
  Kinds,      \* the bodies considered
  Names,      \* paths, mount points, interface and chip names
  Units,      \* the devices that bear a name
  NoValue,    \* a reading that is unavailable
  NoSnapshot, \* nothing delivered yet
  Limit,      \* how many things a dashboard card lists
  MaxThings   \* bound on the things in a snapshot

Calm == 0
Alarm == 1
Values == {Calm, Alarm, NoValue}

Things == [name : Names, unit : Units, value : Values]
Snapshots ==
  {s \in UNION {[1..n -> Things] : n \in 0..MaxThings} :
     \A i, j \in DOMAIN s : s[i].name = s[j].name => i = j}

Keys == Names \cup {1, 2} \cup (1..MaxThings)
NoRows == [k \in {} |-> NoValue]

ByName == {"swap", "filesystems", "interfaces", "disks", "chips", "sensors", "mounts"}
OnDashboard == {"thermals", "alerts", "mounts", "primary", "status"}
Tiles == {"tile", "status", "label"}
AllKinds ==
  ByName \cup Tiles \cup {"thermals", "alerts", "cores", "adapters", "primary", "ring", "health",
                          "battery", "zram", "hugepages", "cache"}

ASSUME PanelsAssumption ==
  /\ Kinds \subseteq AllKinds
  /\ NoValue \notin {Calm, Alarm}
  /\ NoSnapshot \notin Snapshots
  /\ Names \cap Nat = {}
  /\ Limit \in Nat
  /\ MaxThings \in Nat

VARIABLES
  body,     \* the body of this behaviour
  built,    \* Page._built
  visible,  \* Page._visible
  latest,   \* MainWindow._latest, and _latest of the dashboard once that is built
  applied,  \* the last snapshot that reached the widgets
  widgets   \* the widgets, by key

panelsVars == <<body, built, visible, latest, applied, widgets>>

-----------------------------------------------------------------------------
(* Widgets *)

\* A bar or section: its colour is that of its value, if it has one.
ColourOf(v) == IF v = Alarm THEN "alarm" ELSE "plain"
Bar(title, v) == [title |-> title, value |-> v, colour |-> ColourOf(v), shown |-> TRUE]
Hide(row) == [row EXCEPT !.shown = FALSE]

\* StatTile.set_value: without a colour the tile keeps the one it has.
SetValue(row, v, colour) ==
  [row EXCEPT !.value = v, !.colour = IF colour = "none" THEN @ ELSE colour]

\* StatTile.set_from: an absent reading dims the tile.
SetFrom(row, v, colour) ==
  IF v = NoValue THEN SetValue(row, v, "dim") ELSE SetValue(row, v, colour)

\* KeyValueTable._set_label: the same, without colours of its own.
SetLabel(row, v) == SetFrom(row, v, "none")

\* KeyValueTable.update_many ignores keys it has no row for.
SetRows(table, S, value(_)) ==
  [k \in DOMAIN table |-> IF k \in S THEN SetLabel(table[k], value(k)) ELSE table[k]]
AddRows(S) ==
  [k \in S |-> [title |-> k, value |-> NoValue, colour |-> "plain", shown |-> TRUE]]

-----------------------------------------------------------------------------
(* Bodies of pages *)

NamesIn(s) == {s[i].name : i \in DOMAIN s}
ThingNamed(s, n) == s[CHOOSE i \in DOMAIN s : s[i].name = n]
Top(s) == SubSeq(s, 1, IF Len(s) < Limit THEN Len(s) ELSE Limit)
WithValue(s) == {n \in NamesIn(s) : ThingNamed(s, n).value # NoValue}

\* A widget per name of S; those of absent things are hidden and come back.
Listed(old, S, s, title(_)) ==
  [k \in DOMAIN old \cup S |->
     IF k \in S THEN Bar(title(k), ThingNamed(s, k).value) ELSE Hide(old[k])]

\* The title of a section is given when it is made.
TitleKept(old, s, k) == IF k \in DOMAIN old THEN old[k].title ELSE ThingNamed(s, k).unit

\* Bars of departed areas are not hidden.
MutantSwapBars(old, s) ==
  [k \in DOMAIN old \cup NamesIn(s) |->
     IF k \in NamesIn(s) THEN Bar(ThingNamed(s, k).unit, ThingNamed(s, k).value) ELSE old[k]]

SwapBars(old, s) == Listed(old, NamesIn(s), s, LAMBDA k : ThingNamed(s, k).unit)
FilesystemBars(old, s) == Listed(old, WithValue(s), s, LAMBDA k : k)
InterfaceSections(old, s) == Listed(old, NamesIn(s), s, LAMBDA k : TitleKept(old, s, k))

\* A widget per place in the list, retitled each time; those beyond it are hidden.
Placed(old, s, value(_)) ==
  [k \in DOMAIN old \cup DOMAIN s |->
     IF k \in DOMAIN s THEN Bar(s[k].unit, value(s[k].value)) ELSE Hide(old[k])]

\* A sensor without a reading is drawn at zero.
ThermalBars(old, s) == Placed(old, Top(s), LAMBDA v : IF v = NoValue THEN Calm ELSE v)
AlertLabels(old, s) == Placed(old, s, LAMBDA v : v)

\* A bar that was hidden because there were fewer cores is never shown again.
CoreBars(old, s) ==
  [k \in DOMAIN old \cup DOMAIN s |->
     IF k \notin DOMAIN s THEN Hide(old[k])
     ELSE [Bar(s[k].unit, s[k].value) EXCEPT
             !.shown = IF k \in DOMAIN old THEN old[k].shown ELSE TRUE]]

\* A section per name that stays when the thing is gone.
Gathered(old, s, title(_)) ==
  [k \in DOMAIN old \cup NamesIn(s) |->
     IF k \in NamesIn(s) THEN Bar(title(k), ThingNamed(s, k).value) ELSE old[k]]

\* A section for a name that is known already keeps its reading.
MutantDeviceSections(old, s) ==
  [k \in DOMAIN old \cup NamesIn(s) |->
     IF k \in DOMAIN old THEN old[k] ELSE Bar(ThingNamed(s, k).unit, ThingNamed(s, k).value)]

DeviceSections(old, s) == Gathered(old, s, LAMBDA k : TitleKept(old, s, k))
ChipSections(old, s) == Gathered(old, s, LAMBDA k : TitleKept(old, s, k))
SensorBars(old, s) == Gathered(old, s, LAMBDA k : TitleKept(old, s, k))
MountBars(old, s) == Gathered(old, Top(s), LAMBDA k : k)

\* A section per index; the adapters found are numbered anew in each sample.
AdapterTitle(old, s, k) == IF k \in DOMAIN old THEN old[k].title ELSE s[k].unit
AdapterSections(old, s) ==
  [k \in DOMAIN old \cup DOMAIN s |->
     IF k \in DOMAIN s THEN Bar(AdapterTitle(old, s, k), s[k].value) ELSE old[k]]

\* A table whose rows are those of the first snapshot that lists anything.
TableOnce(old, S, s) ==
  IF S = {} THEN old
  ELSE SetRows(IF old = NoRows THEN AddRows(S) ELSE old, S, LAMBDA k : ThingNamed(s, k).value)
ZramTable(old, s) == TableOnce(old, NamesIn(s), s)
HugepageTable(old, s) == TableOnce(old, WithValue(s), s)

\* The sizes of the caches are taken from the first snapshot that has them.
CacheTable(old, s) ==
  IF old = NoRows THEN [k \in NamesIn(s) |-> SetLabel(AddRows({k})[k], ThingNamed(s, k).value)]
  ELSE old

\* A tile or label of its own, built with the page.
Reading(s) == IF s = <<>> THEN NoValue ELSE s[1].value
OneRow(old) == IF old = NoRows THEN AddRows({1})[1] ELSE old[1]
One(row) == [k \in {1} |-> row]

\* The ring of a reading, pinned to the colour of each value it gets.
TemperatureRing(old, s) == One(Bar(1, Reading(s)))

\* The health of the disk or battery of a section: a badge, and a bar of the
\* wear if that is known.
HealthRows(v) ==
  [k \in {1, 2} |-> IF k = 2 /\ v = NoValue THEN Hide(Bar(k, v)) ELSE Bar(k, v)]

HealthPanel(old, s) == HealthRows(Reading(s))
BatteryCards(old, s) ==
  IF s = <<>> THEN [k \in DOMAIN old |-> Hide(old[k])] ELSE HealthRows(Reading(s))

\* Without an adapter the ring of the dashboard's card is emptied, and the name
\* beside it stays.
PrimaryCard(old, s) ==
  [k \in {1, 2} |->
     IF k = 1 THEN Bar(1, Reading(s))
     ELSE IF s # <<>> THEN Bar(s[1].unit, s[1].value)
     ELSE IF old = NoRows THEN AddRows({2})[2] ELSE old[2]]

AlarmTile(old, s) ==
  One(SetFrom(OneRow(old), Reading(s), IF Reading(s) = Alarm THEN "alarm" ELSE "none"))
StatusTile(old, s) == One(SetValue(OneRow(old), Reading(s), ColourOf(Reading(s))))
DetailLabel(old, s) == One(SetLabel(OneRow(old), Reading(s)))

Apply(k, old, s) ==
  CASE k = "swap"        -> SwapBars(old, s)
    [] k = "filesystems" -> FilesystemBars(old, s)
    [] k = "interfaces"  -> InterfaceSections(old, s)
    [] k = "thermals"    -> ThermalBars(old, s)
    [] k = "alerts"      -> AlertLabels(old, s)
    [] k = "cores"       -> CoreBars(old, s)
    [] k = "disks"       -> DeviceSections(old, s)
    [] k = "chips"       -> ChipSections(old, s)
    [] k = "sensors"     -> SensorBars(old, s)
    [] k = "mounts"      -> MountBars(old, s)
    [] k = "adapters"    -> AdapterSections(old, s)
    [] k = "zram"        -> ZramTable(old, s)
    [] k = "hugepages"   -> HugepageTable(old, s)
    [] k = "cache"       -> CacheTable(old, s)
    [] k = "ring"        -> TemperatureRing(old, s)
    [] k = "health"      -> HealthPanel(old, s)
    [] k = "battery"     -> BatteryCards(old, s)
    [] k = "primary"     -> PrimaryCard(old, s)
    [] k = "tile"        -> AlarmTile(old, s)
    [] k = "status"      -> StatusTile(old, s)
    [] k = "label"       -> DetailLabel(old, s)

-----------------------------------------------------------------------------
(* Pages *)

Row == [title : Units \cup Keys, value : Values, colour : {"plain", "alarm", "dim"},
        shown : BOOLEAN]

PanelsTypeOK ==
  /\ body \in Kinds
  /\ built \in BOOLEAN
  /\ visible \in BOOLEAN
  /\ latest \in Snapshots \cup {NoSnapshot}
  /\ applied \in Snapshots \cup {NoSnapshot}
  /\ DOMAIN widgets \subseteq Keys
  /\ \A k \in DOMAIN widgets : widgets[k] \in Row
  /\ visible => built

PanelsInit ==
  /\ body \in Kinds
  /\ built = FALSE
  /\ visible = FALSE
  /\ latest = NoSnapshot
  /\ applied = NoSnapshot
  /\ widgets = NoRows

Paint(s) ==
  /\ applied' = s
  /\ widgets' = Apply(body, widgets, s)

\* Page.on_snapshot, called by the window for a page that is built.
OnSnapshot(s) ==
  /\ latest' = s
  /\ IF built /\ visible THEN Paint(s) ELSE UNCHANGED <<applied, widgets>>
  /\ UNCHANGED <<body, built, visible>>

\* The first visit builds the page and replays the snapshot the window holds;
\* the dashboard repaints from its own on every visit.  Other pages wait for
\* the sample they request.
Replays == body \in OnDashboard \/ ~built

OnShown ==
  /\ ~visible
  /\ visible' = TRUE
  /\ built' = TRUE
  /\ IF Replays /\ latest # NoSnapshot THEN Paint(latest) ELSE UNCHANGED <<applied, widgets>>
  /\ UNCHANGED <<body, latest>>

OnHidden ==
  /\ visible
  /\ visible' = FALSE
  /\ UNCHANGED <<body, built, latest, applied, widgets>>

\* The dashboard makes its cards anew when its columns or widgets are changed.
Rebuild ==
  /\ body \in OnDashboard
  /\ visible
  /\ applied' = latest
  /\ widgets' = IF latest = NoSnapshot THEN NoRows ELSE Apply(body, NoRows, latest)
  /\ UNCHANGED <<body, built, visible, latest>>

PanelsNext ==
  \/ \E s \in Snapshots : OnSnapshot(s)
  \/ OnShown
  \/ OnHidden
  \/ Rebuild

PanelsSpec == PanelsInit /\ [][PanelsNext]_panelsVars

-----------------------------------------------------------------------------
(* Properties *)

\* The snapshot the user believes to look at.
Reference == IF body \in OnDashboard /\ visible THEN latest ELSE applied

Seen(rs) == [k \in {k \in DOMAIN rs : rs[k].shown} |-> rs[k]]
SeenUntitled(rs) == [k \in {k \in DOMAIN rs : rs[k].shown} |-> [rs[k] EXCEPT !.title = k]]

Faithful == {"swap", "filesystems", "thermals", "alerts", "status", "ring", "health", "battery"}

\* What a page shows depends on the last snapshot and not on the ones before
\* it: it looks as if it had just been opened, whatever came and went since.
\* For interfaces that holds of all but the title, which is that of the device
\* first seen under the name.  Every variable keeps its type.
ShowsWhatAFreshPageWould ==
  /\ PanelsTypeOK
  /\ Reference # NoSnapshot =>
       /\ body \in Faithful => Seen(widgets) = Seen(Apply(body, NoRows, Reference))
       /\ body = "interfaces" =>
            SeenUntitled(widgets) = SeenUntitled(Apply(body, NoRows, Reference))

\* A thing of the last snapshot is on the page, with its last reading, also
\* where sections of departed things stay; an alarming reading has the colour
\* of an alarm, whatever was shown before.
WhatIsThereIsShown ==
  Reference # NoSnapshot =>
    /\ body \in {"swap", "interfaces", "disks", "chips", "sensors"} =>
         \A n \in NamesIn(Reference) :
           n \in DOMAIN widgets /\ widgets[n].shown /\ widgets[n].value = ThingNamed(Reference, n).value
    /\ body \in {"alerts", "adapters"} =>
         \A i \in DOMAIN Reference :
           i \in DOMAIN widgets /\ widgets[i].shown /\ widgets[i].value = Reference[i].value
    /\ body \in {"tile", "status"} =>
         /\ widgets[1].value = Reading(Reference)
         /\ Reading(Reference) = Alarm => widgets[1].colour = "alarm"
=============================================================================
