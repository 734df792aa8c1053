--------------------------- MODULE LifecycleProofs ---------------------------
(* What TLC checks of Lifecycle on a small instance, proved for any services *)
(* and threads, any wiring of the container, any machine and any length of   *)
(* the run: first of the sensor readings, then of the capabilities, then of  *)
(* the container.                                                            *)
EXTENDS Lifecycle, SequenceTheorems, FiniteSetTheorems, TLAPS

-----------------------------------------------------------------------------
(* The sensor readings *)

\* What a worker in _cached() relies on: entries are stamped before they are made,
\* and a call has read the clock before now.
ReadingsInv ==
  /\ now \in Nat
  /\ cache \in [Scans -> [stamp : Int, made : Int, ok : BOOLEAN]]
  /\ \A k \in Scans : cache[k].stamp <= cache[k].made
  /\ call \in [Workers -> [key : Scans \cup {"none"}, asked : Int]]
  /\ \A w \in Workers : call[w] # Idle => call[w].key \in Scans /\ call[w].asked <= now
  /\ \A w \in Workers : scanning = w => call[w] # Idle
  /\ ReadingsAreFresh

\* No reading is given at the start.
LEMMA ReadingsStart == Init => ReadingsInv
  BY HwmonAssumption DEF Init, HwmonInit, ReadingsInv, ReadingsAreFresh, Never, Idle

\* What any step leaves of the readings, and what the collectors do to them.
LEMMA ReadingsStep == ReadingsInv /\ [Next]_vars => ReadingsInv'
<1> SUFFICES ASSUME ReadingsInv, [Next]_vars
             PROVE  ReadingsInv'
  OBVIOUS
<1> USE DEF ReadingsInv
<1>1. CASE UNCHANGED hwmonVars
  BY <1>1 DEF hwmonVars, ReadingsAreFresh
<1>2. CASE Tick
  BY <1>2 DEF Tick, ReadingsAreFresh
<1>3. ASSUME NEW w \in Workers, NEW k \in Scans, Ask(w, k)
      PROVE  ReadingsInv'
  BY <1>3, HwmonAssumption DEF Ask, ReadingsAreFresh, Idle
<1>4. ASSUME NEW w \in Workers, Hit(w)
      PROVE  ReadingsInv'
  BY <1>4, HwmonAssumption DEF Hit, Return, Fresh, ReadingsAreFresh, Idle
<1>5. ASSUME NEW w \in Workers, StartScan(w)
      PROVE  ReadingsInv'
  BY <1>5, HwmonAssumption DEF StartScan, ReadingsAreFresh
<1>6. ASSUME NEW w \in Workers, Escape(w)
      PROVE  ReadingsInv'
  BY <1>6, HwmonAssumption DEF Escape, ReadingsAreFresh, Idle
<1>7. ASSUME NEW w \in Workers, NEW ok \in BOOLEAN, EndScan(w, ok)
      PROVE  ReadingsInv'
  <2>1. call[w] # Idle /\ call[w].key \in Scans /\ call[w].asked \in Int /\ call[w].asked <= now
    BY <1>7 DEF EndScan
  <2>2. cache' = [cache EXCEPT ![call[w].key] =
                    [stamp |-> call[w].asked, made |-> now, ok |-> ok]]
    BY <1>7 DEF EndScan
  <2>3. /\ given' = [asked |-> call[w].asked, made |-> now, ok |-> ok]
        /\ call' = [call EXCEPT ![w] = Idle]
        /\ scanning' = NoWorker /\ now' = now
    BY <1>7 DEF EndScan, Return
  <2>4. ReadingsAreFresh'
    BY <2>1, <2>3, HwmonAssumption DEF ReadingsAreFresh
  <2>5. /\ cache' \in [Scans -> [stamp : Int, made : Int, ok : BOOLEAN]]
        /\ \A k \in Scans : cache'[k].stamp <= cache'[k].made
    BY <2>1, <2>2
  <2> QED
    BY <2>3, <2>4, <2>5, HwmonAssumption DEF Idle
<1>8. CASE Next
  <2>1. CASE Sample
    BY <1>2, <1>3, <1>4, <1>5, <1>6, <1>7, <2>1 DEF Sample
  <2>2. CASE Program
    <3>1. UNCHANGED hwmonVars
      BY <2>2 DEF Program, Request, Abort, Run, Inspect, Quit, Shutdown, shared
    <3> QED
      BY <1>1, <3>1
  <2>3. CASE Alone
    BY <1>1, <2>3 DEF Alone, shared
  <2> QED
    BY <1>8, <2>1, <2>2, <2>3 DEF Next
<1> QED
  BY <1>1, <1>8 DEF vars

\* No worker is ever given a reading that was made longer than the TTL before
\* its call, for any number of workers, scans and exceptions (hwmon.py:62-80).
THEOREM FreshReadings == Spec => []ReadingsAreFresh
<1>1. ReadingsInv => ReadingsAreFresh
  BY DEF ReadingsInv
<1> QED
  BY ReadingsStart, ReadingsStep, <1>1, PTL DEF Spec

-----------------------------------------------------------------------------
(* The capabilities *)

Verdicts == {"available", "no tool", "no driver", "no hardware", "not exposed", "unsupported",
             "permission"}

\* A probe gives one of the reasons, and always something.
LEMMA ProbeType ==
  ASSUME NEW f \in Features, NEW m \in Facts
  PROVE  Probe(f, m) \in Verdicts
<1>1. f \in Tools \/ f \in SystemProbes \/ f \in HardwareProbes
  BY FeaturesAssumption
<1>2. Tool(m) \in {"available", "no tool"}
  BY DEF Tool
<1>3. \A reason \in Verdicts : Node(m, reason) \in Verdicts
  BY DEF Node, Verdicts
<1>4. f \in SystemProbes => SystemProbe(f, m) \in Verdicts
  BY <1>2, <1>3 DEF SystemProbe, SystemProbes, Verdicts
<1>5. f \in HardwareProbes => HardwareProbe(f, m) \in Verdicts
  BY <1>3 DEF HardwareProbe, HardwareProbes, Verdicts
<1> QED
  BY <1>1, <1>2, <1>4, <1>5 DEF Probe, Verdicts

\* The program resolves services only, seventeen times.
LEMMA ScriptType == Script \in Seq(Keys) /\ Len(Script) = 17
<1>1. Services \subseteq Keys
  BY LifecycleAssumption
<1>2. /\ RegisterCollectors \in Seq(Keys) /\ Len(RegisterCollectors) = 3
      /\ WireCrossDomain \in Seq(Keys) /\ Len(WireCrossDomain) = 1
      /\ PageContext \in Seq(Keys) /\ Len(PageContext) = 9
  BY <1>1 DEF RegisterCollectors, WireCrossDomain, PageContext, Services
<1> DEFINE first == <<"ConfigService", "CapabilityRegistry">>
           history == <<"HistoryService">>
           last == <<"MonitorService">>
<1>3. /\ first \in Seq(Keys) /\ Len(first) = 2
      /\ history \in Seq(Keys) /\ Len(history) = 1
      /\ last \in Seq(Keys) /\ Len(last) = 1
  BY <1>1 DEF Services
<1>4. Script = first \o RegisterCollectors \o WireCrossDomain \o history \o PageContext \o last
  BY DEF Script
<1> HIDE DEF first, history, last
<1> DEFINE a == first \o RegisterCollectors
           b == a \o WireCrossDomain
           c == b \o history
           d == c \o PageContext
<1>5. a \in Seq(Keys) /\ Len(a) = Len(first) + Len(RegisterCollectors)
  BY <1>2, <1>3, ConcatProperties
<1> HIDE DEF a
<1>6. b \in Seq(Keys) /\ Len(b) = Len(a) + Len(WireCrossDomain)
  BY <1>2, <1>5, ConcatProperties
<1> HIDE DEF b
<1>7. c \in Seq(Keys) /\ Len(c) = Len(b) + Len(history)
  BY <1>3, <1>6, ConcatProperties
<1> HIDE DEF c
<1>8. d \in Seq(Keys) /\ Len(d) = Len(c) + Len(PageContext)
  BY <1>2, <1>7, ConcatProperties
<1> HIDE DEF d
<1>9. Script = d \o last
  BY <1>4 DEF a, b, c, d
<1>10. Script \in Seq(Keys) /\ Len(Script) = Len(d) + Len(last)
  BY <1>3, <1>8, <1>9, ConcatProperties
<1> QED
  BY <1>2, <1>3, <1>5, <1>6, <1>7, <1>8, <1>10

\* Two threads can only meet in a probe when one of them reads before the start
\* log has read everything: the collectors and the other pages do not.
ViewInv ==
  /\ pc \in Nat
  /\ machine \in [Features -> Facts]
  /\ kept \in [Features -> Verdicts \cup {Unprobed}]
  /\ told \in [Features -> SUBSET Verdicts]
  /\ probing \in [Readers -> [feature : Features \cup {"none"}, found : Verdicts \cup {Unprobed}]]
  /\ \A f \in Features : told[f] \subseteq {kept[f]}
  /\ \A r \in Readers : probing[r] # Nowhere =>
       /\ r = Gui
       /\ probing[r].feature \in Features /\ probing[r].found \in Verdicts
       /\ kept[probing[r].feature] = Unprobed
  /\ explored = "program" /\ (phase = "run" \/ pc > Summary) => AllProbed

\* Nothing is kept or told at the start.
LEMMA ViewStart == Init => ViewInv
<1> SUFFICES ASSUME Init PROVE ViewInv
  OBVIOUS
<1>1. Unprobed \notin Verdicts
  BY DEF Unprobed, Verdicts
<1>2. explored = "program" => phase = "start"
  BY DEF Init
<1> QED
  BY <1>1, <1>2 DEF Init, CapabilitiesInit, ViewInv, Nowhere, Summary

\* Reading a feature keeps the view.
LEMMA ReadStep ==
  ASSUME ViewInv, NEW r \in Readers, NEW f \in Features, Read(r, f),
         r = Gui \/ (explored = "program" /\ phase = "run"),
         UNCHANGED <<explored, phase, pc>>
  PROVE  ViewInv'
<1> USE DEF ViewInv
<1>1. CASE kept[f] # Unprobed
  <2>1. /\ told' = [told EXCEPT ![f] = @ \cup {kept[f]}]
        /\ UNCHANGED <<machine, kept, probing>>
    BY <1>1 DEF Read, Tell
  <2> QED
    BY <1>1, <2>1 DEF AllProbed
<1>2. CASE kept[f] = Unprobed
  <2>1. /\ probing' = [probing EXCEPT ![r] = [feature |-> f, found |-> Probe(f, machine[f])]]
        /\ UNCHANGED <<machine, kept, told>>
    BY <1>2 DEF Read
  <2>2. r = Gui
    BY <1>2 DEF AllProbed
  <2>3. Probe(f, machine[f]) \in Verdicts
    BY ProbeType
  <2> QED
    BY <1>2, <2>1, <2>2, <2>3 DEF AllProbed
<1> QED
  BY <1>1, <1>2

\* Keeping what was found keeps the view.
LEMMA StoreStep ==
  ASSUME ViewInv, NEW r \in Readers, Store(r), UNCHANGED <<explored, phase, pc>>
  PROVE  ViewInv'
<1> USE DEF ViewInv
<1> DEFINE p == probing[r]
<1>1. /\ p.feature \in Features /\ p.found \in Verdicts /\ kept[p.feature] = Unprobed
      /\ r = Gui
  BY DEF Store
<1>2. /\ kept' = [kept EXCEPT ![p.feature] = p.found]
      /\ told' = [told EXCEPT ![p.feature] = @ \cup {p.found}]
      /\ probing' = [probing EXCEPT ![r] = Nowhere]
      /\ machine' = machine
  BY DEF Store, Tell
<1>3. Unprobed \notin Verdicts
  BY DEF Unprobed, Verdicts
<1>4. told[p.feature] = {}
  BY <1>1, <1>3
<1>5. Nowhere \in [feature : Features \cup {"none"}, found : Verdicts \cup {Unprobed}]
  BY DEF Nowhere
<1>6. \A f \in Features : told'[f] \subseteq {kept'[f]}
  BY <1>1, <1>2, <1>4
<1>7. \A q \in Readers : probing'[q] = Nowhere
  BY <1>1, <1>2
<1>8. AllProbed => AllProbed'
  BY <1>1, <1>2, <1>3 DEF AllProbed
<1>9. told' \in [Features -> SUBSET Verdicts] /\ kept' \in [Features -> Verdicts \cup {Unprobed}]
  BY <1>1, <1>2
<1>10. probing' \in [Readers -> [feature : Features \cup {"none"}, found : Verdicts \cup {Unprobed}]]
  BY <1>2, <1>5
<1> QED
  BY <1>2, <1>6, <1>7, <1>8, <1>9, <1>10

\* Every step keeps the view.
LEMMA ViewStep == ViewInv /\ [Next]_vars => ViewInv'
<1> SUFFICES ASSUME ViewInv, [Next]_vars
             PROVE  ViewInv'
  OBVIOUS
<1>1. CASE UNCHANGED <<explored, phase, pc>> /\ UNCHANGED capabilityVars
  BY <1>1 DEF ViewInv, capabilityVars, AllProbed
<1>2. CASE Inspect /\ explored = "program"
  <2>1. ASSUME NEW r \in Readers, ReadCapability(r)
        PROVE  ViewInv'
    <3>1. PICK f \in Features : Read(r, f)
      BY <2>1 DEF ReadCapability
    <3>2. r = Gui \/ phase = "run"
      BY <2>1 DEF ReadCapability
    <3> QED
      BY <1>2, <3>1, <3>2, ReadStep DEF Inspect, Pin
  <2>2. ASSUME NEW r \in Readers, Store(r)
        PROVE  ViewInv'
    BY <1>2, <2>2, StoreStep DEF Inspect, Pin
  <2>3. ASSUME NEW f \in Features, NEW m \in Facts, Change(f, m)
        PROVE  ViewInv'
    BY <1>2, <2>3 DEF Inspect, Pin, Change, ViewInv, AllProbed
  <2> QED
    BY <1>2, <2>1, <2>2, <2>3 DEF Inspect
<1>3. CASE Request /\ explored = "program"
  BY <1>3 DEF Request, Probed, AllProbed, ViewInv, shared, capabilityVars, Summary
<1>4. CASE (Abort \/ Run \/ Quit \/ Shutdown) /\ explored = "program"
  BY <1>4, ScriptType
  DEF Abort, Run, Quit, Shutdown, ViewInv, AllProbed, shared, capabilityVars, Summary
<1>5. CASE Next
  <2>1. CASE explored = "program" /\ Program
    <3>1. CASE (ResolveNext(Gui) \/ Finish(Gui) \/ Raise(Gui)) /\ UNCHANGED shared /\ Pin
      BY <1>1, <3>1 DEF shared, Pin
    <3> QED
      BY <1>2, <1>3, <1>4, <2>1, <3>1 DEF Program
  <2>2. CASE Sample
    BY <1>1, <2>2 DEF Sample, Pin
  <2>3. CASE Alone
    BY <1>1, <2>3 DEF Alone, shared, Pin
  <2> QED
    BY <1>5, <2>1, <2>2, <2>3 DEF Next
<1> QED
  BY <1>1, <1>5 DEF vars

\* Nobody is told two things of one feature, whatever the machine does and
\* although the cached properties take no lock (capabilities.py:71): main()'s
\* summary reads them all before there is a second reader.
THEOREM OneViewOfTheMachine == Spec => []OneView
<1>1. ViewInv => OneView
  <2> SUFFICES ASSUME ViewInv, NEW f \in Features
               PROVE  Cardinality(told[f]) <= 1
    BY DEF OneView
  <2>1. told[f] = {} \/ told[f] = {kept[f]}
    BY DEF ViewInv
  <2>2. Cardinality({}) = 0 /\ Cardinality({kept[f]}) = 1
    BY FS_EmptySet, FS_Singleton
  <2> QED
    BY <2>1, <2>2
<1> QED
  BY ViewStart, ViewStep, <1>1, PTL DEF Spec

-----------------------------------------------------------------------------
(* The container under every interleaving of Lifecycle: one object of a key,   *)
(* disposal in the reverse order of construction, and no circle seen where     *)
(* there is none.                                                              *)

Frame == [key : Keys, given : Seq(Nat)]
Object == [key : Keys, holds : SUBSET Nat, round : Nat, kept : BOOLEAN]

ContainerType ==
  /\ kind \in [Keys -> Kinds]
  /\ wiring \in [Keys -> Seq(Keys)]
  /\ objects \in Seq(Object)
  /\ singletons \in Seq(DOMAIN objects)
  /\ closing \in Seq(DOMAIN objects)
  /\ closed \subseteq DOMAIN objects
  /\ round \in Nat
  /\ holder \in Threads \cup {Nobody}
  /\ answer \in [Threads -> Answers]
  /\ stack \in [Threads -> Seq(Frame)]
  /\ \A t \in Threads : \A i \in DOMAIN stack[t] : \A n \in DOMAIN stack[t][i].given :
       stack[t][i].given[n] \in DOMAIN objects
  /\ \A i \in DOMAIN objects : objects[i].holds \subseteq DOMAIN objects /\ objects[i].round <= round

\* Whoever is in a factory, or disposes of the container, holds the lock.
LockInv ==
  /\ \A t \in Threads : stack[t] # <<>> => holder = t
  /\ closing # <<>> =>
       holder # Nobody /\ singletons = <<>> /\ \A t \in Threads : stack[t] = <<>>

\* The factory at place i of a stack was given no more than it asks for, and waits
\* for the one above it.
Fits(t, i) == Len(stack[t][i].given) <= Len(wiring[stack[t][i].key])
Calls(t, i) ==
  /\ Len(stack[t][i].given) < Len(wiring[stack[t][i].key])
  /\ stack[t][i + 1].key = wiring[stack[t][i].key][Len(stack[t][i].given) + 1]

\* resolving has the keys of the factories under way.
ChainInv ==
  /\ \A k \in Keys :
       k \in resolving <=> \E t \in Threads : \E i \in DOMAIN stack[t] : stack[t][i].key = k
  /\ resolving \subseteq Keys
  /\ \A t \in Threads : \A i, j \in DOMAIN stack[t] : stack[t][i].key = stack[t][j].key => i = j
  /\ \A t \in Threads : \A i \in DOMAIN stack[t] :
       Fits(t, i) /\ (i < Len(stack[t]) => Calls(t, i))

\* The dictionary has one object per key, with every object kept since the last
\* disposal, and none of a key whose factory is under way.
OnceInv ==
  /\ \A p, q \in DOMAIN singletons :
       objects[singletons[p]].key = objects[singletons[q]].key => p = q
  /\ \A i \in DOMAIN objects :
       objects[i].kept /\ objects[i].round = round => \E p \in DOMAIN singletons : singletons[p] = i
  /\ \A t \in Threads : \A i \in DOMAIN stack[t] : \A p \in DOMAIN singletons :
       objects[singletons[p]].key # stack[t][i].key
  /\ BuiltOnce

\* An object and all that it holds are open.
Open(i) == i \notin closed /\ objects[i].holds \cap closed = {}

\* What an object holds comes before it in the dictionary, after it when that is
\* disposed of.
DisposalInv ==
  /\ \A p, q \in DOMAIN singletons : singletons[q] \in objects[singletons[p]].holds => q < p
  /\ \A p \in DOMAIN singletons : Open(singletons[p])
  /\ \A p, q \in DOMAIN closing :
       /\ closing[p] = closing[q] => p = q
       /\ closing[q] \in objects[closing[p]].holds => p < q
  /\ \A p \in DOMAIN closing : Open(closing[p])
  /\ \A t \in Threads : \A i \in DOMAIN stack[t] : \A n \in DOMAIN stack[t][i].given :
       Open(stack[t][i].given[n])
  /\ \A i \in DOMAIN objects :
       objects[i].kept /\ objects[i].round < round =>
         i \in closed \/ \E p \in DOMAIN closing : closing[p] = i

ContainerInv == ContainerType /\ LockInv /\ ChainInv /\ OnceInv /\ DisposalInv /\ CircularIsReal

\* The invariant of the container holds at the start.
LEMMA ContainerStart == Init => ContainerInv
<1> SUFFICES ASSUME Init PROVE ContainerInv
  OBVIOUS
<1>1. /\ objects = <<>> /\ singletons = <<>> /\ resolving = {} /\ holder = Nobody
      /\ stack = [t \in Threads |-> <<>>] /\ answer = [t \in Threads |-> "none"]
      /\ closing = <<>> /\ closed = {} /\ round = 0
  BY DEF Init, ContainerInit
<1>2. kind \in [Keys -> Kinds]
  BY DEF Init, ContainerInit, Kinds
<1>3. Wiring \in [Keys -> Seq(Keys)]
  BY LifecycleAssumption DEF Wiring, Services
<1>4. ASSUME NEW w \in Wirings
      PROVE  [k \in Keys |-> IF k \in Tried THEN w[k] ELSE <<>>] \in [Keys -> Seq(Keys)]
  <2>1. w \in [Tried -> Seq(Tried)] /\ Tried \subseteq Keys
    BY LifecycleAssumption
  <2>2. \A k \in Tried : w[k] \in Seq(Keys)
    BY <2>1
  <2> QED
    BY <2>2
<1>5. wiring \in [Keys -> Seq(Keys)]
  BY <1>3, <1>4 DEF Init, ContainerInit
<1>6. \A t \in Threads : DOMAIN stack[t] = {}
  BY <1>1
<1>7. DOMAIN objects = {} /\ DOMAIN singletons = {} /\ DOMAIN closing = {}
  BY <1>1
<1> QED
  BY <1>1, <1>2, <1>5, <1>6, <1>7
  DEF ContainerInv, ContainerType, LockInv, ChainInv, OnceInv, DisposalInv, CircularIsReal,
      BuiltOnce, Answers

\* A frame has two fields.
LEMMA FrameUpdate ==
  ASSUME NEW r \in Frame, NEW g
  PROVE  [r EXCEPT !.given = g] = [key |-> r.key, given |-> g]
  BY DEF Frame

\* What a thread finds on its stack when it was handed an object.
LEMMA DeliverFacts ==
  ASSUME ContainerType, NEW t \in Threads, NEW frames \in Seq(Frame), NEW id \in Nat,
         Deliver(t, frames, id)
  PROVE  /\ stack' \in [Threads -> Seq(Frame)]
         /\ \A u \in Threads : u # t => stack'[u] = stack[u]
         /\ Len(stack'[t]) = Len(frames) /\ DOMAIN stack'[t] = DOMAIN frames
         /\ \A i \in DOMAIN frames : stack'[t][i].key = frames[i].key
         /\ \A i \in DOMAIN frames : i # Len(frames) => stack'[t][i] = frames[i]
         /\ frames # <<>> =>
              /\ Len(frames) \in DOMAIN frames
              /\ stack'[t][Len(frames)].given = Append(frames[Len(frames)].given, id)
         /\ holder' = IF frames = <<>> THEN Nobody ELSE t
         /\ answer' \in [Threads -> Answers]
         /\ \A u \in Threads : answer'[u] = answer[u] \/ answer'[u] = "built"
<1>1. CASE frames = <<>>
  <2>1. /\ stack' = [stack EXCEPT ![t] = <<>>] /\ holder' = Nobody
        /\ answer' = [answer EXCEPT ![t] = "built"]
    BY <1>1 DEF Deliver
  <2> QED
    BY <1>1, <2>1 DEF ContainerType, Answers
<1>2. CASE frames # <<>>
  <2> DEFINE top == Len(frames)
             new == [frames EXCEPT ![top].given = Append(@, id)]
  <2>1. stack' = [stack EXCEPT ![t] = new] /\ holder' = t /\ answer' = answer
    BY <1>2 DEF Deliver
  <2>2. top \in DOMAIN frames /\ frames[top] \in Frame
    BY <1>2
  <2>3. Append(frames[top].given, id) \in Seq(Nat)
    BY <2>2 DEF Frame
  <2>4. /\ new \in Seq(Frame) /\ Len(new) = top /\ DOMAIN new = DOMAIN frames
        /\ \A i \in DOMAIN frames : i # top => new[i] = frames[i]
        /\ new[top] = [key |-> frames[top].key, given |-> Append(frames[top].given, id)]
    <3> DEFINE frame == [key |-> frames[top].key, given |-> Append(frames[top].given, id)]
    <3>1. [frames[top] EXCEPT !.given = Append(@, id)] = frame
      BY <2>2, FrameUpdate
    <3>2. new = [frames EXCEPT ![top] = frame]
      BY <3>1
    <3>3. frame \in Frame
      BY <2>2, <2>3 DEF Frame
    <3> HIDE DEF frame, new
    <3>4. /\ [frames EXCEPT ![top] = frame] \in Seq(Frame)
          /\ Len([frames EXCEPT ![top] = frame]) = Len(frames)
          /\ \A i \in 1 .. Len(frames) :
               [frames EXCEPT ![top] = frame][i] = IF i = top THEN frame ELSE frames[i]
      BY <2>2, <3>3, ExceptSeq
    <3>5. DOMAIN new = 1 .. Len(new) /\ DOMAIN frames = 1 .. Len(frames)
      BY <3>2, <3>4
    <3> QED
      BY <2>2, <3>2, <3>4, <3>5 DEF frame
  <2> HIDE DEF new
  <2>5. stack'[t] = new /\ \A u \in Threads : u # t => stack'[u] = stack[u]
    BY <2>1 DEF ContainerType
  <2>6. stack' \in [Threads -> Seq(Frame)]
    BY <2>1, <2>4 DEF ContainerType
  <2>7. answer' \in [Threads -> Answers]
    BY <2>1 DEF ContainerType
  <2> QED
    BY <1>2, <2>1, <2>2, <2>4, <2>5, <2>6, <2>7
<1> QED
  BY <1>1, <1>2

\* The thread that goes on with a resolve is the only one with a stack.
Asks(t, k) ==
  \/ stack[t] = <<>> /\ holder = Nobody /\ closing = <<>>
  \/ Waiting(t) /\ k = wiring[Top(t).key][Len(Top(t).given) + 1]

\* While a thread goes on with a resolve no other has a stack, and nothing is closed.
LEMMA AskFacts ==
  ASSUME ContainerInv, NEW t \in Threads, NEW k, Asks(t, k)
  PROVE  /\ closing = <<>> /\ DOMAIN closing = {}
         /\ holder \in {t, Nobody}
         /\ \A u \in Threads : u # t => stack[u] = <<>> /\ DOMAIN stack[u] = {}
         /\ stack[t] \in Seq(Frame)
         /\ stack[t] # <<>> =>
              /\ Len(stack[t]) \in DOMAIN stack[t] /\ Top(t) = stack[t][Len(stack[t])]
              /\ Len(Top(t).given) < Len(wiring[Top(t).key])
              /\ k = wiring[Top(t).key][Len(Top(t).given) + 1] /\ k \in Keys
<1> USE DEF ContainerInv, ContainerType, LockInv
<1>1. CASE stack[t] = <<>> /\ holder = Nobody /\ closing = <<>>
  <2>1. \A u \in Threads : stack[u] = <<>>
    BY <1>1, ContainerAssumption
  <2> QED
    BY <1>1, <2>1
<1>2. CASE Waiting(t) /\ k = wiring[Top(t).key][Len(Top(t).given) + 1]
  <2>1. stack[t] # <<>> /\ holder = t
    BY <1>2 DEF Waiting
  <2>2. \A u \in Threads : u # t => stack[u] = <<>>
    BY <2>1
  <2>3. closing = <<>>
    BY <2>1
  <2>4. Len(stack[t]) \in DOMAIN stack[t] /\ Top(t) = stack[t][Len(stack[t])]
    BY <2>1 DEF Top
  <2>5. Top(t) \in Frame
    BY <2>4
  <2>6. Len(Top(t).given) \in Nat /\ wiring[Top(t).key] \in Seq(Keys)
    BY <2>5 DEF Frame
  <2>7. Len(Top(t).given) < Len(wiring[Top(t).key])
    BY <1>2 DEF Waiting
  <2>8. wiring[Top(t).key][Len(Top(t).given) + 1] \in Keys
    BY <2>6, <2>7
  <2> QED
    BY <1>2, <2>1, <2>2, <2>3, <2>4, <2>7, <2>8
<1> QED
  BY <1>1, <1>2 DEF Asks

\* After an object was handed down: the lower part of the stack is as it was, but
\* for the object the factory on top of it was waiting for.
LEMMA Handed ==
  ASSUME ContainerInv, NEW t \in Threads, NEW frames \in Seq(Frame), NEW id \in Nat,
         Deliver(t, frames, id), wiring' = wiring,
         Len(frames) <= Len(stack[t]),
         \A i \in DOMAIN frames : frames[i] = stack[t][i],
         frames # <<>> =>
           Len(frames[Len(frames)].given) < Len(wiring[frames[Len(frames)].key]),
         \A u \in Threads : u # t => stack[u] = <<>>
  PROVE  /\ \A u \in Threads : u # t => stack'[u] = <<>> /\ DOMAIN stack'[u] = {}
         /\ DOMAIN stack'[t] = 1 .. Len(frames)
         /\ \A i \in DOMAIN stack'[t] : i \in DOMAIN stack[t] /\ stack'[t][i].key = stack[t][i].key
         /\ \A i \in DOMAIN stack'[t] : \A n \in DOMAIN stack'[t][i].given :
              \/ stack'[t][i].given[n] = id
              \/ \E j \in DOMAIN stack[t][i].given : stack'[t][i].given[n] = stack[t][i].given[j]
         /\ \A i \in DOMAIN stack'[t] : Fits(t, i)' /\ (i < Len(stack'[t]) => Calls(t, i)')
<1> DEFINE m == Len(frames)
<1>1. ContainerType
  BY DEF ContainerInv
<1>2. /\ stack' \in [Threads -> Seq(Frame)]
      /\ \A u \in Threads : u # t => stack'[u] = stack[u]
      /\ Len(stack'[t]) = m /\ DOMAIN stack'[t] = DOMAIN frames
      /\ \A i \in DOMAIN frames : stack'[t][i].key = frames[i].key
      /\ \A i \in DOMAIN frames : i # m => stack'[t][i] = frames[i]
      /\ frames # <<>> => /\ m \in DOMAIN frames
                          /\ stack'[t][m].given = Append(frames[m].given, id)
  BY <1>1, DeliverFacts
<1>3. /\ m \in Nat /\ DOMAIN frames = 1 .. m /\ m <= Len(stack[t])
      /\ m = 0 <=> frames = <<>>
      /\ frames # <<>> => Len(frames[m].given) < Len(wiring[frames[m].key])
  OBVIOUS
<1> HIDE DEF m
<1>4. stack[t] \in Seq(Frame) /\ DOMAIN stack[t] = 1 .. Len(stack[t]) /\ Len(stack[t]) \in Nat
  BY <1>1 DEF ContainerType
<1>5. \A i \in 1 .. m : i \in DOMAIN stack[t] /\ frames[i] \in Frame /\ stack[t][i] = frames[i]
  BY <1>3, <1>4
<1>6. \A i \in 1 .. m : Fits(t, i) /\ (i < Len(stack[t]) => Calls(t, i))
  BY <1>5 DEF ContainerInv, ChainInv
<1>7. ASSUME NEW i \in 1 .. m, i # m
      PROVE  /\ stack'[t][i] = stack[t][i] /\ i < Len(stack[t])
             /\ i + 1 \in 1 .. m /\ stack'[t][i + 1].key = stack[t][i + 1].key
  <2>1. stack'[t][i] = frames[i] /\ frames[i] = stack[t][i]
    BY <1>2, <1>3, <1>5, <1>7
  <2>2. i < m /\ i + 1 \in 1 .. m
    BY <1>3, <1>7
  <2>3. stack'[t][i + 1].key = frames[i + 1].key /\ frames[i + 1] = stack[t][i + 1]
    BY <1>2, <1>3, <1>5, <2>2
  <2> QED
    BY <1>3, <1>4, <2>1, <2>2, <2>3
<1>8. ASSUME m # 0
      PROVE  /\ m \in 1 .. m /\ frames[m] \in Frame
             /\ stack'[t][m].key = stack[t][m].key
             /\ stack'[t][m].given = Append(stack[t][m].given, id)
             /\ Len(stack'[t][m].given) = Len(stack[t][m].given) + 1
             /\ Len(stack[t][m].given) \in Nat
             /\ Len(stack[t][m].given) < Len(wiring[stack[t][m].key])
             /\ Len(wiring[stack[t][m].key]) \in Nat
             /\ \A n \in DOMAIN stack'[t][m].given :
                  \/ stack'[t][m].given[n] = id
                  \/ \E j \in DOMAIN stack[t][m].given :
                       stack'[t][m].given[n] = stack[t][m].given[j]
  <2>1. m \in 1 .. m /\ frames # <<>>
    BY <1>3, <1>8
  <2>2. frames[m] \in Frame /\ stack[t][m] = frames[m]
    BY <2>1, <1>5
  <2>3. /\ stack'[t][m].key = stack[t][m].key
        /\ stack'[t][m].given = Append(stack[t][m].given, id)
    BY <1>2, <1>3, <2>1, <2>2
  <2>4. stack[t][m].given \in Seq(Nat) /\ stack[t][m].key \in Keys
    BY <2>2 DEF Frame
  <2>5. wiring[stack[t][m].key] \in Seq(Keys)
    BY <1>1, <2>4 DEF ContainerType
  <2> DEFINE g == stack[t][m].given
  <2>6. g \in Seq(Nat) /\ stack'[t][m].given = Append(g, id)
    BY <2>3, <2>4
  <2>7. Len(g) < Len(wiring[stack[t][m].key])
    BY <1>3, <2>1, <2>2
  <2> HIDE DEF g
  <2>8. Append(g, id) \in Seq(Nat) /\ Len(Append(g, id)) = Len(g) + 1
    BY <2>6
  <2>9. \A n \in DOMAIN Append(g, id) :
          Append(g, id)[n] = id \/ (n \in DOMAIN g /\ Append(g, id)[n] = g[n])
    BY <2>6
  <2>10. Len(g) \in Nat /\ Len(wiring[stack[t][m].key]) \in Nat
    BY <2>5, <2>6
  <2>11. \A n \in DOMAIN stack'[t][m].given :
           stack'[t][m].given[n] = id \/ \E j \in DOMAIN g : stack'[t][m].given[n] = g[j]
    BY <2>6, <2>9
  <2> QED
    BY <2>1, <2>2, <2>3, <2>6, <2>7, <2>8, <2>10, <2>11 DEF g
<1>9. \A i \in 1 .. m : Fits(t, i)' /\ (i < m => Calls(t, i)')
  <2> SUFFICES ASSUME NEW i \in 1 .. m
               PROVE  Fits(t, i)' /\ (i < m => Calls(t, i)')
    OBVIOUS
  <2>1. CASE i # m
    <3>1. /\ stack'[t][i] = stack[t][i] /\ i < Len(stack[t])
          /\ stack'[t][i + 1].key = stack[t][i + 1].key
      BY <1>7, <2>1
    <3>2. Fits(t, i) /\ Calls(t, i)
      BY <1>6, <3>1
    <3> QED
      BY <3>1, <3>2 DEF Fits, Calls
  <2>2. CASE i = m
    <3>1. m # 0
      BY <1>3, <2>2
    <3>2. /\ Len(stack'[t][m].given) = Len(stack[t][m].given) + 1
          /\ stack'[t][m].key = stack[t][m].key
          /\ Len(stack[t][m].given) < Len(wiring[stack[t][m].key])
          /\ Len(stack[t][m].given) \in Nat /\ Len(wiring[stack[t][m].key]) \in Nat
      BY <1>8, <3>1
    <3> QED
      BY <1>3, <2>2, <3>2 DEF Fits
  <2> QED
    BY <2>1, <2>2
<1>10. \A i \in 1 .. m : \A n \in DOMAIN stack'[t][i].given :
         \/ stack'[t][i].given[n] = id
         \/ \E j \in DOMAIN stack[t][i].given : stack'[t][i].given[n] = stack[t][i].given[j]
  <2> SUFFICES ASSUME NEW i \in 1 .. m, NEW n \in DOMAIN stack'[t][i].given
               PROVE  \/ stack'[t][i].given[n] = id
                      \/ \E j \in DOMAIN stack[t][i].given :
                           stack'[t][i].given[n] = stack[t][i].given[j]
    OBVIOUS
  <2>1. CASE i # m
    BY <1>7, <2>1
  <2>2. CASE i = m
    <3>1. m # 0
      BY <1>3
    <3> QED
      BY <1>8, <2>2, <3>1
  <2> QED
    BY <2>1, <2>2
<1>11. \A i \in 1 .. m : stack'[t][i].key = stack[t][i].key
  BY <1>2, <1>3, <1>5
<1>12. \A u \in Threads : u # t => stack'[u] = <<>> /\ DOMAIN stack'[u] = {}
  BY <1>2
<1>13. DOMAIN stack'[t] = 1 .. m /\ Len(stack'[t]) = m
  BY <1>2, <1>3
<1>14. \A i \in DOMAIN stack'[t] : i \in DOMAIN stack[t] /\ stack'[t][i].key = stack[t][i].key
  BY <1>5, <1>11, <1>13
<1>15. \A i \in DOMAIN stack'[t] : Fits(t, i)' /\ (i < Len(stack'[t]) => Calls(t, i)')
  BY <1>9, <1>13
<1> QED
  BY <1>10, <1>12, <1>13, <1>14, <1>15 DEF m

\* A resolve of a singleton that exists leaves the invariant as it is.
LEMMA CachedStep ==
  ASSUME ContainerInv, NEW t \in Threads, NEW k, Asks(t, k), Places(k) # {},
         Deliver(t, stack[t], singletons[CHOOSE i \in Places(k) : TRUE]),
         UNCHANGED <<resolving, kind, wiring, objects, singletons, closing, closed, round>>
  PROVE  ContainerInv'
<1> DEFINE id == singletons[CHOOSE i \in Places(k) : TRUE]
<1>1. id \in DOMAIN objects /\ id \in Nat /\ Open(id)
  <2>1. \E p \in DOMAIN singletons : id = singletons[p]
    BY DEF Places
  <2>2. singletons \in Seq(DOMAIN objects) /\ objects \in Seq(Object)
    BY DEF ContainerInv, ContainerType
  <2>3. DOMAIN objects \subseteq Nat
    BY <2>2
  <2> QED
    BY <2>1, <2>2, <2>3 DEF ContainerInv, DisposalInv
<1>2. Deliver(t, stack[t], id)
  OBVIOUS
<1> HIDE DEF id
<1>3. /\ closing = <<>> /\ stack[t] \in Seq(Frame)
      /\ \A u \in Threads : u # t => stack[u] = <<>> /\ DOMAIN stack[u] = {}
      /\ stack[t] # <<>> => Len(Top(t).given) < Len(wiring[Top(t).key])
      /\ stack[t] # <<>> => Top(t) = stack[t][Len(stack[t])]
  BY AskFacts
<1>4. /\ \A u \in Threads : u # t => stack'[u] = <<>> /\ DOMAIN stack'[u] = {}
      /\ DOMAIN stack'[t] = 1 .. Len(stack[t])
      /\ \A i \in DOMAIN stack'[t] : i \in DOMAIN stack[t] /\ stack'[t][i].key = stack[t][i].key
      /\ \A i \in DOMAIN stack'[t] : \A n \in DOMAIN stack'[t][i].given :
           \/ stack'[t][i].given[n] = id
           \/ \E j \in DOMAIN stack[t][i].given : stack'[t][i].given[n] = stack[t][i].given[j]
      /\ \A i \in DOMAIN stack'[t] : Fits(t, i)' /\ (i < Len(stack'[t]) => Calls(t, i)')
  <2>1. Len(stack[t]) <= Len(stack[t])
    BY <1>3
  <2> QED
    BY <1>1, <1>2, <1>3, <2>1, Handed
<1>5. ContainerType
  BY DEF ContainerInv
<1>6. /\ stack' \in [Threads -> Seq(Frame)]
      /\ holder' = IF stack[t] = <<>> THEN Nobody ELSE t
      /\ answer' \in [Threads -> Answers]
      /\ \A u \in Threads : answer'[u] = answer[u] \/ answer'[u] = "built"
  BY <1>1, <1>2, <1>3, <1>5, DeliverFacts
<1>7. DOMAIN stack'[t] = DOMAIN stack[t]
  BY <1>3, <1>4
<1>8. \A u \in Threads : \A i \in DOMAIN stack'[u] :
        u = t /\ i \in DOMAIN stack[t] /\ stack'[u][i].key = stack[t][i].key
  BY <1>4
<1>9. \A u \in Threads : \A i \in DOMAIN stack'[u] : \A n \in DOMAIN stack'[u][i].given :
        \/ stack'[u][i].given[n] = id
        \/ \E j \in DOMAIN stack[u][i].given : stack'[u][i].given[n] = stack[u][i].given[j]
  BY <1>4, <1>8
<1>10. ContainerType'
  <2>1. \A u \in Threads : \A i \in DOMAIN stack'[u] : \A n \in DOMAIN stack'[u][i].given :
          stack'[u][i].given[n] \in DOMAIN objects
    <3>1. \A i \in DOMAIN stack[t] : \A j \in DOMAIN stack[t][i].given :
            stack[t][i].given[j] \in DOMAIN objects
      BY <1>5 DEF ContainerType
    <3> QED
      BY <1>1, <1>8, <1>9, <3>1
  <2> QED
    BY <1>5, <1>6, <2>1 DEF ContainerType
<1>11. LockInv'
  <2>1. stack'[t] # <<>> => stack[t] # <<>>
    <3>1. ASSUME stack[t] = <<>> PROVE stack'[t] = <<>>
      BY <1>2, <1>5, <3>1 DEF Deliver, ContainerType
    <3> QED
      BY <3>1
  <2> QED
    BY <1>3, <1>4, <1>6, <2>1 DEF LockInv
<1>12. ChainInv'
  <2>1. \A q \in Keys : q \in resolving' <=>
          \E u \in Threads : \E i \in DOMAIN stack'[u] : stack'[u][i].key = q
    <3>1. \A q \in Keys : q \in resolving <=> \E i \in DOMAIN stack[t] : stack[t][i].key = q
      BY <1>3 DEF ContainerInv, ChainInv
    <3> QED
      BY <1>4, <1>7, <1>8, <3>1
  <2>2. \A u \in Threads : \A i, j \in DOMAIN stack'[u] : stack'[u][i].key = stack'[u][j].key => i = j
    BY <1>8 DEF ContainerInv, ChainInv
  <2>3. \A u \in Threads : \A i \in DOMAIN stack'[u] :
          Fits(u, i)' /\ (i < Len(stack'[u]) => Calls(u, i)')
    BY <1>4, <1>8
  <2>4. resolving' \subseteq Keys
    BY DEF ContainerInv, ChainInv
  <2> QED
    BY <2>1, <2>2, <2>3, <2>4 DEF ChainInv
<1>13. OnceInv'
  BY <1>8 DEF ContainerInv, OnceInv, BuiltOnce
<1>14. DisposalInv'
  <2>1. \A u \in Threads : \A i \in DOMAIN stack'[u] : \A n \in DOMAIN stack'[u][i].given :
          Open(stack'[u][i].given[n])
    BY <1>1, <1>8, <1>9 DEF ContainerInv, DisposalInv
  <2>2. \A i : Open(i)' <=> Open(i)
    BY DEF Open
  <2> QED
    BY <2>1, <2>2 DEF ContainerInv, DisposalInv, Open
<1>15. CircularIsReal'
  BY <1>6 DEF ContainerInv, CircularIsReal, Circle
<1> QED
  BY <1>10, <1>11, <1>12, <1>13, <1>14, <1>15 DEF ContainerInv

\* An exception that leaves every factory of the thread leaves the invariant as it
\* is, given a circle if that is what it tells.
LEMMA UnwindStep ==
  ASSUME ContainerInv, NEW t \in Threads, NEW how \in Answers, Unwind(t, how),
         closing = <<>>, \A u \in Threads : u # t => stack[u] = <<>>,
         how = "circular" => Circle,
         UNCHANGED <<kind, wiring, objects, singletons, closing, closed, round>>
  PROVE  ContainerInv'
<1>1. ContainerType
  BY DEF ContainerInv
<1>2. /\ stack' = [stack EXCEPT ![t] = <<>>] /\ holder' = Nobody
      /\ answer' = [answer EXCEPT ![t] = how]
      /\ resolving' = resolving \ {stack[t][i].key : i \in DOMAIN stack[t]}
  BY DEF Unwind
<1>3. /\ stack' \in [Threads -> Seq(Frame)]
      /\ \A u \in Threads : stack'[u] = <<>> /\ DOMAIN stack'[u] = {}
  BY <1>1, <1>2 DEF ContainerType
<1>4. resolving' = {}
  BY <1>2 DEF ContainerInv, ChainInv
<1>5. ContainerType'
  BY <1>1, <1>2, <1>3 DEF ContainerType
<1>6. LockInv'
  BY <1>3 DEF LockInv
<1>7. ChainInv'
  BY <1>3, <1>4 DEF ChainInv
<1>8. OnceInv'
  BY <1>3 DEF ContainerInv, OnceInv, BuiltOnce
<1>9. DisposalInv'
  <2>1. \A i : Open(i)' <=> Open(i)
    BY DEF Open
  <2> QED
    BY <1>3, <2>1 DEF ContainerInv, DisposalInv
<1>10. CircularIsReal'
  BY <1>1, <1>2 DEF ContainerInv, ContainerType, CircularIsReal, Circle
<1> QED
  BY <1>5, <1>6, <1>7, <1>8, <1>9, <1>10 DEF ContainerInv

\* ToSet has the elements of a sequence.
LEMMA ElementOfToSet ==
  ASSUME NEW T, NEW s \in Seq(T)
  PROVE  /\ \A n \in 1 .. Len(s) : s[n] \in ToSet(s)
         /\ \A x : x \in ToSet(s) <=> \E n \in DOMAIN s : s[n] = x
  BY DEF ToSet

\* What is asked for while its own factory is under way lies on a circle: the keys
\* of the stack from that factory up.
LEMMA CircleFound ==
  ASSUME ContainerInv, NEW t \in Threads, NEW k, Asks(t, k), k \in resolving
  PROVE  Circle
<1>1. /\ \A u \in Threads : u # t => DOMAIN stack[u] = {}
      /\ stack[t] \in Seq(Frame)
      /\ stack[t] # <<>> =>
           /\ Len(stack[t]) \in DOMAIN stack[t] /\ Top(t) = stack[t][Len(stack[t])]
           /\ Len(Top(t).given) < Len(wiring[Top(t).key])
           /\ k = wiring[Top(t).key][Len(Top(t).given) + 1] /\ k \in Keys
  BY AskFacts
<1>2. wiring \in [Keys -> Seq(Keys)]
  BY DEF ContainerInv, ContainerType
<1>3. PICK i \in DOMAIN stack[t] : stack[t][i].key = k
  BY <1>1 DEF ContainerInv, ChainInv
<1> DEFINE top == Len(stack[t])
           S == {stack[t][j].key : j \in i .. top}
<1>4. stack[t] # <<>> /\ top \in Nat /\ DOMAIN stack[t] = 1 .. top /\ i \in 1 .. top
  BY <1>1, <1>3
<1>5. \A j \in i .. top : stack[t][j] \in Frame
  BY <1>1, <1>4
<1>6. S \in SUBSET Keys /\ k \in S
  BY <1>3, <1>4, <1>5 DEF Frame
<1>7. ASSUME NEW j \in i .. top
      PROVE  ToSet(wiring[stack[t][j].key]) \cap S # {}
  <2>1. /\ stack[t][j].key \in Keys /\ Len(stack[t][j].given) \in Nat
        /\ wiring[stack[t][j].key] \in Seq(Keys) /\ j \in DOMAIN stack[t]
    BY <1>2, <1>4, <1>5, <1>7 DEF Frame
  <2> DEFINE needs == wiring[stack[t][j].key]
             n == Len(stack[t][j].given) + 1
  <2>2. n \in 1 .. Len(needs) /\ needs[n] \in S
    <3>1. CASE j = top
      <4>1. Len(stack[t][j].given) < Len(needs) /\ needs[n] = k
        BY <1>1, <1>4, <3>1
      <4> HIDE DEF needs, S
      <4> QED
        BY <1>6, <2>1, <4>1 DEF needs
    <3>2. CASE j # top
      <4>1. j < top /\ j + 1 \in i .. top
        BY <1>4, <3>2
      <4>2. Calls(t, j)
        BY <2>1, <4>1 DEF ContainerInv, ChainInv
      <4>3. Len(stack[t][j].given) < Len(needs) /\ needs[n] = stack[t][j + 1].key
        BY <4>2 DEF Calls
      <4>4. needs[n] \in S
        BY <4>1, <4>3
      <4> HIDE DEF needs, S
      <4> QED
        BY <2>1, <4>3, <4>4 DEF needs
    <3> QED
      BY <3>1, <3>2
  <2>3. needs[n] \in ToSet(needs)
    <3> HIDE DEF n, needs, S
    <3> QED
      BY <2>1, <2>2, ElementOfToSet DEF needs
  <2> QED
    BY <2>2, <2>3
<1> QED
  <2>1. \A q \in S : ToSet(wiring[q]) \cap S # {}
    BY <1>7
  <2> HIDE DEF S
  <2> QED
    BY <1>6, <2>1 DEF Circle

\* A factory that is entered goes on top of the stack, which waits for it.
LEMMA PushStep ==
  ASSUME ContainerInv, NEW t \in Threads, NEW k \in Keys, Asks(t, k), Places(k) = {},
         k \notin resolving,
         resolving' = resolving \cup {k},
         stack' = [stack EXCEPT ![t] = Append(@, [key |-> k, given |-> <<>>])],
         holder' = t, answer' = answer,
         UNCHANGED <<kind, wiring, objects, singletons, closing, closed, round>>
  PROVE  ContainerInv'
<1> DEFINE frame == [key |-> k, given |-> <<>>]
           m == Len(stack[t])
<1>1. ContainerType
  BY DEF ContainerInv
<1>2. /\ closing = <<>> /\ stack[t] \in Seq(Frame)
      /\ \A u \in Threads : u # t => stack[u] = <<>> /\ DOMAIN stack[u] = {}
      /\ stack[t] # <<>> =>
           /\ Top(t) = stack[t][m] /\ Len(Top(t).given) < Len(wiring[Top(t).key])
           /\ k = wiring[Top(t).key][Len(Top(t).given) + 1]
  BY AskFacts
<1>3. frame \in Frame /\ frame.key = k /\ frame.given = <<>>
  BY DEF Frame
<1>4. stack'[t] = Append(stack[t], frame) /\ m \in Nat
  BY <1>1, <1>2 DEF ContainerType
<1> HIDE DEF frame
<1>5. /\ Append(stack[t], frame) \in Seq(Frame) /\ Len(Append(stack[t], frame)) = m + 1
      /\ \A i \in 1 .. m : Append(stack[t], frame)[i] = stack[t][i]
      /\ Append(stack[t], frame)[m + 1] = frame
  BY <1>2, <1>3, AppendProperties
<1> HIDE DEF m
<1>6. /\ DOMAIN stack'[t] = 1 .. m + 1 /\ Len(stack'[t]) = m + 1 /\ DOMAIN stack[t] = 1 .. m
      /\ \A i \in 1 .. m : stack'[t][i] = stack[t][i]
      /\ stack'[t][m + 1] = frame
  <2>1. DOMAIN stack[t] = 1 .. m
    BY <1>2 DEF m
  <2> QED
    BY <1>4, <1>5, <2>1
<1>7. \A u \in Threads : u # t => stack'[u] = <<>> /\ DOMAIN stack'[u] = {}
  BY <1>1, <1>2 DEF ContainerType
<1>8. \A u \in Threads : \A i \in DOMAIN stack'[u] :
        /\ u = t
        /\ \/ i \in 1 .. m /\ stack'[u][i] = stack[t][i]
           \/ i = m + 1 /\ stack'[u][i] = frame
  <2>1. \A i \in 1 .. m + 1 : i \in 1 .. m \/ i = m + 1
    BY <1>4 DEF m
  <2> QED
    BY <1>6, <1>7, <2>1
<1>9. ContainerType'
  <2>1. stack' \in [Threads -> Seq(Frame)]
    BY <1>1, <1>4, <1>5, <1>7 DEF ContainerType
  <2>2. \A u \in Threads : \A i \in DOMAIN stack'[u] : \A n \in DOMAIN stack'[u][i].given :
          stack'[u][i].given[n] \in DOMAIN objects
    <3>1. DOMAIN frame.given = {}
      BY <1>3
    <3>2. \A i \in 1 .. m : \A n \in DOMAIN stack[t][i].given : stack[t][i].given[n] \in DOMAIN objects
      BY <1>1, <1>6 DEF ContainerType
    <3> QED
      BY <1>8, <3>1, <3>2
  <2> QED
    BY <1>1, <2>1, <2>2 DEF ContainerType
<1>10. LockInv'
  BY <1>2, <1>7 DEF LockInv
<1>11. ChainInv'
  <2>1. \A q \in Keys : q \in resolving <=> \E i \in 1 .. m : stack[t][i].key = q
    <3>1. \A q \in Keys :
            q \in resolving <=> \E u \in Threads : \E i \in DOMAIN stack[u] : stack[u][i].key = q
      BY DEF ContainerInv, ChainInv
    <3> QED
      BY <1>2, <1>6, <3>1
  <2>2. \A q \in Keys : q \in resolving' <=>
          \E u \in Threads : \E i \in DOMAIN stack'[u] : stack'[u][i].key = q
    <3>1. ASSUME NEW q \in Keys, q \in resolving'
          PROVE  \E u \in Threads : \E i \in DOMAIN stack'[u] : stack'[u][i].key = q
      <4>1. CASE q = k
        BY <1>3, <1>4, <1>6, <4>1
      <4>2. CASE q \in resolving
        <5>1. PICK i \in 1 .. m : stack[t][i].key = q
          BY <2>1, <4>2
        <5>2. i \in DOMAIN stack'[t] /\ stack'[t][i] = stack[t][i]
          BY <1>4, <1>6
        <5> QED
          BY <5>1, <5>2
      <4> QED
        BY <3>1, <4>1, <4>2
    <3>2. ASSUME NEW q \in Keys, NEW u \in Threads, NEW i \in DOMAIN stack'[u],
                 stack'[u][i].key = q
          PROVE  q \in resolving'
      BY <1>3, <1>8, <2>1, <3>2
    <3> QED
      BY <3>1, <3>2
  <2>3. \A u \in Threads : \A i, j \in DOMAIN stack'[u] :
          stack'[u][i].key = stack'[u][j].key => i = j
    <3> SUFFICES ASSUME NEW u \in Threads, NEW i \in DOMAIN stack'[u], NEW j \in DOMAIN stack'[u],
                        stack'[u][i].key = stack'[u][j].key
                 PROVE  i = j
      OBVIOUS
    <3>1. \A n \in 1 .. m : stack[t][n].key # k
      BY <2>1
    <3>2. CASE i \in 1 .. m /\ j \in 1 .. m
      BY <1>6, <1>8, <3>2 DEF ContainerInv, ChainInv
    <3> QED
      BY <1>3, <1>8, <3>1, <3>2
  <2>4. \A i \in 1 .. m : Fits(t, i) /\ (i < m => Calls(t, i))
    BY <1>6 DEF m, ContainerInv, ChainInv
  <2>5. \A i \in 1 .. m : Fits(t, i)'
    BY <1>6, <2>4 DEF Fits
  <2>6. \A i \in 1 .. m : Calls(t, i)'
    <3> SUFFICES ASSUME NEW i \in 1 .. m
                 PROVE  Calls(t, i)'
      OBVIOUS
    <3>1. CASE i = m
      <4>1. stack[t] # <<>> /\ stack'[t][m] = stack[t][m] /\ stack'[t][m + 1].key = k
        BY <1>3, <1>6, <3>1
      <4> QED
        BY <1>2, <3>1, <4>1 DEF Calls
    <3>2. CASE i # m
      <4>1. i < m /\ i + 1 \in 1 .. m
        BY <1>4, <3>2 DEF m
      <4> QED
        BY <1>6, <2>4, <4>1 DEF Calls
    <3> QED
      BY <3>1, <3>2
  <2>7. \A i : i = m + 1 => Fits(t, i)'
    <3>1. Len(<<>>) = 0 /\ wiring[k] \in Seq(Keys)
      BY <1>1 DEF ContainerType
    <3>2. stack'[t][m + 1].given = <<>> /\ stack'[t][m + 1].key = k /\ wiring' = wiring
      BY <1>3, <1>6
    <3>3. 0 <= Len(wiring[k])
      BY <3>1
    <3> QED
      BY <3>1, <3>2, <3>3 DEF Fits
  <2>8. \A u \in Threads : \A i \in DOMAIN stack'[u] :
          Fits(u, i)' /\ (i < Len(stack'[u]) => Calls(u, i)')
    <3> SUFFICES ASSUME NEW u \in Threads, NEW i \in DOMAIN stack'[u]
                 PROVE  Fits(u, i)' /\ (i < Len(stack'[u]) => Calls(u, i)')
      OBVIOUS
    <3>1. u = t /\ (i \in 1 .. m \/ i = m + 1)
      BY <1>8
    <3>2. i = m + 1 => ~(i < Len(stack'[t]))
      BY <1>4, <1>6 DEF m
    <3> QED
      BY <2>5, <2>6, <2>7, <3>1, <3>2
  <2>9. resolving' \subseteq Keys
    BY DEF ContainerInv, ChainInv
  <2> QED
    BY <2>2, <2>3, <2>8, <2>9 DEF ChainInv
<1>12. OnceInv'
  <2>1. \A p \in DOMAIN singletons : objects[singletons[p]].key # k
    BY DEF Places
  <2>2. \A u \in Threads : \A i \in DOMAIN stack'[u] : \A p \in DOMAIN singletons :
          objects[singletons[p]].key # stack'[u][i].key
    BY <1>3, <1>6, <1>8, <2>1 DEF ContainerInv, OnceInv
  <2> QED
    BY <2>2 DEF ContainerInv, OnceInv, BuiltOnce
<1>13. DisposalInv'
  <2>1. \A u \in Threads : \A i \in DOMAIN stack'[u] : \A n \in DOMAIN stack'[u][i].given :
          Open(stack'[u][i].given[n])
    <3>1. DOMAIN frame.given = {}
      BY <1>3
    <3>2. \A i \in 1 .. m : \A n \in DOMAIN stack[t][i].given : Open(stack[t][i].given[n])
      BY <1>6 DEF ContainerInv, DisposalInv
    <3> QED
      BY <1>8, <3>1, <3>2
  <2>2. \A i : Open(i)' <=> Open(i)
    BY DEF Open
  <2> QED
    BY <2>1, <2>2 DEF ContainerInv, DisposalInv
<1>14. CircularIsReal'
  BY DEF ContainerInv, CircularIsReal, Circle
<1> QED
  BY <1>9, <1>10, <1>11, <1>12, <1>13, <1>14 DEF ContainerInv

\* The numbers of a sequence that grows at its end.
LEMMA Appended ==
  ASSUME NEW T, NEW s \in Seq(T), NEW e \in T
  PROVE  /\ Append(s, e) \in Seq(T)
         /\ DOMAIN s = 1 .. Len(s) /\ Len(s) \in Nat
         /\ DOMAIN Append(s, e) = DOMAIN s \cup {Len(s) + 1}
         /\ Len(s) + 1 \notin DOMAIN s
         /\ \A i \in DOMAIN s : Append(s, e)[i] = s[i]
         /\ Append(s, e)[Len(s) + 1] = e
<1>1. DOMAIN s = 1 .. Len(s) /\ Len(s) \in Nat
  OBVIOUS
<1>2. /\ Append(s, e) \in Seq(T) /\ Len(Append(s, e)) = Len(s) + 1
      /\ \A i \in 1 .. Len(s) : Append(s, e)[i] = s[i]
      /\ Append(s, e)[Len(s) + 1] = e
  BY AppendProperties
<1>3. DOMAIN Append(s, e) = 1 .. Len(s) + 1
  BY <1>2
<1> QED
  BY <1>1, <1>2, <1>3

\* What the thread whose factory returns finds.
LEMMA FinishFacts ==
  ASSUME ContainerInv, NEW t \in Threads, stack[t] # <<>>
  PROVE  /\ closing = <<>> /\ holder = t
         /\ \A u \in Threads : u # t => stack[u] = <<>> /\ DOMAIN stack[u] = {}
         /\ Front(stack[t]) \in Seq(Frame)
         /\ Len(stack[t]) \in DOMAIN stack[t] /\ DOMAIN stack[t] = 1 .. Len(stack[t])
         /\ Top(t) = stack[t][Len(stack[t])] /\ Top(t) \in Frame
         /\ Len(Front(stack[t])) = Len(stack[t]) - 1
         /\ \A i \in DOMAIN Front(stack[t]) : i < Len(stack[t]) /\ Front(stack[t])[i] = stack[t][i]
         /\ Front(stack[t]) # <<>> =>
              Len(Front(stack[t])[Len(Front(stack[t]))].given)
                < Len(wiring[Front(stack[t])[Len(Front(stack[t]))].key])
<1> DEFINE m == Len(stack[t])
           frames == Front(stack[t])
<1>1. /\ stack[t] \in Seq(Frame) /\ m \in Nat \ {0} /\ DOMAIN stack[t] = 1 .. m
      /\ \A i \in 1 .. m : stack[t][i] \in Frame
  BY DEF ContainerInv, ContainerType
<1>2. closing = <<>> /\ holder = t /\ \A u \in Threads : u # t => stack[u] = <<>>
  <2>1. holder = t
    BY DEF ContainerInv, LockInv
  <2> QED
    BY <2>1 DEF ContainerInv, LockInv
<1>3. frames = SubSeq(stack[t], 1, m - 1)
  BY DEF Front
<1>4. /\ frames \in Seq(Frame) /\ Len(frames) = m - 1
      /\ \A i \in 1 .. m - 1 : frames[i] = stack[t][i]
  <2> HIDE DEF m, frames
  <2>1. \A i \in 1 .. m - 1 : stack[t][i] \in Frame
    BY <1>1
  <2>2. /\ SubSeq(stack[t], 1, m - 1) \in Seq(Frame)
        /\ Len(SubSeq(stack[t], 1, m - 1)) = IF 1 <= m - 1 THEN (m - 1) - 1 + 1 ELSE 0
        /\ \A i \in 1 .. (m - 1) - 1 + 1 : SubSeq(stack[t], 1, m - 1)[i] = stack[t][1 + i - 1]
    BY <1>1, <2>1, SubSeqProperties
  <2>3. Len(frames) = m - 1
    BY <1>1, <1>3, <2>2
  <2>4. ASSUME NEW i \in 1 .. m - 1 PROVE frames[i] = stack[t][i]
    <3>1. i \in 1 .. (m - 1) - 1 + 1 /\ 1 + i - 1 = i
      BY <1>1
    <3> QED
      BY <1>3, <2>2, <3>1
  <2> QED
    BY <1>3, <2>2, <2>3, <2>4
<1>5. DOMAIN frames = 1 .. m - 1
  <2> HIDE DEF m, frames
  <2> QED
    BY <1>4
<1>6. ASSUME frames # <<>>
      PROVE  Len(frames[m - 1].given) < Len(wiring[frames[m - 1].key])
  <2>1. m - 1 \in 1 .. m - 1 /\ m - 1 \in 1 .. m /\ m - 1 < m /\ (m - 1) + 1 = m
    <3> HIDE DEF frames, m
    <3>1. m - 1 # 0
      BY <1>4, <1>6
    <3> QED
      BY <1>1, <3>1
  <2>2. Calls(t, m - 1)
    BY <1>1, <2>1 DEF ContainerInv, ChainInv
  <2> QED
    BY <1>4, <2>1, <2>2 DEF Calls
<1> QED
  <2> HIDE DEF m, frames
  <2>1. Top(t) = stack[t][m]
    BY DEF Top, m
  <2>2. \A i \in DOMAIN frames : i < m /\ frames[i] = stack[t][i]
    BY <1>1, <1>4, <1>5
  <2>3. m \in DOMAIN stack[t]
    BY <1>1
  <2> QED
    BY <1>1, <1>2, <1>4, <1>6, <2>1, <2>2, <2>3 DEF m, frames

\* A factory that returns adds its object, which holds what it was given.
LEMMA FinishStep ==
  ASSUME ContainerInv, NEW t \in Threads, Finish(t)
  PROVE  ContainerInv'
<1> DEFINE id == Len(objects) + 1
           k == Top(t).key
           parts == Top(t).given
           frames == Front(stack[t])
           m == Len(stack[t])
           new == [key |-> k, holds |-> Held(ToSet(parts)), round |-> round,
                   kept |-> kind[k] # "transient"]
<1>1. ContainerType
  BY DEF ContainerInv
<1>2. /\ stack[t] # <<>> /\ Len(parts) = Len(wiring[k])
      /\ objects' = Append(objects, new)
      /\ singletons' = IF new.kept THEN Append(singletons, id) ELSE singletons
      /\ resolving' = resolving \ {k}
      /\ Deliver(t, frames, id)
      /\ UNCHANGED <<kind, wiring, closing, closed, round>>
  BY DEF Finish, Complete, Keep
<1>3. /\ closing = <<>> /\ holder = t
      /\ \A u \in Threads : u # t => stack[u] = <<>> /\ DOMAIN stack[u] = {}
      /\ frames \in Seq(Frame) /\ DOMAIN stack[t] = 1 .. m /\ m \in DOMAIN stack[t]
      /\ Top(t) = stack[t][m] /\ Top(t) \in Frame
      /\ Len(frames) = m - 1
      /\ \A i \in DOMAIN frames : i < m /\ frames[i] = stack[t][i]
      /\ frames # <<>> => Len(frames[Len(frames)].given) < Len(wiring[frames[Len(frames)].key])
  BY <1>2, FinishFacts
<1>4. /\ \A n \in ToSet(parts) : n \in DOMAIN objects /\ Open(n)
      /\ k \in Keys /\ parts \in Seq(Nat)
  <2>1. parts \in Seq(Nat) /\ k \in Keys
    BY <1>3 DEF Frame
  <2>2. \A n \in DOMAIN parts : parts[n] \in DOMAIN objects /\ Open(parts[n])
    BY <1>1, <1>3 DEF ContainerType, ContainerInv, DisposalInv
  <2>3. \A x \in ToSet(parts) : \E n \in DOMAIN parts : parts[n] = x
    BY <2>1, ElementOfToSet
  <2> QED
    BY <2>1, <2>2, <2>3
<1>5. /\ new.holds \subseteq DOMAIN objects /\ new.holds \cap closed = {}
      /\ new.key = k /\ new.round = round /\ new.kept = (kind[k] # "transient")
  <2>1. Held(ToSet(parts)) \subseteq DOMAIN objects
    BY <1>1, <1>4 DEF Held, ContainerType
  <2>2. Held(ToSet(parts)) \cap closed = {}
    BY <1>4 DEF Held, Open
  <2> QED
    BY <2>1, <2>2
<1> HIDE DEF new, id, k, parts, frames
<1>6. new \in Object
  <2>1. DOMAIN objects \subseteq Nat
    BY <1>1 DEF ContainerType
  <2>2. Held(ToSet(parts)) \in SUBSET Nat
    BY <1>5, <2>1 DEF new
  <2> QED
    BY <1>1, <1>4, <2>2 DEF new, Object, ContainerType
<1>7. /\ objects' \in Seq(Object)
      /\ DOMAIN objects' = DOMAIN objects \cup {id} /\ id \notin DOMAIN objects /\ id \in Nat
      /\ \A i \in DOMAIN objects : objects'[i] = objects[i]
      /\ objects'[id] = new
  <2>1. objects \in Seq(Object)
    BY <1>1 DEF ContainerType
  <2> QED
    BY <1>2, <1>6, <2>1, Appended DEF id
<1>8. /\ singletons' \in Seq(DOMAIN objects')
      /\ \A p \in DOMAIN singletons : p \in DOMAIN singletons' /\ singletons'[p] = singletons[p]
      /\ \A p \in DOMAIN singletons' :
           \/ p \in DOMAIN singletons
           \/ /\ new.kept /\ singletons'[p] = id
              /\ p = Len(singletons) + 1
      /\ new.kept => \E p \in DOMAIN singletons' : singletons'[p] = id
      /\ Len(singletons) \in Nat /\ DOMAIN singletons = 1 .. Len(singletons)
  <2>1. singletons \in Seq(DOMAIN objects')
    <3>1. singletons \in Seq(DOMAIN objects)
      BY <1>1 DEF ContainerType
    <3>2. DOMAIN objects \subseteq DOMAIN objects'
      BY <1>7
    <3> QED
      BY <3>1, <3>2, SeqMonotonic
  <2>2. id \in DOMAIN objects'
    BY <1>7
  <2>3. /\ Append(singletons, id) \in Seq(DOMAIN objects')
        /\ DOMAIN singletons = 1 .. Len(singletons) /\ Len(singletons) \in Nat
        /\ DOMAIN Append(singletons, id) = DOMAIN singletons \cup {Len(singletons) + 1}
        /\ \A p \in DOMAIN singletons : Append(singletons, id)[p] = singletons[p]
        /\ Append(singletons, id)[Len(singletons) + 1] = id
    BY <2>1, <2>2, Appended
  <2>4. CASE new.kept
    BY <1>2, <2>3, <2>4
  <2>5. CASE ~new.kept
    BY <1>2, <2>1, <2>3, <2>5
  <2> QED
    BY <2>4, <2>5
<1>9. /\ \A u \in Threads : u # t => stack'[u] = <<>> /\ DOMAIN stack'[u] = {}
      /\ DOMAIN stack'[t] = 1 .. Len(frames)
      /\ \A i \in DOMAIN stack'[t] : i \in DOMAIN stack[t] /\ stack'[t][i].key = stack[t][i].key
      /\ \A i \in DOMAIN stack'[t] : \A n \in DOMAIN stack'[t][i].given :
           \/ stack'[t][i].given[n] = id
           \/ \E j \in DOMAIN stack[t][i].given : stack'[t][i].given[n] = stack[t][i].given[j]
      /\ \A i \in DOMAIN stack'[t] : Fits(t, i)' /\ (i < Len(stack'[t]) => Calls(t, i)')
  <2>1. Len(frames) <= Len(stack[t])
    BY <1>3
  <2>2. wiring' = wiring /\ Deliver(t, frames, id) /\ id \in Nat
    BY <1>2, <1>7
  <2>3. /\ frames \in Seq(Frame) /\ \A i \in DOMAIN frames : frames[i] = stack[t][i]
        /\ frames # <<>> => Len(frames[Len(frames)].given) < Len(wiring[frames[Len(frames)].key])
        /\ \A u \in Threads : u # t => stack[u] = <<>>
    BY <1>3
  <2> QED
    BY <2>1, <2>2, <2>3, Handed
<1>10. /\ stack' \in [Threads -> Seq(Frame)]
       /\ holder' = IF frames = <<>> THEN Nobody ELSE t
       /\ answer' \in [Threads -> Answers]
       /\ \A u \in Threads : answer'[u] = answer[u] \/ answer'[u] = "built"
  BY <1>1, <1>2, <1>3, <1>7, DeliverFacts
<1>11. DOMAIN stack'[t] = 1 .. m - 1 /\ DOMAIN stack[t] = (DOMAIN stack'[t]) \cup {m} /\ m \notin DOMAIN stack'[t]
  <2>1. m \in Nat \ {0}
    BY <1>1, <1>2 DEF ContainerType
  <2> HIDE DEF m
  <2> QED
    BY <1>3, <1>9, <2>1
<1>12. \A u \in Threads : \A i \in DOMAIN stack'[u] :
         /\ u = t /\ i \in DOMAIN stack[t] /\ i # m
         /\ stack'[u][i].key = stack[t][i].key /\ stack[t][i].key # k
  <2>1. \A i \in DOMAIN stack[t] : i # m => stack[t][i].key # stack[t][m].key
    BY <1>3 DEF ContainerInv, ChainInv
  <2>2. stack[t][m].key = k
    BY <1>3 DEF k
  <2> QED
    BY <1>9, <1>11, <2>1, <2>2
<1>13. \A u \in Threads : \A i \in DOMAIN stack'[u] : \A n \in DOMAIN stack'[u][i].given :
         \/ stack'[u][i].given[n] = id
         \/ \E j \in DOMAIN stack[t][i].given : stack'[u][i].given[n] = stack[t][i].given[j]
  BY <1>9, <1>12
<1>14. \A i \in DOMAIN objects : Open(i)' <=> Open(i)
  BY <1>2, <1>7 DEF Open
<1>15. \A i : i = id => Open(i)'
  <2>1. id \notin closed
    BY <1>1, <1>7 DEF ContainerType
  <2> QED
    BY <1>2, <1>5, <1>7, <2>1 DEF Open
<1>16. ContainerType'
  <2>1. \A u \in Threads : \A i \in DOMAIN stack'[u] : \A n \in DOMAIN stack'[u][i].given :
          stack'[u][i].given[n] \in DOMAIN objects'
    <3>1. \A i \in DOMAIN stack[t] : \A j \in DOMAIN stack[t][i].given :
            stack[t][i].given[j] \in DOMAIN objects
      BY <1>1 DEF ContainerType
    <3> QED
      BY <1>7, <1>12, <1>13, <3>1
  <2>2. \A i \in DOMAIN objects' : objects'[i].holds \subseteq DOMAIN objects' /\ objects'[i].round <= round'
    <3>1. \A i \in DOMAIN objects : objects[i].holds \subseteq DOMAIN objects /\ objects[i].round <= round
      BY <1>1 DEF ContainerType
    <3>2. round \in Nat
      BY <1>1 DEF ContainerType
    <3> QED
      BY <1>2, <1>5, <1>7, <3>1, <3>2
  <2>3. closed' \subseteq DOMAIN objects' /\ closing' \in Seq(DOMAIN objects')
    <3>1. closed \subseteq DOMAIN objects
      BY <1>1 DEF ContainerType
    <3> QED
      BY <1>2, <1>3, <1>7, <3>1
  <2> QED
    BY <1>1, <1>2, <1>7, <1>8, <1>10, <2>1, <2>2, <2>3 DEF ContainerType
<1>17. LockInv'
  <2>1. stack'[t] # <<>> => frames # <<>>
    <3>1. ASSUME frames = <<>> PROVE stack'[t] = <<>>
      BY <1>1, <1>2, <3>1 DEF Deliver, ContainerType
    <3> QED
      BY <3>1
  <2> QED
    BY <1>2, <1>3, <1>9, <1>10, <2>1 DEF LockInv
<1>18. ChainInv'
  <2>1. \A q \in Keys : q \in resolving <=> \E i \in DOMAIN stack[t] : stack[t][i].key = q
    <3>1. \A q \in Keys :
            q \in resolving <=> \E u \in Threads : \E i \in DOMAIN stack[u] : stack[u][i].key = q
      BY DEF ContainerInv, ChainInv
    <3> QED
      BY <1>3, <3>1
  <2>2. \A q \in Keys : q \in resolving' <=>
          \E u \in Threads : \E i \in DOMAIN stack'[u] : stack'[u][i].key = q
    <3>1. ASSUME NEW q \in Keys, q \in resolving'
          PROVE  \E u \in Threads : \E i \in DOMAIN stack'[u] : stack'[u][i].key = q
      <4>1. PICK i \in DOMAIN stack[t] : stack[t][i].key = q
        BY <1>2, <2>1, <3>1
      <4>2. i # m
        BY <1>2, <1>3, <3>1, <4>1 DEF k
      <4>3. i \in DOMAIN stack'[t] /\ stack'[t][i].key = q
        BY <1>9, <1>11, <4>1, <4>2
      <4> QED
        BY <4>3
    <3>2. ASSUME NEW q \in Keys, NEW u \in Threads, NEW i \in DOMAIN stack'[u],
                 stack'[u][i].key = q
          PROVE  q \in resolving'
      BY <1>2, <1>12, <2>1, <3>2
    <3> QED
      BY <3>1, <3>2
  <2>3. \A u \in Threads : \A i, j \in DOMAIN stack'[u] :
          stack'[u][i].key = stack'[u][j].key => i = j
    BY <1>12 DEF ContainerInv, ChainInv
  <2>4. \A u \in Threads : \A i \in DOMAIN stack'[u] :
          Fits(u, i)' /\ (i < Len(stack'[u]) => Calls(u, i)')
    BY <1>9, <1>12
  <2>5. resolving' \subseteq Keys
    BY <1>2 DEF ContainerInv, ChainInv
  <2> QED
    BY <2>2, <2>3, <2>4, <2>5 DEF ChainInv
<1>19. \A p \in DOMAIN singletons : objects[singletons[p]].key # k /\ singletons[p] \in DOMAIN objects
  BY <1>1, <1>3 DEF ContainerType, ContainerInv, OnceInv, k
<1>20. OnceInv'
  <2>1. \A p \in DOMAIN singletons' :
          \/ /\ p \in DOMAIN singletons /\ singletons'[p] = singletons[p]
             /\ objects'[singletons'[p]] = objects[singletons[p]]
          \/ /\ singletons'[p] = id /\ objects'[singletons'[p]] = new
             /\ p = Len(singletons) + 1
    BY <1>7, <1>8, <1>19
  <2>2. \A p, q \in DOMAIN singletons' :
          objects'[singletons'[p]].key = objects'[singletons'[q]].key => p = q
    BY <1>5, <1>19, <2>1 DEF ContainerInv, OnceInv
  <2>3. \A i \in DOMAIN objects' :
          objects'[i].kept /\ objects'[i].round = round' => \E p \in DOMAIN singletons' : singletons'[p] = i
    <3>1. \A i \in DOMAIN objects :
            objects[i].kept /\ objects[i].round = round => \E p \in DOMAIN singletons : singletons[p] = i
      BY DEF ContainerInv, OnceInv
    <3> QED
      BY <1>2, <1>7, <1>8, <3>1
  <2>4. \A u \in Threads : \A i \in DOMAIN stack'[u] : \A p \in DOMAIN singletons' :
          objects'[singletons'[p]].key # stack'[u][i].key
    <3>1. \A i \in DOMAIN stack[t] : \A p \in DOMAIN singletons :
            objects[singletons[p]].key # stack[t][i].key
      BY DEF ContainerInv, OnceInv
    <3> QED
      BY <1>5, <1>12, <2>1, <3>1
  <2>5. BuiltOnce'
    <3>1. ASSUME NEW i \in DOMAIN objects, objects[i].kept, objects[i].round = round
          PROVE  objects[i].key # k
      BY <1>19, <3>1 DEF ContainerInv, OnceInv
    <3>2. BuiltOnce
      BY DEF ContainerInv, OnceInv
    <3> QED
      BY <1>5, <1>7, <3>1, <3>2 DEF BuiltOnce
  <2> QED
    BY <2>2, <2>3, <2>4, <2>5 DEF OnceInv
<1>21. DisposalInv'
  <2>1. \A p \in DOMAIN singletons' :
          \/ /\ p \in DOMAIN singletons /\ singletons'[p] = singletons[p]
             /\ objects'[singletons'[p]] = objects[singletons[p]]
          \/ /\ singletons'[p] = id /\ objects'[singletons'[p]] = new
             /\ p = Len(singletons) + 1
    BY <1>7, <1>8, <1>19
  <2>2. ASSUME NEW p \in DOMAIN singletons', NEW q \in DOMAIN singletons',
               singletons'[q] \in objects'[singletons'[p]].holds
        PROVE  q < p
    <3>1. objects'[singletons'[p]].holds \subseteq DOMAIN objects
      BY <1>1, <1>5, <1>19, <2>1 DEF ContainerType
    <3>2. q \in DOMAIN singletons /\ singletons'[q] = singletons[q]
      BY <1>7, <2>1, <2>2, <3>1
    <3>3. CASE p \in DOMAIN singletons /\ objects'[singletons'[p]] = objects[singletons[p]]
      BY <2>2, <3>2, <3>3 DEF ContainerInv, DisposalInv
    <3>4. CASE p = Len(singletons) + 1
      BY <1>8, <3>2, <3>4
    <3> QED
      BY <2>1, <3>3, <3>4
  <2>3. (\A p \in DOMAIN singletons : Open(singletons[p]))'
    <3>1. \A p \in DOMAIN singletons : Open(singletons[p])
      BY DEF ContainerInv, DisposalInv
    <3>2. \A p \in DOMAIN singletons : \A i : i = singletons[p] => Open(i)'
      BY <1>14, <1>19, <3>1
    <3>3. \A p \in DOMAIN singletons' : \A i : i = singletons'[p] => Open(i)'
      BY <1>15, <2>1, <3>2
    <3> QED
      BY <3>3 DEF Open
  <2>4. DOMAIN closing' = {}
    BY <1>2, <1>3
  <2>5. (\A u \in Threads : \A i \in DOMAIN stack[u] : \A n \in DOMAIN stack[u][i].given :
          Open(stack[u][i].given[n]))'
    <3>1. \A i \in DOMAIN stack[t] : \A j \in DOMAIN stack[t][i].given :
            Open(stack[t][i].given[j]) /\ stack[t][i].given[j] \in DOMAIN objects
      BY <1>1 DEF ContainerInv, ContainerType, DisposalInv
    <3>2. \A i \in DOMAIN stack[t] : \A j \in DOMAIN stack[t][i].given :
            \A o : o = stack[t][i].given[j] => Open(o)'
      BY <1>14, <3>1
    <3>3. \A u \in Threads : \A i \in DOMAIN stack'[u] : \A n \in DOMAIN stack'[u][i].given :
            \A o : o = stack'[u][i].given[n] => Open(o)'
      BY <1>12, <1>13, <1>15, <3>2
    <3> QED
      BY <3>3 DEF Open
  <2>6. \A i \in DOMAIN objects' : objects'[i].kept /\ objects'[i].round < round' => i \in closed'
    <3>1. \A i \in DOMAIN objects : objects[i].kept /\ objects[i].round < round => i \in closed
      BY <1>3 DEF ContainerInv, DisposalInv
    <3>2. round \in Nat
      BY <1>1 DEF ContainerType
    <3> QED
      BY <1>2, <1>5, <1>7, <3>1, <3>2
  <2> QED
    BY <2>2, <2>3, <2>4, <2>5, <2>6 DEF DisposalInv
<1>22. CircularIsReal'
  BY <1>2, <1>10 DEF ContainerInv, CircularIsReal, Circle
<1> QED
  BY <1>16, <1>17, <1>18, <1>20, <1>21, <1>22 DEF ContainerInv

\* Nobody holds the lock: no factory is under way and nothing is being closed.
LEMMA Unlocked ==
  ASSUME ContainerInv, holder = Nobody
  PROVE  /\ closing = <<>>
         /\ \A u \in Threads : stack[u] = <<>> /\ DOMAIN stack[u] = {}
<1>1. \A u \in Threads : stack[u] = <<>>
  BY ContainerAssumption DEF ContainerInv, LockInv
<1> QED
  BY <1>1 DEF ContainerInv, LockInv

\* Registering a factory keeps the invariant.
LEMMA RegisterStep ==
  ASSUME ContainerInv, NEW k \in Keys, NEW as \in Kinds, Register(k, as)
  PROVE  ContainerInv'
<1>1. /\ kind' = [kind EXCEPT ![k] = as]
      /\ UNCHANGED <<wiring, objects, singletons, resolving, holder, stack, answer, closing,
                     closed, round>>
  BY DEF Register
<1>2. ContainerType'
  BY <1>1 DEF ContainerInv, ContainerType
<1>3. LockInv' /\ ChainInv'
  BY <1>1 DEF ContainerInv, LockInv, ChainInv, Fits, Calls
<1>4. OnceInv' /\ DisposalInv' /\ CircularIsReal'
  BY <1>1 DEF ContainerInv, OnceInv, BuiltOnce, DisposalInv, Open, CircularIsReal, Circle
<1> QED
  BY <1>2, <1>3, <1>4 DEF ContainerInv

\* The fields of an object.
LEMMA ObjectFields ==
  ASSUME ContainerType, NEW i \in DOMAIN objects
  PROVE  /\ objects[i] \in Object
         /\ objects[i].key \in Keys /\ objects[i].round \in Nat /\ objects[i].kept \in BOOLEAN
         /\ objects[i].holds \in SUBSET Nat
<1>1. objects \in Seq(Object) /\ DOMAIN objects = 1 .. Len(objects)
  BY DEF ContainerType
<1>2. objects[i] \in Object
  BY <1>1, ElementOfSeq
<1> QED
  BY <1>2 DEF Object

\* The objects are taken out of the dictionary in reverse.
LEMMA DisposeStep ==
  ASSUME ContainerInv, NEW t \in Threads, Dispose(t)
  PROVE  ContainerInv'
<1> DEFINE n == Len(singletons)
<1>1. ContainerType
  BY DEF ContainerInv
<1>2. /\ closing' = Reverse(singletons) /\ singletons' = <<>> /\ holder' = t /\ round' = round + 1
      /\ UNCHANGED <<kind, wiring, objects, resolving, stack, answer, closed>>
      /\ holder = Nobody
  BY DEF Dispose, DisposalOrder, MayEnter
<1>3. closing = <<>> /\ \A u \in Threads : stack[u] = <<>> /\ DOMAIN stack[u] = {}
  BY <1>2, Unlocked
<1>4. n \in Nat /\ DOMAIN singletons = 1 .. n /\ round \in Nat
  BY <1>1 DEF ContainerType
<1>5. closing' = [p \in 1 .. n |-> singletons[(n - p) + 1]]
  BY <1>2 DEF Reverse
<1> HIDE DEF n
<1>6. \A p \in 1 .. n : (n - p) + 1 \in 1 .. n
  BY <1>4
<1>7. /\ closing' \in Seq(DOMAIN objects) /\ DOMAIN closing' = 1 .. n
      /\ \A p \in 1 .. n : closing'[p] = singletons[(n - p) + 1]
  <2>1. \A p \in 1 .. n : singletons[p] \in DOMAIN objects
    BY <1>1, <1>4 DEF ContainerType
  <2>2. closing' \in [1 .. n -> DOMAIN objects]
    BY <1>5, <1>6, <2>1
  <2>3. closing' \in Seq(DOMAIN objects)
    BY <1>4, <2>2, SeqDef
  <2> QED
    BY <1>5, <2>2, <2>3
<1>8. ContainerType'
  <2>1. \A i \in DOMAIN objects : objects[i].round <= round
    BY <1>1 DEF ContainerType
  <2>2. \A i \in DOMAIN objects : objects[i].round \in Nat
    BY <1>1, ObjectFields
  <2>3. \A i \in DOMAIN objects : objects[i].round <= round + 1
    BY <1>4, <2>1, <2>2
  <2>4. singletons' \in Seq(DOMAIN objects')
    BY <1>2
  <2> QED
    BY <1>1, <1>2, <1>3, <1>4, <1>7, <2>3, <2>4 DEF ContainerType
<1>9. LockInv'
  BY <1>2, <1>3, ContainerAssumption DEF LockInv
<1>10. ChainInv'
  BY <1>2 DEF ContainerInv, ChainInv, Fits, Calls
<1>11. OnceInv'
  <2>1. \A i \in DOMAIN objects : objects[i].round # round + 1
    BY <1>1, <1>4 DEF ContainerType, Object
  <2>2. DOMAIN singletons' = {}
    BY <1>2
  <2>3. BuiltOnce'
    BY <1>2 DEF ContainerInv, OnceInv, BuiltOnce
  <2> QED
    BY <1>2, <1>3, <2>1, <2>2, <2>3 DEF OnceInv
<1>12. DisposalInv'
  <2>1. DOMAIN singletons' = {}
    BY <1>2
  <2>2. ASSUME NEW p \in DOMAIN closing', NEW q \in DOMAIN closing'
        PROVE  /\ closing'[p] = closing'[q] => p = q
               /\ closing'[q] \in objects'[closing'[p]].holds => p < q
    <3>1. p \in 1 .. n /\ q \in 1 .. n /\ (n - p) + 1 \in 1 .. n /\ (n - q) + 1 \in 1 .. n
      BY <1>6, <1>7
    <3>2. closing'[p] = closing'[q] => (n - p) + 1 = (n - q) + 1
      <4>1. \A i, j \in 1 .. n : singletons[i] = singletons[j] => i = j
        BY <1>4 DEF ContainerInv, OnceInv
      <4> QED
        BY <1>7, <3>1, <4>1
    <3>3. closing'[q] \in objects[closing'[p]].holds => (n - q) + 1 < (n - p) + 1
      BY <1>4, <1>7, <3>1 DEF ContainerInv, DisposalInv
    <3> QED
      BY <1>2, <1>4, <3>1, <3>2, <3>3
  <2>3. (\A p \in DOMAIN closing : Open(closing[p]))'
    <3>1. \A p \in 1 .. n : Open(singletons[p])
      BY <1>4 DEF ContainerInv, DisposalInv
    <3> QED
      BY <1>2, <1>6, <1>7, <3>1 DEF Open
  <2>4. ASSUME NEW i \in DOMAIN objects, objects[i].kept, objects[i].round < round + 1
        PROVE  i \in closed \/ \E p \in DOMAIN closing' : closing'[p] = i
    <3>1. objects[i].round \in Nat /\ objects[i].round <= round
      BY <1>1, ObjectFields DEF ContainerType
    <3>2. CASE objects[i].round = round
      <4>1. PICK p \in 1 .. n : singletons[p] = i
        BY <1>4, <2>4, <3>2 DEF ContainerInv, OnceInv
      <4>2. (n - p) + 1 \in 1 .. n /\ (n - ((n - p) + 1)) + 1 = p
        BY <1>4
      <4> QED
        BY <1>7, <4>1, <4>2
    <3>3. CASE objects[i].round < round
      BY <1>3, <2>4, <3>3 DEF ContainerInv, DisposalInv
    <3> QED
      BY <1>4, <2>4, <3>1, <3>2, <3>3
  <2> QED
    BY <1>2, <1>3, <2>1, <2>2, <2>3, <2>4 DEF DisposalInv
<1>13. CircularIsReal'
  BY <1>2 DEF ContainerInv, CircularIsReal, Circle
<1> QED
  BY <1>8, <1>9, <1>10, <1>11, <1>12, <1>13 DEF ContainerInv

\* What is closed is held by nothing that comes after it.
LEMMA CloseStep ==
  ASSUME ContainerInv, NEW t \in Threads, CloseNext(t)
  PROVE  ContainerInv'
<1> DEFINE n == Len(closing)
<1>1. ContainerType
  BY DEF ContainerInv
<1>2. /\ closing # <<>> /\ holder = t
      /\ closing' = Tail(closing) /\ closed' = closed \cup {Head(closing)}
      /\ holder' = IF closing' = <<>> THEN Nobody ELSE t
      /\ UNCHANGED <<kind, wiring, objects, singletons, resolving, stack, answer, round>>
  BY DEF CloseNext
<1>3. singletons = <<>> /\ \A u \in Threads : stack[u] = <<>> /\ DOMAIN stack[u] = {}
  <2>1. singletons = <<>> /\ \A u \in Threads : stack[u] = <<>>
    BY <1>2 DEF ContainerInv, LockInv
  <2> QED
    BY <2>1
<1>4. closing \in Seq(DOMAIN objects) /\ n \in Nat \ {0} /\ DOMAIN closing = 1 .. n
  BY <1>1, <1>2 DEF ContainerType
<1>5. Head(closing) = closing[1] /\ closing[1] \in DOMAIN objects
  BY <1>4
<1> HIDE DEF n
<1>6. /\ closing' \in Seq(DOMAIN objects) /\ DOMAIN closing' = 1 .. n - 1
      /\ \A p \in 1 .. n - 1 : closing'[p] = closing[p + 1] /\ p + 1 \in DOMAIN closing
  <2>1. /\ Tail(closing) \in Seq(DOMAIN objects) /\ Len(Tail(closing)) = n - 1
        /\ \A p \in 1 .. Len(Tail(closing)) : Tail(closing)[p] = closing[p + 1]
    BY <1>2, <1>4, HeadTailProperties DEF n
  <2>2. DOMAIN Tail(closing) = 1 .. n - 1
    BY <2>1
  <2> QED
    BY <1>2, <1>4, <2>1, <2>2
<1>7. ContainerType'
  BY <1>1, <1>2, <1>5, <1>6 DEF ContainerType
<1>8. LockInv'
  BY <1>2, <1>3, ContainerAssumption DEF LockInv
<1>9. ChainInv'
  BY <1>2 DEF ContainerInv, ChainInv, Fits, Calls
<1>10. OnceInv'
  BY <1>2 DEF ContainerInv, OnceInv, BuiltOnce
<1>11. DisposalInv'
  <2>1. ASSUME NEW p \in DOMAIN closing', NEW q \in DOMAIN closing'
        PROVE  /\ closing'[p] = closing'[q] => p = q
               /\ closing'[q] \in objects'[closing'[p]].holds => p < q
    <3>1. /\ closing'[p] = closing[p + 1] /\ closing'[q] = closing[q + 1]
          /\ p + 1 \in DOMAIN closing /\ q + 1 \in DOMAIN closing /\ p \in Int /\ q \in Int
      BY <1>6
    <3>2. /\ closing[p + 1] = closing[q + 1] => p + 1 = q + 1
          /\ closing[q + 1] \in objects[closing[p + 1]].holds => p + 1 < q + 1
      BY <3>1 DEF ContainerInv, DisposalInv
    <3> QED
      BY <1>2, <3>1, <3>2
  <2>2. (\A p \in DOMAIN closing : Open(closing[p]))'
    <3>1. ASSUME NEW p \in 1 .. n - 1
          PROVE  /\ closing[p + 1] # closing[1] /\ closing[1] \notin objects[closing[p + 1]].holds
                 /\ Open(closing[p + 1])
      <4>1. p + 1 \in DOMAIN closing /\ 1 \in DOMAIN closing /\ p + 1 # 1 /\ ~(p + 1 < 1)
        BY <1>4, <1>6
      <4> QED
        BY <4>1 DEF ContainerInv, DisposalInv
    <3>2. \A p \in 1 .. n - 1 : closing'[p] \notin closed' /\ objects'[closing'[p]].holds \cap closed' = {}
      BY <1>2, <1>5, <1>6, <3>1 DEF Open
    <3> QED
      BY <1>6, <3>2 DEF Open
  <2>3. ASSUME NEW i \in DOMAIN objects, objects[i].kept, objects[i].round < round
        PROVE  i \in closed' \/ \E p \in DOMAIN closing' : closing'[p] = i
    <3>1. i \in closed \/ \E p \in DOMAIN closing : closing[p] = i
      BY <2>3 DEF ContainerInv, DisposalInv
    <3>2. ASSUME NEW p \in DOMAIN closing, closing[p] = i
          PROVE  i \in closed' \/ \E q \in DOMAIN closing' : closing'[q] = i
      <4>1. CASE p = 1
        BY <1>2, <1>5, <3>2, <4>1
      <4>2. CASE p # 1
        <5>1. p - 1 \in 1 .. n - 1 /\ (p - 1) + 1 = p
          BY <1>4, <4>2
        <5> QED
          BY <1>6, <3>2, <5>1
      <4> QED
        BY <4>1, <4>2
    <3> QED
      BY <1>2, <3>1, <3>2
  <2>4. DOMAIN singletons' = {}
    BY <1>2, <1>3
  <2> QED
    BY <1>2, <1>3, <2>1, <2>2, <2>3, <2>4 DEF DisposalInv
<1>12. CircularIsReal'
  BY <1>2 DEF ContainerInv, CircularIsReal, Circle
<1> QED
  BY <1>7, <1>8, <1>9, <1>10, <1>11, <1>12 DEF ContainerInv

\* An instance takes the place of the one before it, which counts no more.
LEMMA RegisterInstanceStep ==
  ASSUME ContainerInv, NEW k \in Keys, RegisterInstance(k)
  PROVE  ContainerInv'
<1> DEFINE id == Len(objects) + 1
           Loses(i) == \E p \in Places(k) : singletons[p] = i
           older == [i \in DOMAIN objects |->
                       [objects[i] EXCEPT !.kept = @ /\ \A p \in Places(k) : singletons[p] # i]]
           new == [key |-> k, holds |-> {}, round |-> round, kept |-> TRUE]
<1>1. ContainerType
  BY DEF ContainerInv
<1>2. /\ holder = Nobody /\ objects' = Append(older, new)
      /\ singletons' = IF Places(k) = {} THEN Append(singletons, id)
                       ELSE [i \in DOMAIN singletons |-> IF i \in Places(k) THEN id ELSE singletons[i]]
      /\ kind' = [kind EXCEPT ![k] = "none"]
      /\ UNCHANGED <<wiring, resolving, holder, stack, answer, closing, closed, round>>
  BY DEF RegisterInstance
<1>3. closing = <<>> /\ \A u \in Threads : stack[u] = <<>> /\ DOMAIN stack[u] = {}
  BY <1>2, Unlocked
<1>4. new \in Object /\ new.key = k /\ new.holds = {} /\ new.round = round /\ new.kept
  BY <1>1 DEF Object, ContainerType
<1>5. ASSUME NEW i \in DOMAIN objects
      PROVE  /\ older[i] \in Object
             /\ older[i].key = objects[i].key /\ older[i].holds = objects[i].holds
             /\ older[i].round = objects[i].round
             /\ older[i].kept => objects[i].kept /\ ~Loses(i)
  <2>1. objects[i] \in Object
    BY <1>1, ObjectFields
  <2> DEFINE b == objects[i].kept /\ \A p \in Places(k) : singletons[p] # i
  <2>2. older[i] = [objects[i] EXCEPT !.kept = b]
    OBVIOUS
  <2>3. b \in BOOLEAN /\ (b => objects[i].kept /\ ~Loses(i))
    BY <2>1 DEF Object
  <2> HIDE DEF b, older, Loses
  <2> QED
    BY <2>1, <2>2, <2>3 DEF Object
<1>6. older \in Seq(Object) /\ Len(older) = Len(objects) /\ DOMAIN older = DOMAIN objects
  <2>1. DOMAIN objects = 1 .. Len(objects) /\ Len(objects) \in Nat
    BY <1>1 DEF ContainerType
  <2>2. DOMAIN older = DOMAIN objects
    OBVIOUS
  <2>3. older \in [1 .. Len(objects) -> Object]
    <3> DEFINE E(i) == [objects[i] EXCEPT !.kept = @ /\ \A p \in Places(k) : singletons[p] # i]
    <3>1. \A i \in 1 .. Len(objects) : E(i) \in Object
      BY <1>5, <2>1
    <3>2. older = [i \in 1 .. Len(objects) |-> E(i)]
      BY <2>1
    <3> HIDE DEF E, older
    <3> QED
      BY <3>1, <3>2
  <2> HIDE DEF older
  <2>4. older \in Seq(Object)
    BY <2>1, <2>3, SeqDef
  <2> QED
    BY <2>1, <2>2, <2>3, <2>4
<1> HIDE DEF new, id, older, Loses
<1>7. /\ objects' \in Seq(Object)
      /\ DOMAIN objects' = DOMAIN objects \cup {id} /\ id \notin DOMAIN objects /\ id \in Nat
      /\ \A i \in DOMAIN objects : objects'[i] = older[i]
      /\ objects'[id] = new
  BY <1>2, <1>4, <1>6, Appended DEF id
<1>8. \A i \in DOMAIN objects :
        /\ objects'[i].key = objects[i].key /\ objects'[i].holds = objects[i].holds
        /\ objects'[i].round = objects[i].round
        /\ objects'[i].kept => objects[i].kept /\ ~Loses(i)
  BY <1>5, <1>7
<1>9. /\ \A p \in DOMAIN singletons : singletons[p] \in DOMAIN objects
      /\ \A p \in DOMAIN singletons : p \in Places(k) <=> objects[singletons[p]].key = k
      /\ Places(k) \subseteq DOMAIN singletons
      /\ \A p, q \in Places(k) : p = q
      /\ DOMAIN singletons = 1 .. Len(singletons) /\ Len(singletons) \in Nat
  BY <1>1 DEF ContainerType, Places, ContainerInv, OnceInv
<1>10. singletons \in Seq(DOMAIN objects') /\ id \in DOMAIN objects'
  <2>1. singletons \in Seq(DOMAIN objects) /\ DOMAIN objects \subseteq DOMAIN objects'
    BY <1>1, <1>7 DEF ContainerType
  <2> QED
    BY <1>7, <2>1, SeqMonotonic
<1>11. /\ singletons' \in Seq(DOMAIN objects')
       /\ \A p \in DOMAIN singletons' :
            \/ p \in DOMAIN singletons /\ p \notin Places(k) /\ singletons'[p] = singletons[p]
            \/ singletons'[p] = id
       /\ \A p \in DOMAIN singletons : p \notin Places(k) =>
            p \in DOMAIN singletons' /\ singletons'[p] = singletons[p]
       /\ \E p \in DOMAIN singletons' : singletons'[p] = id
       /\ \A p, q \in DOMAIN singletons' : singletons'[p] = id /\ singletons'[q] = id => p = q
  <2>1. CASE Places(k) = {}
    <3>1. /\ Append(singletons, id) \in Seq(DOMAIN objects')
          /\ DOMAIN Append(singletons, id) = DOMAIN singletons \cup {Len(singletons) + 1}
          /\ \A p \in DOMAIN singletons : Append(singletons, id)[p] = singletons[p]
          /\ Append(singletons, id)[Len(singletons) + 1] = id
      BY <1>10, Appended
    <3> QED
      BY <1>2, <1>7, <1>9, <2>1, <3>1
  <2>2. CASE Places(k) # {}
    <3> DEFINE f == [i \in DOMAIN singletons |-> IF i \in Places(k) THEN id ELSE singletons[i]]
    <3>1. DOMAIN f = 1 .. Len(singletons) /\ f \in [1 .. Len(singletons) -> DOMAIN objects']
      BY <1>7, <1>9, <1>10
    <3>2. f \in Seq(DOMAIN objects')
      <4> HIDE DEF f
      <4> QED
        BY <1>9, <3>1, SeqDef
    <3>3. singletons' = f
      BY <1>2, <2>2
    <3>4. \A p \in DOMAIN singletons : f[p] = IF p \in Places(k) THEN id ELSE singletons[p]
      OBVIOUS
    <3> HIDE DEF f
    <3>5. \A p \in DOMAIN singletons : singletons[p] # id
      BY <1>7, <1>9
    <3> QED
      BY <1>9, <2>2, <3>1, <3>2, <3>3, <3>4, <3>5
  <2> QED
    BY <2>1, <2>2
<1>12. ContainerType'
  <2>1. \A i \in DOMAIN objects' : objects'[i].holds \subseteq DOMAIN objects' /\ objects'[i].round <= round'
    <3>1. \A i \in DOMAIN objects : objects[i].holds \subseteq DOMAIN objects /\ objects[i].round <= round
      BY <1>1 DEF ContainerType
    <3>2. round \in Nat
      BY <1>1 DEF ContainerType
    <3>3. \A i \in DOMAIN objects : objects'[i].holds \subseteq DOMAIN objects' /\ objects'[i].round <= round
      BY <1>7, <1>8, <3>1
    <3>4. objects'[id].holds = {} /\ objects'[id].round = round
      BY <1>4, <1>7
    <3> QED
      BY <1>2, <1>7, <3>2, <3>3, <3>4
  <2>2. closed' \subseteq DOMAIN objects' /\ closing' \in Seq(DOMAIN objects')
    <3>1. closed \subseteq DOMAIN objects
      BY <1>1 DEF ContainerType
    <3> QED
      BY <1>2, <1>3, <1>7, <3>1
  <2>3. kind' \in [Keys -> Kinds]
    BY <1>1, <1>2 DEF ContainerType, Kinds
  <2> QED
    BY <1>1, <1>2, <1>3, <1>7, <1>11, <2>1, <2>2, <2>3 DEF ContainerType
<1>13. LockInv'
  BY <1>2, <1>3 DEF LockInv
<1>14. ChainInv'
  BY <1>2 DEF ContainerInv, ChainInv, Fits, Calls
<1>15. \A p \in DOMAIN singletons' :
         \/ /\ p \in DOMAIN singletons /\ singletons'[p] = singletons[p]
            /\ singletons[p] \in DOMAIN objects /\ objects[singletons[p]].key # k
            /\ objects'[singletons'[p]].key = objects[singletons[p]].key
            /\ objects'[singletons'[p]].holds = objects[singletons[p]].holds
         \/ singletons'[p] = id /\ objects'[singletons'[p]] = new
  BY <1>7, <1>8, <1>9, <1>11
<1>16. OnceInv'
  <2>1. \A p, q \in DOMAIN singletons' :
          objects'[singletons'[p]].key = objects'[singletons'[q]].key => p = q
    <3>1. \A p, q \in DOMAIN singletons : objects[singletons[p]].key = objects[singletons[q]].key => p = q
      BY DEF ContainerInv, OnceInv
    <3> QED
      BY <1>4, <1>11, <1>15, <3>1
  <2>2. \A i \in DOMAIN objects' :
          objects'[i].kept /\ objects'[i].round = round' => \E p \in DOMAIN singletons' : singletons'[p] = i
    <3>1. \A i \in DOMAIN objects :
            objects[i].kept /\ objects[i].round = round => \E p \in DOMAIN singletons : singletons[p] = i
      BY DEF ContainerInv, OnceInv
    <3>2. ASSUME NEW i \in DOMAIN objects, objects'[i].kept, objects'[i].round = round
          PROVE  \E p \in DOMAIN singletons' : singletons'[p] = i
      <4>1. PICK p \in DOMAIN singletons : singletons[p] = i
        BY <1>8, <3>1, <3>2
      <4>2. p \notin Places(k)
        BY <1>8, <3>2, <4>1 DEF Loses
      <4> QED
        BY <1>11, <4>1, <4>2
    <3> QED
      BY <1>2, <1>7, <1>11, <3>2
  <2>3. BuiltOnce'
    <3>1. ASSUME NEW i \in DOMAIN objects, objects'[i].kept, objects'[i].round = round
          PROVE  objects'[i].key # k
      <4>1. PICK p \in DOMAIN singletons : singletons[p] = i
        BY <1>8, <3>1 DEF ContainerInv, OnceInv
      <4>2. p \notin Places(k)
        BY <1>8, <3>1, <4>1 DEF Loses
      <4> QED
        BY <1>8, <1>9, <4>1, <4>2
    <3>2. BuiltOnce
      BY DEF ContainerInv, OnceInv
    <3> QED
      BY <1>4, <1>7, <1>8, <3>1, <3>2 DEF BuiltOnce
  <2> QED
    BY <1>2, <1>3, <2>1, <2>2, <2>3 DEF OnceInv
<1>17. DisposalInv'
  <2>1. ASSUME NEW p \in DOMAIN singletons', NEW q \in DOMAIN singletons',
               singletons'[q] \in objects'[singletons'[p]].holds
        PROVE  q < p
    <3>1. /\ p \in DOMAIN singletons /\ singletons[p] \in DOMAIN objects
          /\ objects'[singletons'[p]].holds = objects[singletons[p]].holds
      BY <1>4, <1>15, <2>1
    <3>2. objects[singletons[p]].holds \subseteq DOMAIN objects
      BY <1>1, <3>1 DEF ContainerType
    <3>3. q \in DOMAIN singletons /\ singletons'[q] = singletons[q]
      BY <1>7, <1>15, <2>1, <3>1, <3>2
    <3> QED
      BY <2>1, <3>1, <3>3 DEF ContainerInv, DisposalInv
  <2>2. (\A p \in DOMAIN singletons : Open(singletons[p]))'
    <3>1. \A p \in DOMAIN singletons : singletons[p] \notin closed /\ objects[singletons[p]].holds \cap closed = {}
      BY DEF ContainerInv, DisposalInv, Open
    <3>2. id \notin closed
      BY <1>1, <1>7 DEF ContainerType
    <3>3. \A p \in DOMAIN singletons' :
            singletons'[p] \notin closed /\ objects'[singletons'[p]].holds \cap closed = {}
      BY <1>4, <1>15, <3>1, <3>2
    <3> QED
      BY <1>2, <3>3 DEF Open
  <2>3. \A i \in DOMAIN objects' : objects'[i].kept /\ objects'[i].round < round' => i \in closed'
    <3>1. \A i \in DOMAIN objects : objects[i].kept /\ objects[i].round < round => i \in closed
      BY <1>3 DEF ContainerInv, DisposalInv
    <3>2. round \in Nat
      BY <1>1 DEF ContainerType
    <3>3. \A i \in DOMAIN objects : objects'[i].kept /\ objects'[i].round < round => i \in closed
      BY <1>8, <3>1
    <3>4. ~(objects'[id].round < round)
      BY <1>4, <1>7, <3>2
    <3> QED
      BY <1>2, <1>7, <3>3, <3>4
  <2>4. DOMAIN closing' = {}
    BY <1>2, <1>3
  <2>5. \A p, q \in DOMAIN singletons' : singletons'[q] \in objects'[singletons'[p]].holds => q < p
    BY <2>1
  <2>6. \A u \in Threads : DOMAIN stack'[u] = {}
    BY <1>2, <1>3
  <2> QED
    BY <2>2, <2>3, <2>4, <2>5, <2>6 DEF DisposalInv
<1>18. CircularIsReal'
  BY <1>2 DEF ContainerInv, CircularIsReal, Circle
<1> QED
  BY <1>12, <1>13, <1>14, <1>16, <1>17, <1>18 DEF ContainerInv

-----------------------------------------------------------------------------

\* resolve, from outside or from a factory.
LEMMA EnterStep ==
  ASSUME ContainerInv, NEW t \in Threads, NEW k \in Keys, Asks(t, k), Enter(t, k)
  PROVE  ContainerInv'
<1>1. closing = <<>> /\ \A u \in Threads : u # t => stack[u] = <<>>
  BY AskFacts
<1>2. UNCHANGED <<kind, wiring, objects, singletons, closing, closed, round>>
  BY DEF Enter
<1>3. CASE /\ Places(k) # {} /\ UNCHANGED resolving
           /\ Deliver(t, stack[t], singletons[CHOOSE i \in Places(k) : TRUE])
  <2>1. UNCHANGED <<resolving, kind, wiring, objects, singletons, closing, closed, round>>
    BY <1>2, <1>3
  <2> QED
    BY <1>3, <2>1, CachedStep
<1>4. CASE Unwind(t, "unregistered")
  BY <1>1, <1>2, <1>4, UnwindStep DEF Answers
<1>5. CASE k \in resolving /\ Unwind(t, "circular")
  BY <1>1, <1>2, <1>5, UnwindStep, CircleFound DEF Answers
<1>6. CASE /\ Places(k) = {} /\ k \notin resolving
           /\ resolving' = resolving \cup {k}
           /\ stack' = [stack EXCEPT ![t] = Append(@, [key |-> k, given |-> <<>>])]
           /\ holder' = t /\ UNCHANGED answer
  BY <1>2, <1>6, PushStep
<1> QED
  BY <1>3, <1>4, <1>5, <1>6 DEF Enter

\* Every step keeps the invariant of the container.
LEMMA ContainerStep == ViewInv /\ ContainerInv /\ [Next]_vars => ContainerInv'
<1> SUFFICES ASSUME ViewInv, ContainerInv, [Next]_vars
             PROVE  ContainerInv'
  OBVIOUS
<1>1. ASSUME UNCHANGED containerVars PROVE ContainerInv'
  <2>1. ContainerType'
    BY <1>1 DEF containerVars, ContainerInv, ContainerType
  <2>2. LockInv' /\ ChainInv'
    BY <1>1 DEF containerVars, ContainerInv, LockInv, ChainInv, Fits, Calls
  <2>3. OnceInv'
    BY <1>1 DEF containerVars, ContainerInv, OnceInv, BuiltOnce
  <2>4. DisposalInv' /\ CircularIsReal'
    BY <1>1 DEF containerVars, ContainerInv, DisposalInv, Open, CircularIsReal, Circle
  <2> QED
    BY <2>1, <2>2, <2>3, <2>4 DEF ContainerInv
<1>2. ASSUME NEW t \in Threads, NEW k \in Keys, Resolve(t, k) PROVE ContainerInv'
  BY <1>2, EnterStep DEF Resolve, MayEnter, Asks
<1>3. ASSUME NEW t \in Threads, ResolveNext(t) PROVE ContainerInv'
  <2> DEFINE k == wiring[Top(t).key][Len(Top(t).given) + 1]
  <2>1. Waiting(t) /\ Enter(t, k)
    BY <1>3 DEF ResolveNext
  <2>2. Asks(t, k)
    BY <2>1 DEF Asks
  <2>3. k \in Keys
    BY <2>1, <2>2, AskFacts DEF Waiting
  <2> QED
    BY <2>1, <2>2, <2>3, EnterStep
<1>4. ASSUME NEW t \in Threads, Raise(t) PROVE ContainerInv'
  <2>1. closing = <<>> /\ \A u \in Threads : u # t => stack[u] = <<>>
    BY <1>4, FinishFacts DEF Raise
  <2> QED
    BY <1>4, <2>1, UnwindStep DEF Raise, Answers
<1>5. Gui \in Threads /\ Tried \subseteq Keys
  BY LifecycleAssumption
<1>6. \A i \in 1 .. Len(Script) : Script[i] \in Keys
  <2>1. \A s \in Seq(Keys) : \A i \in 1 .. Len(s) : s[i] \in Keys
    OBVIOUS
  <2> QED
    BY <2>1, ScriptType
<1>7. CASE explored = "program" /\ Program
  <2>1. CASE Request
    <3>1. pc + 1 \in 1 .. Len(Script) /\ Resolve(Gui, Script[pc + 1])
      BY <2>1, ScriptType DEF Request, ViewInv
    <3> QED
      BY <1>2, <1>5, <1>6, <3>1
  <2>2. CASE Abort \/ Run \/ Inspect \/ Quit
    BY <1>1, <2>2 DEF Abort, Run, Inspect, Quit
  <2>3. CASE Shutdown
    BY <1>1, <1>5, <2>3, DisposeStep, CloseStep DEF Shutdown
  <2>4. CASE ResolveNext(Gui) \/ Finish(Gui) \/ Raise(Gui)
    BY <1>3, <1>4, <1>5, <2>4, FinishStep
  <2> QED
    BY <1>7, <2>1, <2>2, <2>3, <2>4 DEF Program
<1>8. CASE Sample
  BY <1>1, <1>8 DEF Sample
<1>9. CASE Alone
  BY <1>2, <1>3, <1>4, <1>5, <1>9, FinishStep, DisposeStep, CloseStep, RegisterStep,
     RegisterInstanceStep DEF Alone
<1> QED
  BY <1>1, <1>7, <1>8, <1>9 DEF Next, vars

\* A service is built once between two disposals, whichever threads ask for it and
\* however their factories fail (container.py:42).
THEOREM ServicesAreBuiltOnce == Spec => []BuiltOnce
<1>1. ContainerInv => BuiltOnce
  BY DEF ContainerInv, OnceInv
<1> QED
  BY ViewStart, ViewStep, ContainerStart, ContainerStep, <1>1, PTL DEF Spec

\* Dependents are closed before what they depend on, and every singleton is closed,
\* whatever close() raises (container.py:122).
THEOREM DisposalIsOrderly == Spec => []OrderlyDisposal
<1>1. ContainerInv => OrderlyDisposal
  <2> SUFFICES ASSUME ContainerInv PROVE OrderlyDisposal
    OBVIOUS
  <2>1. closing \in Seq(DOMAIN objects) /\ singletons \in Seq(DOMAIN objects)
    BY DEF ContainerInv, ContainerType
  <2>2. /\ \A i : i \in ToSet(closing) <=> \E p \in DOMAIN closing : closing[p] = i
        /\ \A i : i \in ToSet(singletons) <=> \E p \in DOMAIN singletons : singletons[p] = i
    BY <2>1, ElementOfToSet
  <2>3. \A i \in ToSet(closing) \cup ToSet(singletons) : objects[i].holds \cap closed = {}
    BY <2>2 DEF ContainerInv, DisposalInv, Open
  <2>4. \A i \in DOMAIN objects :
          objects[i].kept /\ objects[i].round < round => i \in closed \cup ToSet(closing)
    BY <2>2 DEF ContainerInv, DisposalInv
  <2> QED
    BY <2>3, <2>4 DEF OrderlyDisposal
<1> QED
  BY ViewStart, ViewStep, ContainerStart, ContainerStep, <1>1, PTL DEF Spec

\* What is refused as circular is circular, for any wiring: the keys of the stack
\* from the refused one up need each other in a circle (container.py:110).
THEOREM CirclesAreReal == Spec => []CircularIsReal
<1>1. ContainerInv => CircularIsReal
  BY DEF ContainerInv
<1> QED
  BY ViewStart, ViewStep, ContainerStart, ContainerStep, <1>1, PTL DEF Spec
=============================================================================
