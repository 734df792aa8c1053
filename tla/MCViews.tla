------------------------------ MODULE MCViews -------------------------------
(***************************************************************************)
(* For the pages two names, two devices that may bear them and every kind  *)
(* of body.  For the verdicts readings on either side of every threshold,  *)
(* and everything that may not be readable, for a few things of each kind. *)
(***************************************************************************)
EXTENDS Views, TLC

CONSTANTS name1, name2, unit1, unit2

MCNames == {name1, name2}
MCUnits == {unit1, unit2}
MCSymmetry == Permutations(MCNames) \cup Permutations(MCUnits)


MCReading == [label : {"package", "core", "other"}, value : {None, 84, 96}, critical : {None, 110}]
MCCpu == {[load |-> l, cores |-> 2, chips |-> <<>>] : l \in {1, 2, 4}}
         \cup {[load |-> 0, cores |-> 0, chips |-> <<<<>>, <<a, b>>>>] : a \in MCReading,
                 b \in {[label |-> l, value |-> v, critical |-> 100] :
                          l \in {"package", "core"}, v \in {89, 97}}}

MCMemory == [total : {100}, free : {5}, available : {None, 4, 7, 11, 50}, swapTotal : {10},
             swapFree : {None, 2, 10}, psi : {None, [some |-> 4, full |-> None],
                                              [some |-> 30, full |-> 6]}]
            \cup {[total |-> None, free |-> None, available |-> None, swapTotal |-> None,
                   swapFree |-> None, psi |-> [some |-> 30, full |-> None]]}

MCMount(n, r, u) == [device |-> n, remote |-> r, total |-> 100, used |-> u]
MCMounts == {<<MCMount("root", FALSE, u)>> : u \in {50, 90, 96}}
            \cup {<<MCMount("root", FALSE, u), MCMount(n, r, 93)>> :
                     u \in {50, 96}, n \in {"root", "home"}, r \in BOOLEAN}
            \cup {<<[device |-> "root", remote |-> FALSE, total |-> t, used |-> t]>> : t \in {None, 0}}
MCAttributes == {{}} \cup {{[row |-> r, value |-> v, raw |-> n, threshold |-> 5]} :
                    r \in {"used", "spare", "sectors", "other"}, v \in {4, 90}, n \in {None, 1}}
MCSmart == {None} \cup [refused : BOOLEAN, passed : BOOLEAN \cup {None}, temperature : {None, 80},
                        attributes : {{}}]
           \cup [refused : {FALSE}, passed : {TRUE}, temperature : {None}, attributes : MCAttributes]
MCDisk(n, smart) == [name |-> n, nvme |-> TRUE, smart |-> smart]
MCStorage == {[mounts |-> m, disks |-> {}, nvme |-> None] : m \in MCMounts}
             \cup {[mounts |-> <<>>, disks |-> {MCDisk("a", s), MCDisk("b", None)}, nvme |-> t] :
                     s \in MCSmart, t \in {None, 76}}

MCRow(w, i, u, t, r) == [whole |-> w, identified |-> i, utilisation |-> u, clock |-> 900,
                         temperature |-> t, throttle |-> r]
MCRows == {MCRow(w, i, None, 88, {}) : w \in BOOLEAN, i \in BOOLEAN}
          \cup {MCRow(TRUE, TRUE, u, t, r) : u \in {None, 10}, t \in {None, 88},
                  r \in {{}, {"GPU idle"}, {"GPU idle", "power cap"}}}
MCCards == [hwmon : BOOLEAN, utilisation : {None, 20}, clock : {None, 900}, temperature : {None, 88}]
MCCard == [hwmon |-> TRUE, utilisation |-> 5, clock |-> 300, temperature |-> 50]
MCHeat(l, t) == [label |-> l, value |-> t]
MCAdapters(n, a, i, c, r) == [nvidia |-> n, amd |-> a, intel |-> i, chip |-> c, raised |-> r]
MCGpu == {MCAdapters(n, <<>>, i, <<>>, {}) : n \in {None, <<>>}, i \in {<<>>, <<None, 300>>}}
         \cup {MCAdapters(<<x>>, <<MCCard>>, i, <<>>, {}) : x \in MCRows, i \in {<<>>, <<300>>}}
         \cup {MCAdapters(<<MCRow(TRUE, TRUE, 5, 50, {}), x>>, <<>>, <<>>, <<>>, {}) : x \in MCRows}
         \cup {MCAdapters(None, <<x>>, i, <<>>, {}) : x \in MCCards, i \in {<<>>, <<300>>}}
         \cup {MCAdapters(None, <<>>, <<k>>, c, {}) : k \in {None, 300},
                 c \in {<<MCHeat("other", 88)>>, <<MCHeat("core", 50), MCHeat("package", 88)>>}}
         \cup {MCAdapters(<<MCRow(TRUE, TRUE, None, 88, {})>>, <<[MCCard EXCEPT !.temperature = 88]>>,
                           <<None>>, <<MCHeat("package", 88)>>, r) :
                 r \in SUBSET {"nvidia", "amd", "intel"}}

MCSensor == [kind : {"temperature"}, value : {None, 72, 80, 95}, high : {None, 80},
             critical : {None, 0, 90}]
            \cup {[kind |-> k, value |-> v, high |-> None, critical |-> None] :
                    k \in {"fan", "voltage"}, v \in {None, 900}}
MCSensors == {{}} \cup {{s} : s \in MCSensor}
             \cup {{s, [kind |-> "temperature", value |-> v, high |-> 100, critical |-> 105]} :
                     s \in MCSensor, v \in {84, 92, 106}}

MCBattery == {[found |-> FALSE]}
             \cup [found : {TRUE}, status : {None, "charging", "discharging"},
                   capacity : {None, 11, 14, 50}, energyNow : {5}, energyFull : {50},
                   energyDesign : {60}, chargeNow : {None}, chargeFull : {None},
                   chargeDesign : {None}, voltage : {None}, psutil : {None}]
             \cup [found : {TRUE}, status : {"discharging"}, capacity : {None}, energyNow : {None},
                   energyFull : {None, 50}, energyDesign : {None, 60, 100}, chargeNow : {2},
                   chargeFull : {None, 40}, chargeDesign : {50}, voltage : {None, 12},
                   psutil : {None}]

MCInterface == [name : {"lo", "eth"}, type : {1}, wireless : {FALSE}, bridge : BOOLEAN,
                up : BOOLEAN, ipv4 : BOOLEAN, errors : {0, 900}]
MCNetwork == {{}} \cup {{i} : i \in MCInterface}
             \cup {{i, [name |-> n, type |-> 772, wireless |-> FALSE, bridge |-> FALSE,
                        up |-> TRUE, ipv4 |-> TRUE, errors |-> 200]} :
                     i \in MCInterface, n \in {"veth", "eth"}}

MCServices == {[systemd |-> s, units |-> u, answered |-> a] :
                 s \in BOOLEAN, u \in UNION {[1..k -> {"active", "failed"}] : k \in {0, 1, 3}},
                 a \in SUBSET {0, 1}}

MCRaw == [cpu |-> MCCpu, memory |-> MCMemory, storage |-> MCStorage, gpu |-> MCGpu,
          sensors |-> MCSensors, battery |-> MCBattery, network |-> MCNetwork,
          services |-> MCServices, processes |-> {0, 9, 10, 11}]

MCAbsences == {{"no hardware"}, {"no hardware", "no tool"}}
=============================================================================
