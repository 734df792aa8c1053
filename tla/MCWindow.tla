------------------------------ MODULE MCWindow ------------------------------
(* Four pages: the dashboard, one with a collector of its own, the services   *)
(* page, and one without live data.                                           *)
EXTENDS Window, TLC

CONSTANTS dash, cpu, services, alerts, m1

MCPages == {dash, cpu, services, alerts}
MCDomains == {"cpu", "services"}
MCDomainsOf ==
  (dash :> {"cpu", "services"}) @@ (cpu :> {"cpu"}) @@ (services :> {"services"}) @@ (alerts :> {})
MCSuspends == [p \in MCPages |-> IF p = services THEN {"services"} ELSE {}]
MCRefreshing == {cpu, services}
MCMessages == {m1}
=============================================================================
