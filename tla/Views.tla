-------------------------------- MODULE Views ---------------------------------
(***************************************************************************)
(* What the user is shown of the snapshots: the bodies of the pages        *)
(* (Panels) and the verdicts of a diagnostics run (Diagnostics).  Both are *)
(* fed by the main window and share nothing beyond it.  A behaviour        *)
(* explores one of the two, chosen at the start; the other one rests in    *)
(* one of its initial states.                                              *)
(***************************************************************************)
EXTENDS Panels, Diagnostics

VARIABLE looked   \* which of the two is explored

viewsVars == <<looked, panelsVars, diagnosticsVars>>

ViewsInit ==
  /\ looked \in {"pages", "verdicts"}
  /\ PanelsInit
  /\ DiagnosticsInit
  /\ looked # "pages" => body = CHOOSE k \in Kinds : TRUE
  /\ looked # "verdicts" => missing = CHOOSE m \in Absences : TRUE

ViewsNext ==
  /\ UNCHANGED looked
  /\ \/ looked = "pages" /\ PanelsNext /\ UNCHANGED diagnosticsVars
     \/ looked = "verdicts" /\ DiagnosticsNext /\ UNCHANGED panelsVars

ViewsSpec == ViewsInit /\ [][ViewsNext]_viewsVars
=============================================================================
