------------------------------- MODULE WebParts -------------------------------
(***************************************************************************)
(* The parts of the catalog page, which share no state with each other,    *)
(* side by side: the page with its loads, the counts that its lines show,  *)
(* and its table.  A behaviour is one of a single part, the others stay as *)
(* they begin.                                                             *)
(***************************************************************************)
EXTENDS WebCatalog, CatalogCounts, CatalogTable

VARIABLE part

Parts == {"catalog", "counts", "table"}
partsVars == <<part, webVars, countVars, tableVars>>

PartsInit == part \in Parts /\ Init /\ CountInit /\ TableInit

InCatalog == part = "catalog" /\ Next /\ UNCHANGED <<part, countVars, tableVars>>
InCounts == part = "counts" /\ CountNext /\ UNCHANGED <<part, webVars, tableVars>>
InTable == part = "table" /\ TableNext /\ UNCHANGED <<part, webVars, countVars>>

PartsNext == InCatalog \/ InCounts \/ InTable

\* The catalog's fairness asks nothing of the other parts: its tab is away and
\* its loads are free there.
PartsSpec == PartsInit /\ [][PartsNext]_partsVars /\ Fairness
=============================================================================
