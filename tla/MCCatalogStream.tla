--------------------------- MODULE MCCatalogStream ---------------------------
(* CatalogStream for TLC: two forms.                                         *)
EXTENDS CatalogStream

CONSTANTS f1, f2
MCForms == {f1, f2}
MCFormOrder == <<f1, f2>>
=============================================================================
