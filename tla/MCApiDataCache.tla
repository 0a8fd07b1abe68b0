--------------------------- MODULE MCApiDataCache ---------------------------
(* ApiDataCache for TLC: its constants are all given in the configuration.    *)
EXTENDS ApiDataCache
=============================================================================
