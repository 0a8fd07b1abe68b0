------------------------------ MODULE MCWebParts ------------------------------
EXTENDS WebParts, TLC

CONSTANTS f1, f2, f3

MCListing == 0 :> {f1} @@ 1 :> {f2}
MCOrder == <<f1, f2, f3>>
=============================================================================
