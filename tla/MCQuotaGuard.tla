---------------------------- MODULE MCQuotaGuard ----------------------------
(* QuotaGuard for TLC: forms and threads are interchangeable.                *)
EXTENDS QuotaGuard, TLC

MCSymmetry == Permutations(Forms) \cup Permutations(Threads)
=============================================================================
