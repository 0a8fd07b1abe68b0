---------------------------- MODULE MCWebSession ----------------------------
(* WebSession for TLC: where nothing has to happen in the end, tabs, sessions,*)
(* tickets and threads of the API are interchangeable.                       *)
EXTENDS WebSession, TLC

MCSymmetry ==
  Permutations(Tabs) \cup Permutations(SessionIds) \cup Permutations(Tickets) \cup Permutations(Calls)
=============================================================================
