---------------------------- MODULE MCApiDocuments ----------------------------
(* ApiDocuments for TLC: callers without a quota document, at their limit and *)
(* below it; identity, and one scope that a user may untick.                  *)
EXTENDS ApiDocuments

MCQuotas == {NoQuota, [limit |-> 1, used |-> 1], [limit |-> 1, used |-> 0]}
MCScopes == {"identity", "forms"}
MCIdentity == {"identity"}
=============================================================================
