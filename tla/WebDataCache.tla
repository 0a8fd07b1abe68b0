----------------------------- MODULE WebDataCache -----------------------------
(***************************************************************************)
(* The web process's cache of API answers (ui/data_access_cache.py) for    *)
(* one key, as the pages use it (ui/google_data.py): tabs of one session   *)
(* that read it in their script runs, and clear it on logout or with the   *)
(* refresh button.  Unlike the API's cache nothing is announced: two       *)
(* readers that both miss both load.  A call reads the clock first; the    *)
(* lock is held for the look, for the store and for the clear only.        *)
(***************************************************************************)
EXTENDS Integers

CONSTANTS
  Readers,   \* script runs that call get_or_load
  Lifetime,  \* ttl_seconds, in ticks
  Stall,     \* bound: ticks between reading the clock and holding the lock
  MaxClock,  \* bound: ticks
  NoValue

ASSUME ReadersAssumption ==
  /\ Lifetime \in Nat /\ Stall \in Nat /\ MaxClock \in Nat
  /\ NoValue \notin [began : Nat, expires : Nat, cleared : BOOLEAN]

VARIABLES
  now,      \* time.monotonic()
  cached,   \* _CACHE[key]; the value is known by when its load began
  reader    \* reader[r]: where the call is, its locals, and its answer

cacheVars == <<now, cached, reader>>

\* cleared (history): the cache was cleared after the value had been stored;
\* in a reader, since its load began.
CachedValues == [began : Nat, expires : Nat, cleared : BOOLEAN]
ReaderStates == [
  at      : {"new", "look", "load", "store", "hit", "loaded"},
  read    : Nat,       \* now, as get_or_load has read it
  began   : Nat,       \* when the load began; of a hit, its value's
  cleared : BOOLEAN]

CacheTypeOK ==
  /\ now \in 0..MaxClock
  /\ cached \in CachedValues \cup {NoValue}
  /\ reader \in [Readers -> ReaderStates]

CacheInit ==
  /\ now = 0 /\ cached = NoValue
  /\ reader = [r \in Readers |-> [at |-> "new", read |-> 0, began |-> 0, cleared |-> FALSE]]

Pass ==
  /\ now < MaxClock
  /\ \A r \in Readers : reader[r].at = "look" => now < reader[r].read + Stall
  /\ now' = now + 1
  /\ UNCHANGED <<cached, reader>>

\* A run of the script calls get_or_load.
ReadNow(r) ==
  /\ reader[r].at \in {"new", "hit", "loaded"}
  /\ reader' = [reader EXCEPT ![r] = [at |-> "look", read |-> now, began |-> 0, cleared |-> FALSE]]
  /\ UNCHANGED <<now, cached>>

Unexpired(r) == cached # NoValue /\ cached.expires > reader[r].read

AnswerCached(r) ==
  /\ reader[r].at = "look" /\ Unexpired(r)
  /\ reader' = [reader EXCEPT ![r] = [@ EXCEPT !.at = "hit", !.began = cached.began,
                                               !.cleared = cached.cleared]]
  /\ UNCHANGED <<now, cached>>

\* An expired entry is dropped, and the loader is called.
BeginLoad(r) ==
  /\ reader[r].at = "look" /\ ~Unexpired(r)
  /\ cached' = NoValue
  /\ reader' = [reader EXCEPT ![r] = [@ EXCEPT !.at = "load", !.began = now]]
  /\ UNCHANGED now

\* The API answers; an answer that is too large is not stored, and an error is
\* raised to the page.
EndLoad(r, stores) ==
  /\ reader[r].at = "load"
  /\ reader' = [reader EXCEPT ![r].at = IF stores THEN "store" ELSE "loaded"]
  /\ UNCHANGED <<now, cached>>

\* Mutation: the lifetime starts when the answer is there.
ExpiryFromAnswer(r) == now + Lifetime

Expiry(r) == reader[r].read + Lifetime
Store(r) ==
  /\ reader[r].at = "store"
  /\ cached' = [began |-> reader[r].began, expires |-> Expiry(r), cleared |-> FALSE]
  /\ reader' = [reader EXCEPT ![r].at = "loaded"]
  /\ UNCHANGED now

\* Mutation: entries that have expired are the only ones that go.
KeptByClearFresh ==
  IF cached # NoValue /\ cached.expires > now THEN [cached EXCEPT !.cleared = TRUE] ELSE NoValue

\* clear_cache.
KeptByClear == NoValue
Clear ==
  /\ cached' = KeptByClear
  /\ reader' = [r \in Readers |-> IF reader[r].at \in {"load", "store"}
                                  THEN [reader[r] EXCEPT !.cleared = TRUE] ELSE reader[r]]
  /\ UNCHANGED now

Reader(r) ==
  \/ ReadNow(r) \/ AnswerCached(r) \/ BeginLoad(r) \/ Store(r)
  \/ \E stores \in BOOLEAN : EndLoad(r, stores)
CacheNext == Pass \/ Clear \/ \E r \in Readers : Reader(r)
CacheSpec == CacheInit /\ [][CacheNext]_cacheVars

-----------------------------------------------------------------------------
(* Properties.                                                              *)

\* What a page gets from the cache was asked of the API at most the lifetime
\* ago, up to the stall, although a slow load may store its value over one
\* that was loaded after it.  And what was stored before the cache was cleared
\* is not shown again; a load in flight then may still store its value.
PagesSeeFreshData ==
  [][\A r \in Readers : reader[r].at = "look" /\ reader'[r].at = "hit" =>
       /\ now - reader'[r].began <= Lifetime + Stall
       /\ ~reader'[r].cleared]_cacheVars
=============================================================================
