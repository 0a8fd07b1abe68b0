---------------------------- MODULE ApiDataCache ----------------------------
(***************************************************************************)
(* get_or_load of api/google_data_cache.py, for one key (keys share only   *)
(* the lock): a TTL cache in front of a Google call, with one load at a    *)
(* time.  A call reads the clock, then looks under the lock; it answers    *)
(* from the cache, becomes the loader, or waits for the Event of the call  *)
(* that loads and looks again.                                             *)
(***************************************************************************)
EXTENDS Integers

CONSTANTS
  Callers,   \* calls of get_or_load for the key
  NoCaller,
  NotCached,
  Ttl,       \* ttl_seconds, in ticks of the clock
  MaxStall,  \* bound: ticks between reading the clock and holding the lock
  MaxClockTime  \* bound: ticks of the clock

ASSUME CallerAssumption == NoCaller \notin Callers
ASSUME EntryAssumption == NotCached \notin [fetched : Nat, expires : Nat]
ASSUME TimeAssumption == Ttl \in Nat /\ MaxStall \in Nat /\ MaxClockTime \in Nat

VARIABLES
  clock,    \* time.monotonic()
  entry,    \* _CACHE[key]; the value is known by when its load began
  loading,  \* _LOADING[key]: whose Event is there
  signals,  \* callers whose Event is set
  caller,   \* caller[c]: where the call is, and its locals
  storedAt  \* history: when the last stored value was looked for, -1 before

callVars == <<clock, entry, loading, signals, caller, storedAt>>

CacheEntries == [fetched : Nat, expires : Nat]
CallSteps == {"new", "look", "wait", "load", "loaded", "failed", "signal", "hit", "returned", "raised"}

\* now: the clock as it was read; on: whose Event is awaited; began: when its own
\* load began; age: how old the cached value it returned was.
Calls == [at : CallSteps, now : Nat, on : Callers \cup {NoCaller}, began : Nat, age : Int, ok : BOOLEAN]

CallTypeOK ==
  /\ clock \in 0..MaxClockTime
  /\ entry \in CacheEntries \cup {NotCached}
  /\ loading \in Callers \cup {NoCaller}
  /\ signals \subseteq Callers
  /\ caller \in [Callers -> Calls]
  /\ storedAt \in Int

CallInit ==
  /\ clock = 0 /\ entry = NotCached /\ loading = NoCaller /\ signals = {} /\ storedAt = -1
  /\ caller = [c \in Callers |-> [at |-> "new", now |-> 0, on |-> NoCaller,
                                  began |-> 0, age |-> 0, ok |-> FALSE]]

Tick ==
  /\ clock < MaxClockTime
  /\ \A c \in Callers : caller[c].at = "look" => clock < caller[c].now + MaxStall
  /\ clock' = clock + 1
  /\ UNCHANGED <<entry, loading, signals, caller, storedAt>>

ReadClock(c) ==
  /\ \/ caller[c].at = "new"
     \/ caller[c].at = "wait" /\ caller[c].on \in signals
  /\ caller' = [caller EXCEPT ![c] =
       [@ EXCEPT !.at = "look", !.now = clock, !.on = NoCaller]]
  /\ UNCHANGED <<clock, entry, loading, signals, storedAt>>

IsFresh(c) == entry # NotCached /\ entry.expires > caller[c].now

Hit(c) ==
  /\ caller[c].at = "look" /\ IsFresh(c)
  /\ caller' = [caller EXCEPT ![c] = [@ EXCEPT !.at = "hit", !.age = clock - entry.fetched]]
  /\ UNCHANGED <<clock, entry, loading, signals, storedAt>>

Wait(c) ==
  /\ caller[c].at = "look" /\ ~IsFresh(c) /\ loading # NoCaller
  /\ entry' = NotCached
  /\ caller' = [caller EXCEPT ![c] = [@ EXCEPT !.at = "wait", !.on = loading]]
  /\ UNCHANGED <<clock, loading, signals, storedAt>>

\* Mutation: nobody is told that this call loads.
BeginUnannounced(c) ==
  /\ caller[c].at = "look" /\ ~IsFresh(c) /\ loading = NoCaller
  /\ entry' = NotCached
  /\ caller' = [caller EXCEPT ![c] = [@ EXCEPT !.at = "load", !.began = clock]]
  /\ UNCHANGED <<clock, loading, signals, storedAt>>

Begin(c) ==
  /\ caller[c].at = "look" /\ ~IsFresh(c) /\ loading = NoCaller
  /\ entry' = NotCached
  /\ loading' = c
  /\ caller' = [caller EXCEPT ![c] = [@ EXCEPT !.at = "load", !.began = clock]]
  /\ UNCHANGED <<clock, signals, storedAt>>

\* Mutation: the lifetime starts when the load ends.
ExpiresLate(c) == clock + Ttl
ExpiresAt(c) == caller[c].now + Ttl

LoadReturns(c) ==
  /\ caller[c].at = "load"
  /\ entry' = [fetched |-> caller[c].began, expires |-> ExpiresAt(c)]
  /\ storedAt' = caller[c].now
  /\ caller' = [caller EXCEPT ![c] = [@ EXCEPT !.at = "loaded", !.ok = TRUE]]
  /\ UNCHANGED <<clock, loading, signals>>

LoadRaises(c) ==
  /\ caller[c].at = "load"
  /\ caller' = [caller EXCEPT ![c].at = "failed"]
  /\ UNCHANGED <<clock, entry, loading, signals, storedAt>>

\* finally: del _LOADING[key], whatever the load did ...
Release(c) ==
  /\ caller[c].at \in {"loaded", "failed"}
  /\ loading' = NoCaller
  /\ caller' = [caller EXCEPT ![c].at = "signal"]
  /\ UNCHANGED <<clock, entry, signals, storedAt>>

\* Mutation: a failed load wakes nobody.
SignalSuccess(c) ==
  /\ caller[c].at = "signal"
  /\ signals' = IF caller[c].ok THEN signals \cup {c} ELSE signals
  /\ caller' = [caller EXCEPT ![c].at = IF caller[c].ok THEN "returned" ELSE "raised"]
  /\ UNCHANGED <<clock, entry, loading, storedAt>>

\* ... and, outside of the lock, loading.set().
Signal(c) ==
  /\ caller[c].at = "signal"
  /\ signals' = signals \cup {c}
  /\ caller' = [caller EXCEPT ![c].at = IF caller[c].ok THEN "returned" ELSE "raised"]
  /\ UNCHANGED <<clock, entry, loading, storedAt>>

CallStep(c) ==
  \/ ReadClock(c) \/ Hit(c) \/ Wait(c) \/ Begin(c)
  \/ LoadReturns(c) \/ LoadRaises(c) \/ Release(c) \/ Signal(c)

CallNext == Tick \/ \E c \in Callers : CallStep(c)

CallSpec == CallInit /\ [][CallNext]_callVars

\* Threads run, and a Google call returns or raises (its socket times out).
FairCallSpec == CallSpec /\ \A c \in Callers : WF_callVars(CallStep(c))

-----------------------------------------------------------------------------
(* Properties.                                                              *)

\* However calls race, one of them at a time is on its way to Google and back,
\* and it is the one the others find in _LOADING.
OneLoadAtATime ==
  \A c \in Callers : caller[c].at \in {"load", "loaded", "failed"} => loading = c

\* A cached answer is never older than its lifetime: the load began less than
\* Ttl before, up to the stall between the clock and the lock.  The lifetime
\* runs from before the load, so a slow load does not lengthen it.
HitsAreFresh == \A c \in Callers : caller[c].at = "hit" => caller[c].age < Ttl + MaxStall

\* Google is not called again while a stored value lives: a caller that waited,
\* or that was late for the lock, still finds it.
NoNeedlessLoad ==
  [][\A c \in Callers :
       caller[c].at # "load" /\ caller'[c].at = "load" /\ storedAt >= 0 => clock >= storedAt + Ttl]_callVars

\* Nobody waits for an Event that is never set: every call ends.
EveryCallEnds == \A c \in Callers : <>(caller[c].at \in {"hit", "returned", "raised"})
=============================================================================
