----------------------------- MODULE PagesProofs -----------------------------
(***************************************************************************)
(* Proofs about the parts of Pages that keep state, each for any values of *)
(* its constants: the cache of the web process, the report page and its    *)
(* caches, the callback of a sign-in, the settings of the weights; and     *)
(* about the parts of the API that the pages read Google through: its      *)
(* cache (ApiDataCache), and the grants that the callback stores           *)
(* (GoogleGrants).                                                         *)
(***************************************************************************)
EXTENDS ApiDataCache, WebDataCache, ReportPage, SignInCallback, WeightingSettings, GoogleGrants,
        SequenceTheorems, TLAPS

-----------------------------------------------------------------------------
(****************************************************************************)
(* The single-flight cache of the API (ApiDataCache), for any number of     *)
(* calls.  What the lock protects is tied to what each call read before it  *)
(* took it: a stored entry expires at most Ttl after its load began, and as *)
(* long as the last stored value could be alive it is still the entry.      *)
(****************************************************************************)

\* A call under the lock read the clock at most MaxStall ago.
ClockReadBefore ==
  \A c \in Callers :
    /\ caller[c].at = "look" => caller[c].now <= clock /\ clock <= caller[c].now + MaxStall
    /\ caller[c].at = "load" => caller[c].now <= caller[c].began

EntryExpires == entry # NotCached => entry.expires <= entry.fetched + Ttl

StoredStays ==
  storedAt >= 0 => clock >= storedAt + Ttl \/ (entry # NotCached /\ entry.expires = storedAt + Ttl)

FlightInv == CallTypeOK /\ OneLoadAtATime /\ ClockReadBefore /\ EntryExpires /\ StoredStays /\ HitsAreFresh

\* What a call that does not find a fresh entry knows.
LEMMA NotFresh ==
  ASSUME FlightInv, NEW c \in Callers, caller[c].at = "look", ~IsFresh(c)
  PROVE  storedAt >= 0 => clock >= storedAt + Ttl
<1>1. /\ caller[c].now \in Nat /\ caller[c].now <= clock /\ clock \in Nat /\ storedAt \in Int
      /\ entry # NotCached => entry.expires \in Nat
  BY DEF FlightInv, CallTypeOK, Calls, CacheEntries, ClockReadBefore
<1>2. entry # NotCached => ~(entry.expires > caller[c].now)
  BY DEF IsFresh
<1>. QED
  BY <1>1, <1>2, TimeAssumption DEF FlightInv, StoredStays

\* The updates of a call's locals keep their types.
LEMMA CallUpdates ==
  ASSUME NEW r \in Calls, NEW n \in Nat, NEW a \in Int, NEW d \in Callers \cup {NoCaller}
  PROVE  /\ [r EXCEPT !.at = "look", !.now = n, !.on = NoCaller] \in Calls
         /\ [r EXCEPT !.at = "hit", !.age = a] \in Calls
         /\ [r EXCEPT !.at = "wait", !.on = d] \in Calls
         /\ [r EXCEPT !.at = "load", !.began = n] \in Calls
         /\ [r EXCEPT !.at = "loaded", !.ok = TRUE] \in Calls
BY DEF Calls, CallSteps

LEMMA InitFlightInv == CallInit => FlightInv
<1>. SUFFICES ASSUME CallInit PROVE FlightInv
  OBVIOUS
<1>1. CallTypeOK
  BY TimeAssumption DEF CallInit, CallTypeOK, Calls, CallSteps
<1>2. OneLoadAtATime /\ ClockReadBefore /\ EntryExpires /\ StoredStays /\ HitsAreFresh
  BY DEF CallInit, OneLoadAtATime, ClockReadBefore, EntryExpires, StoredStays, HitsAreFresh
<1>. QED
  BY <1>1, <1>2 DEF FlightInv

\* Every step keeps the invariant: first the parts about entries and time, for
\* a step of one call, then the whole.
LEMMA CallStepKeeps ==
  ASSUME FlightInv, NEW c \in Callers, CallStep(c)
  PROVE  FlightInv'
<1>0. /\ caller[c] \in Calls /\ caller[c].now \in Nat /\ caller[c].began \in Nat
      /\ clock \in Nat /\ loading \in Callers \cup {NoCaller}
      /\ entry # NotCached => entry.fetched \in Nat
  BY DEF FlightInv, CallTypeOK, CacheEntries, Calls
<1>. USE DEF FlightInv, CallTypeOK, CacheEntries
<1>1. CASE ReadClock(c)
  <2>1. CallTypeOK'
    <3>1. [caller[c] EXCEPT !.at = "look", !.now = clock, !.on = NoCaller] \in Calls
      BY <1>0, CallUpdates
    <3>. QED
      BY <1>1, <3>1 DEF ReadClock
  <2>2. OneLoadAtATime' /\ HitsAreFresh' /\ EntryExpires' /\ StoredStays'
    BY <1>1 DEF ReadClock, OneLoadAtATime, HitsAreFresh, EntryExpires, StoredStays
  <2>3. ClockReadBefore'
    BY <1>1, TimeAssumption DEF ReadClock, ClockReadBefore
  <2>. QED
    BY <2>1, <2>2, <2>3
<1>2. CASE Hit(c)
  <2>1. CallTypeOK'
    <3>1. [caller[c] EXCEPT !.at = "hit", !.age = clock - entry.fetched] \in Calls
      <4>1. clock - entry.fetched \in Int
        BY <1>0, <1>2 DEF Hit, IsFresh
      <4>. QED
        BY <1>0, <4>1, CallUpdates
    <3>. QED
      BY <1>2, <3>1 DEF Hit
  <2>2. OneLoadAtATime' /\ EntryExpires' /\ StoredStays' /\ ClockReadBefore'
    BY <1>2 DEF Hit, OneLoadAtATime, EntryExpires, StoredStays, ClockReadBefore
  <2>3. clock - entry.fetched < Ttl + MaxStall
    <3>1. /\ entry \in CacheEntries /\ entry.expires > caller[c].now
          /\ entry.expires <= entry.fetched + Ttl /\ clock <= caller[c].now + MaxStall
      BY <1>2 DEF Hit, IsFresh, EntryExpires, ClockReadBefore
    <3>. QED
      BY <1>0, <3>1, TimeAssumption
  <2>4. HitsAreFresh'
    BY <1>2, <2>3 DEF Hit, HitsAreFresh
  <2>. QED
    BY <2>1, <2>2, <2>4
<1>3. CASE Wait(c)
  <2>1. CallTypeOK'
    <3>1. [caller[c] EXCEPT !.at = "wait", !.on = loading] \in Calls
      BY <1>0, CallUpdates
    <3>. QED
      BY <1>3, <3>1 DEF Wait
  <2>2. OneLoadAtATime' /\ EntryExpires' /\ ClockReadBefore' /\ HitsAreFresh'
    BY <1>3 DEF Wait, OneLoadAtATime, EntryExpires, ClockReadBefore, HitsAreFresh
  <2>3. StoredStays'
    BY <1>3, NotFresh DEF Wait, StoredStays
  <2>. QED
    BY <2>1, <2>2, <2>3
<1>4. CASE Begin(c)
  <2>1. CallTypeOK'
    <3>1. [caller[c] EXCEPT !.at = "load", !.began = clock] \in Calls
      BY <1>0, CallUpdates
    <3>. QED
      BY <1>4, <3>1 DEF Begin
  <2>2. OneLoadAtATime'
    BY <1>4, CallerAssumption DEF Begin, OneLoadAtATime
  <2>3. EntryExpires' /\ ClockReadBefore' /\ HitsAreFresh'
    BY <1>4 DEF Begin, EntryExpires, ClockReadBefore, HitsAreFresh
  <2>4. StoredStays'
    BY <1>4, NotFresh DEF Begin, StoredStays
  <2>. QED
    BY <2>1, <2>2, <2>3, <2>4
<1>5. CASE LoadReturns(c)
  <2>. DEFINE new == [fetched |-> caller[c].began, expires |-> caller[c].now + Ttl]
  <2>1. /\ entry' = new /\ storedAt' = caller[c].now /\ clock' = clock
        /\ caller' = [caller EXCEPT ![c] = [caller[c] EXCEPT !.at = "loaded", !.ok = TRUE]]
        /\ loading' = loading /\ signals' = signals /\ caller[c].at = "load"
    BY <1>5 DEF LoadReturns, ExpiresAt
  <2>2. caller[c].now \in Nat /\ caller[c].began \in Nat /\ caller[c].now <= caller[c].began
    BY <1>0, <2>1 DEF ClockReadBefore
  <2>3. new \in CacheEntries /\ new # NotCached
    BY <2>2, TimeAssumption, EntryAssumption
  <2>4. CallTypeOK'
    <3>1. [caller[c] EXCEPT !.at = "loaded", !.ok = TRUE] \in Calls
      BY <1>0, CallUpdates
    <3>2. caller' \in [Callers -> Calls]
      BY <2>1, <3>1
    <3>3. storedAt' \in Int /\ entry' \in CacheEntries
      BY <2>1, <2>2, <2>3
    <3>. QED
      BY <2>1, <3>2, <3>3
  <2>5. OneLoadAtATime' /\ ClockReadBefore' /\ HitsAreFresh'
    BY <2>1 DEF OneLoadAtATime, ClockReadBefore, HitsAreFresh
  <2>6. EntryExpires' /\ StoredStays'
    BY <2>1, <2>2, <2>3, TimeAssumption DEF EntryExpires, StoredStays
  <2>. QED
    BY <2>4, <2>5, <2>6
<1>6. CASE LoadRaises(c)
  <2>1. CallTypeOK'
    BY <1>6 DEF LoadRaises, Calls, CallSteps
  <2>2. OneLoadAtATime' /\ EntryExpires' /\ StoredStays' /\ ClockReadBefore' /\ HitsAreFresh'
    BY <1>6 DEF LoadRaises, OneLoadAtATime, EntryExpires, StoredStays, ClockReadBefore, HitsAreFresh
  <2>. QED
    BY <2>1, <2>2
<1>7. CASE Release(c)
  <2>1. CallTypeOK'
    BY <1>7 DEF Release, Calls, CallSteps
  <2>2. OneLoadAtATime'
    BY <1>7 DEF Release, OneLoadAtATime
  <2>3. EntryExpires' /\ StoredStays' /\ ClockReadBefore' /\ HitsAreFresh'
    BY <1>7 DEF Release, EntryExpires, StoredStays, ClockReadBefore, HitsAreFresh
  <2>. QED
    BY <2>1, <2>2, <2>3
<1>8. CASE Signal(c)
  <2>1. CallTypeOK'
    BY <1>8 DEF Signal, Calls, CallSteps
  <2>2. OneLoadAtATime' /\ EntryExpires' /\ StoredStays' /\ ClockReadBefore' /\ HitsAreFresh'
    BY <1>8 DEF Signal, OneLoadAtATime, EntryExpires, StoredStays, ClockReadBefore, HitsAreFresh
  <2>. QED
    BY <2>1, <2>2
<1>. QED
  BY <1>1, <1>2, <1>3, <1>4, <1>5, <1>6, <1>7, <1>8 DEF CallStep

LEMMA TickKeeps ==
  ASSUME FlightInv, Tick
  PROVE  FlightInv'
<1>1. CallTypeOK'
  BY TimeAssumption DEF FlightInv, CallTypeOK, Tick
<1>2. OneLoadAtATime' /\ EntryExpires' /\ HitsAreFresh'
  BY DEF FlightInv, Tick, OneLoadAtATime, EntryExpires, HitsAreFresh
<1>3. ClockReadBefore'
  BY TimeAssumption DEF FlightInv, CallTypeOK, Calls, Tick, ClockReadBefore
<1>4. StoredStays'
  BY TimeAssumption DEF FlightInv, CallTypeOK, Tick, StoredStays
<1>. QED
  BY <1>1, <1>2, <1>3, <1>4 DEF FlightInv

\* The invariant holds in every reachable state of the cache.
THEOREM FlightInvariance == CallSpec => []FlightInv
<1>1. FlightInv /\ [CallNext]_callVars => FlightInv'
  <2>. SUFFICES ASSUME FlightInv, [CallNext]_callVars PROVE FlightInv'
    OBVIOUS
  <2>1. CASE UNCHANGED callVars
    BY <2>1 DEF callVars, FlightInv, CallTypeOK, OneLoadAtATime, ClockReadBefore, EntryExpires,
                StoredStays, HitsAreFresh
  <2>. QED
    BY <2>1, TickKeeps, CallStepKeeps DEF CallNext
<1>. QED
  BY <1>1, InitFlightInv, PTL DEF CallSpec

\* Every variable keeps its type.
THEOREM CallTypeCorrect == CallSpec => []CallTypeOK
BY FlightInvariance, PTL DEF FlightInv

\* However many calls race for a key, at most one of them is loading it.
THEOREM SingleFlight == CallSpec => []OneLoadAtATime
BY FlightInvariance, PTL DEF FlightInv

\* No cached answer is older than its lifetime and the stall before the lock.
THEOREM Freshness == CallSpec => []HitsAreFresh
BY FlightInvariance, PTL DEF FlightInv

\* No call asks Google for what was stored less than a lifetime ago.
THEOREM LoadsAreNeeded == CallSpec => NoNeedlessLoad
<1>1. FlightInv /\ [CallNext]_callVars =>
        [\A c \in Callers :
           caller[c].at # "load" /\ caller'[c].at = "load" /\ storedAt >= 0
             => clock >= storedAt + Ttl]_callVars
  <2>. SUFFICES ASSUME FlightInv, CallNext, NEW c \in Callers,
                       caller[c].at # "load", caller'[c].at = "load", storedAt >= 0
                PROVE  clock >= storedAt + Ttl
    BY DEF callVars
  <2>1. Begin(c)
    <3>1. PICK d \in Callers : CallStep(d)
      BY DEF CallNext, Tick
    <3>2. caller[d] \in Calls /\ caller[c] \in Calls /\ caller \in [Callers -> Calls]
      BY DEF FlightInv, CallTypeOK
    <3>3. c = d
      <4>. SUFFICES ASSUME c # d PROVE caller'[c] = caller[c]
        OBVIOUS
      <4>1. ReadClock(d) \/ Hit(d) \/ Wait(d) \/ Begin(d) => caller'[c] = caller[c]
        BY <3>2 DEF ReadClock, Hit, Wait, Begin
      <4>2. LoadReturns(d) \/ LoadRaises(d) \/ Release(d) \/ Signal(d) => caller'[c] = caller[c]
        BY <3>2 DEF LoadReturns, LoadRaises, Release, Signal
      <4>. QED
        BY <3>1, <4>1, <4>2 DEF CallStep
    <3>4. ReadClock(c) \/ Hit(c) \/ Wait(c) => caller'[c].at # "load"
      BY <3>2 DEF ReadClock, Hit, Wait, Calls
    <3>5. LoadReturns(c) \/ LoadRaises(c) => caller'[c].at # "load"
      BY <3>2 DEF LoadReturns, LoadRaises, Calls
    <3>6. Release(c) \/ Signal(c) => caller'[c].at # "load"
      BY <3>2 DEF Release, Signal, Calls
    <3>. QED
      BY <3>1, <3>3, <3>4, <3>5, <3>6 DEF CallStep
  <2>. QED
    BY <2>1, NotFresh DEF Begin
<1>. QED
  BY <1>1, FlightInvariance, PTL DEF CallSpec, NoNeedlessLoad

-----------------------------------------------------------------------------
(****************************************************************************)
(* The cache of the web process (WebDataCache), for any number of script    *)
(* runs and any life of an entry.  A script run may hold the time it has    *)
(* read for long: an entry is good because its life is counted from a time  *)
(* before its load, and because a reader compares it with a time that is at *)
(* most the stall behind the clock.                                         *)
(****************************************************************************)

\* The life of what is cached ends no later than a lifetime after its load
\* began, and it was not there when the cache was cleared.
CachedIsGood ==
  cached # NoValue => cached.expires <= cached.began + Lifetime /\ ~cached.cleared

\* A reader that looks has read the clock at most the stall ago.
LooksInTime ==
  \A r \in Readers : reader[r].at = "look" =>
    reader[r].read <= now /\ now <= reader[r].read + Stall

\* A load begins after its reader has read the clock.
LoadsAfterRead ==
  \A r \in Readers : reader[r].at \in {"load", "store"} => reader[r].read <= reader[r].began

CacheInv ==
  /\ CacheTypeOK
  /\ CachedIsGood
  /\ LooksInTime
  /\ LoadsAfterRead

-----------------------------------------------------------------------------
LEMMA InitCacheInv == CacheInit => CacheInv
BY ReadersAssumption
DEF CacheInit, CacheInv, CacheTypeOK, CachedIsGood, LooksInTime, LoadsAfterRead, ReaderStates

\* The clock passes no reader that looks by more than the stall.
LEMMA PassKeeps == CacheInv /\ Pass => CacheInv'
<1>. SUFFICES ASSUME CacheInv, Pass PROVE CacheInv'
  OBVIOUS
<1>1. CacheTypeOK' /\ CachedIsGood' /\ LoadsAfterRead'
  BY ReadersAssumption DEF CacheInv, CacheTypeOK, CachedIsGood, LoadsAfterRead, Pass
<1>2. LooksInTime'
  BY ReadersAssumption DEF CacheInv, CacheTypeOK, ReaderStates, LooksInTime, Pass
<1>. QED
  BY <1>1, <1>2 DEF CacheInv

LEMMA ClearKeeps == CacheInv /\ Clear => CacheInv'
<1>. SUFFICES ASSUME CacheInv, Clear PROVE CacheInv'
  OBVIOUS
<1>1. ASSUME NEW r \in Readers
      PROVE  /\ reader'[r] \in ReaderStates
             /\ reader'[r].at = reader[r].at
             /\ reader'[r].read = reader[r].read
             /\ reader'[r].began = reader[r].began
  BY DEF CacheInv, CacheTypeOK, ReaderStates, Clear
<1>2. CacheTypeOK'
  BY <1>1 DEF CacheInv, CacheTypeOK, Clear, KeptByClear
<1>3. CachedIsGood'
  BY DEF CachedIsGood, Clear, KeptByClear
<1>4. LooksInTime' /\ LoadsAfterRead'
  BY <1>1 DEF CacheInv, LooksInTime, LoadsAfterRead, Clear
<1>. QED
  BY <1>2, <1>3, <1>4 DEF CacheInv

\* A step of one reader leaves the others alone; what is left to show of it is
\* what it makes of itself and of the cache.
LEMMA ReaderChanges ==
  ASSUME CacheInv, NEW r \in Readers, NEW next \in ReaderStates,
         reader' = [reader EXCEPT ![r] = next], UNCHANGED now,
         cached' \in CachedValues \cup {NoValue}, CachedIsGood',
         next.at = "look" => next.read <= now /\ now <= next.read + Stall,
         next.at \in {"load", "store"} => next.read <= next.began
  PROVE  CacheInv'
<1>1. CacheTypeOK'
  BY DEF CacheInv, CacheTypeOK
<1>2. ASSUME NEW s \in Readers
      PROVE  reader'[s] = IF s = r THEN next ELSE reader[s]
  BY DEF CacheInv, CacheTypeOK
<1>3. LooksInTime' /\ LoadsAfterRead'
  BY <1>2 DEF CacheInv, LooksInTime, LoadsAfterRead
<1>. QED
  BY <1>1, <1>3 DEF CacheInv

LEMMA ReaderKeeps ==
  ASSUME CacheInv, NEW r \in Readers, Reader(r)
  PROVE  CacheInv'
<1>. reader[r] \in ReaderStates /\ now \in Nat /\ cached \in CachedValues \cup {NoValue}
  BY ReadersAssumption DEF CacheInv, CacheTypeOK
<1>1. CASE ReadNow(r)
  <2>. DEFINE next == [at |-> "look", read |-> now, began |-> 0, cleared |-> FALSE]
  <2>1. next \in ReaderStates
    BY DEF ReaderStates
  <2>2. next.read <= now /\ now <= next.read + Stall
    BY ReadersAssumption
  <2>. QED
    BY <1>1, <2>1, <2>2, ReaderChanges DEF CacheInv, CachedIsGood, ReadNow
<1>2. CASE AnswerCached(r)
  <2>. DEFINE next == [reader[r] EXCEPT !.at = "hit", !.began = cached.began, !.cleared = cached.cleared]
  <2>1. next \in ReaderStates /\ next.at = "hit"
    BY <1>2 DEF AnswerCached, Unexpired, CachedValues, ReaderStates
  <2>2. reader' = [reader EXCEPT ![r] = next]
    BY <1>2 DEF AnswerCached, CacheInv, CacheTypeOK
  <2>. QED
    BY <1>2, <2>1, <2>2, ReaderChanges DEF CacheInv, CachedIsGood, AnswerCached
<1>3. CASE BeginLoad(r)
  <2>. DEFINE next == [reader[r] EXCEPT !.at = "load", !.began = now]
  <2>1. next \in ReaderStates /\ next.at = "load"
    BY DEF ReaderStates
  <2>2. next.read <= next.began
    BY <1>3 DEF BeginLoad, CacheInv, LooksInTime, ReaderStates
  <2>3. reader' = [reader EXCEPT ![r] = next]
    BY <1>3 DEF BeginLoad, CacheInv, CacheTypeOK
  <2>. QED
    BY <1>3, <2>1, <2>2, <2>3, ReaderChanges DEF CachedIsGood, BeginLoad
<1>4. ASSUME NEW stores \in BOOLEAN, EndLoad(r, stores) PROVE CacheInv'
  <2>. DEFINE next == [reader[r] EXCEPT !.at = IF stores THEN "store" ELSE "loaded"]
  <2>1. next \in ReaderStates /\ next.at \in {"store", "loaded"}
    BY DEF ReaderStates
  <2>2. next.read <= next.began
    BY <1>4 DEF EndLoad, CacheInv, LoadsAfterRead, ReaderStates
  <2>3. reader' = [reader EXCEPT ![r] = next]
    BY <1>4 DEF EndLoad, CacheInv, CacheTypeOK
  <2>. QED
    BY <1>4, <2>1, <2>2, <2>3, ReaderChanges DEF CacheInv, CachedIsGood, EndLoad
<1>5. CASE Store(r)
  <2>. DEFINE next == [reader[r] EXCEPT !.at = "loaded"]
  <2>1. next \in ReaderStates /\ next.at = "loaded"
    BY DEF ReaderStates
  <2>2. cached' \in CachedValues
    BY <1>5, ReadersAssumption DEF Store, Expiry, CachedValues, ReaderStates
  <2>3. CachedIsGood'
    BY <1>5, ReadersAssumption DEF Store, Expiry, CachedIsGood, CacheInv, LoadsAfterRead, ReaderStates
  <2>4. reader' = [reader EXCEPT ![r] = next]
    BY <1>5 DEF Store, CacheInv, CacheTypeOK
  <2>. QED
    BY <1>5, <2>1, <2>2, <2>3, <2>4, ReaderChanges DEF Store
<1>. QED
  BY <1>1, <1>2, <1>3, <1>4, <1>5 DEF Reader

LEMMA NextKeepsCacheInv == CacheInv /\ [CacheNext]_cacheVars => CacheInv'
<1>. SUFFICES ASSUME CacheInv, [CacheNext]_cacheVars PROVE CacheInv'
  OBVIOUS
<1>1. CASE UNCHANGED cacheVars
  BY <1>1 DEF CacheInv, CacheTypeOK, CachedIsGood, LooksInTime, LoadsAfterRead, cacheVars
<1>. QED
  BY <1>1, PassKeeps, ClearKeeps, ReaderKeeps DEF CacheNext

\* The inductive invariant.
THEOREM CacheInvariant == CacheSpec => []CacheInv
<1>. QED
  BY InitCacheInv, NextKeepsCacheInv, PTL DEF CacheSpec

\* The clock, the cached value and what each script run holds stay of their
\* types.
THEOREM CacheTypeCorrect == CacheSpec => []CacheTypeOK
<1>1. CacheInv => CacheTypeOK
  BY DEF CacheInv
<1>. QED
  BY <1>1, CacheInvariant, PTL

-----------------------------------------------------------------------------
(* What a page is shown.                                                    *)

\* A reader that has just found the value it answers with.
LEMMA HitIsFresh ==
  ASSUME CacheInv, NEW r \in Readers, AnswerCached(r)
  PROVE  now - reader'[r].began <= Lifetime + Stall /\ ~reader'[r].cleared
<1>1. /\ now \in Nat
      /\ reader[r].read \in Nat /\ now <= reader[r].read + Stall
  BY DEF CacheInv, CacheTypeOK, LooksInTime, AnswerCached, ReaderStates
<1>2. /\ cached.began \in Nat /\ cached.expires \in Nat
      /\ cached.expires > reader[r].read
      /\ cached.expires <= cached.began + Lifetime
      /\ ~cached.cleared
  BY DEF CacheInv, CacheTypeOK, CachedIsGood, AnswerCached, Unexpired, CachedValues
<1>3. reader'[r].began = cached.began /\ reader'[r].cleared = cached.cleared
  BY DEF AnswerCached, CacheInv, CacheTypeOK, ReaderStates
<1>. QED
  BY <1>1, <1>2, <1>3, ReadersAssumption

LEMMA OnlyFoundIsHit ==
  ASSUME CacheInv, CacheNext, NEW r \in Readers, reader[r].at = "look", reader'[r].at = "hit"
  PROVE  AnswerCached(r)
<1>1. CASE Pass
  BY <1>1 DEF Pass
<1>2. CASE Clear
  BY <1>2 DEF Clear, CacheInv, CacheTypeOK, ReaderStates
<1>3. ASSUME NEW s \in Readers, Reader(s), s # r PROVE FALSE
  BY <1>3 DEF Reader, ReadNow, AnswerCached, BeginLoad, EndLoad, Store, CacheInv, CacheTypeOK
<1>4. CASE Reader(r)
  <2>1. ~ReadNow(r) /\ ~Store(r) /\ \A stores \in BOOLEAN : ~EndLoad(r, stores)
    BY DEF ReadNow, Store, EndLoad
  <2>2. ~BeginLoad(r)
    BY DEF BeginLoad, CacheInv, CacheTypeOK, ReaderStates
  <2>. QED
    BY <1>4, <2>1, <2>2 DEF Reader
<1>. QED
  BY <1>1, <1>2, <1>3, <1>4 DEF CacheNext

\* A page is never shown a cached answer that was asked for longer ago than the
\* life of an entry and the stall, nor one that the cache held when it was
\* cleared: however slow the loads are, and in whatever order they end.
THEOREM PagesAreFresh == CacheSpec => PagesSeeFreshData
<1>1. CacheInv /\ [CacheNext]_cacheVars =>
        [\A r \in Readers : reader[r].at = "look" /\ reader'[r].at = "hit" =>
           /\ now - reader'[r].began <= Lifetime + Stall
           /\ ~reader'[r].cleared]_cacheVars
  BY HitIsFresh, OnlyFoundIsHit
<1>. QED
  BY <1>1, CacheInvariant, PTL DEF CacheSpec, PagesSeeFreshData

-----------------------------------------------------------------------------
(****************************************************************************)
(* The report page (ReportPage), for any lives of the caches.  The page's   *)
(* own cache is filled through the one of the answers, so an entry of it may*)
(* outlive its own life by nearly the life of the other, counted from when  *)
(* the API was asked; every other entry keeps to its own.                   *)
(****************************************************************************)

\* How long after the API was asked an entry of a cache may be there.
LongestKept(c) == IF c = "page" THEN Life["responses"] + Life["page"] - 1 ELSE Life[c]

\* An entry that a cache may hold now.
MayKeep(c, e) ==
  /\ e \in Entries
  /\ e.asked <= time
  /\ e.until <= e.asked + LongestKept(c)
  /\ c \in ClearedByRefresh => e.asked >= refreshed

KeptIsTimely == \A c \in Caches : kept[c] # NoEntry => MayKeep(c, kept[c])

ReportInv ==
  /\ ReportTypeOK
  /\ refreshed <= time
  /\ KeptIsTimely
  /\ NoneBeforeRefresh

LEMMA LivesArePositive == \A c \in Caches : Life[c] \in Nat /\ Life[c] >= 1
BY ReportPageAssumption

-----------------------------------------------------------------------------
(* The reads.                                                               *)

\* What a read gives may be kept, and was asked for within the life of its
\* cache; Page reads through Responses.
LEMMA ReadsAreTimely ==
  ASSUME ReportInv, NEW c \in Caches \ {"page"}
  PROVE  MayKeep(c, Read(c, time)) /\ time - Read(c, time).asked <= Life[c] - 1
<1>1. time \in Nat /\ refreshed \in Nat /\ refreshed <= time /\ Life[c] \in Nat /\ Life[c] >= 1
  BY LivesArePositive, ReportPageAssumption DEF ReportInv, ReportTypeOK
<1>2. CASE Served(c)
  <2>1. Read(c, time) = kept[c] /\ kept[c].until > time /\ MayKeep(c, kept[c])
    BY <1>2 DEF Read, Served, ReportInv, KeptIsTimely
  <2>2. kept[c].asked \in Nat /\ kept[c].until \in Nat /\ kept[c].until <= kept[c].asked + Life[c]
    BY <2>1 DEF MayKeep, Entries, LongestKept
  <2>. QED
    BY <1>1, <2>1, <2>2
<1>3. CASE ~Served(c)
  <2>1. Read(c, time) = [asked |-> time, until |-> time + Life[c]]
    BY <1>3 DEF Read
  <2>. QED
    BY <1>1, <2>1 DEF MayKeep, Entries, LongestKept
<1>. QED
  BY <1>2, <1>3

LEMMA PageIsTimely ==
  ASSUME ReportInv
  PROVE  MayKeep("page", Page) /\ time - Page.asked <= Life["responses"] + Life["page"] - 2
<1>. DEFINE L == Life["responses"]
            P == Life["page"]
<1>1. /\ time \in Nat /\ refreshed \in Nat
      /\ L \in Nat /\ L >= 1 /\ P \in Nat /\ P >= 1
  BY LivesArePositive, ReportPageAssumption DEF ReportInv, ReportTypeOK, Caches
<1>2. CASE Served("page")
  <2>1. Page = kept["page"] /\ kept["page"].until > time /\ MayKeep("page", kept["page"])
    BY <1>2 DEF Page, Read, Served, ReportInv, KeptIsTimely, Caches
  <2>2. /\ kept["page"].asked \in Nat /\ kept["page"].until \in Nat
        /\ kept["page"].until <= kept["page"].asked + (L + P - 1)
    BY <2>1 DEF MayKeep, Entries, LongestKept
  <2>. QED
    BY <1>1, <2>1, <2>2
<1>3. CASE ~Served("page")
  <2>1. MayKeep("responses", Responses) /\ time - Responses.asked <= L - 1
    BY ReadsAreTimely DEF Responses, Caches
  <2>2. Page = [asked |-> Responses.asked, until |-> time + P]
    BY <1>3 DEF Page, Read
  <2>3. /\ Responses.asked \in Nat /\ Responses.asked <= time
        /\ Responses.asked >= refreshed
    BY <2>1 DEF MayKeep, Entries, ClearedByRefresh
  <2>4. time + P <= Responses.asked + (L + P - 1)
    BY <1>1, <2>1, <2>3
  <2>. QED
    BY <1>1, <2>1, <2>2, <2>3, <2>4 DEF MayKeep, Entries, LongestKept
<1>. QED
  BY <1>2, <1>3

\* What a run of the page leaves in the caches.
LEMMA WithPageIsTimely ==
  ASSUME ReportInv
  PROVE  /\ WithPage \in [Caches -> Entries \cup {NoEntry}]
         /\ \A c \in Caches : WithPage[c] # NoEntry => MayKeep(c, WithPage[c])
<1>1. CASE Served("page")
  BY <1>1 DEF WithPage, ReportInv, ReportTypeOK, KeptIsTimely
<1>2. CASE ~Served("page")
  <2>1. MayKeep("responses", Responses) /\ MayKeep("page", Page)
    BY ReadsAreTimely, PageIsTimely DEF Responses, Caches
  <2>2. WithPage = [kept EXCEPT !["responses"] = Responses, !["page"] = Page]
    BY <1>2 DEF WithPage
  <2>3. kept \in [Caches -> Entries \cup {NoEntry}] /\ Responses \in Entries /\ Page \in Entries
    BY <2>1 DEF ReportInv, ReportTypeOK, MayKeep
  <2>4. WithPage \in [Caches -> Entries \cup {NoEntry}]
    BY <2>2, <2>3
  <2>5. \A c \in Caches : WithPage[c] = IF c = "page" THEN Page
                                        ELSE IF c = "responses" THEN Responses ELSE kept[c]
    BY <2>2, <2>3 DEF Caches
  <2>. QED
    BY <2>1, <2>4, <2>5 DEF ReportInv, KeptIsTimely
<1>. QED
  BY <1>1, <1>2

-----------------------------------------------------------------------------
(* The steps.                                                               *)

LEMMA InitReportInv == ReportInit => ReportInv
<1>. SUFFICES ASSUME ReportInit PROVE ReportInv
  OBVIOUS
<1>1. ReportTypeOK /\ refreshed <= time
  BY ReportPageAssumption DEF ReportInit, ReportTypeOK
<1>2. KeptIsTimely /\ NoneBeforeRefresh
  BY DEF ReportInit, KeptIsTimely, NoneBeforeRefresh
<1>. QED
  BY <1>1, <1>2 DEF ReportInv

LEMMA TimeKeeps == ReportInv /\ TimePasses => ReportInv'
<1>. SUFFICES ASSUME ReportInv, TimePasses PROVE ReportInv'
  OBVIOUS
<1>1. ReportTypeOK' /\ refreshed' <= time' /\ NoneBeforeRefresh'
  BY ReportPageAssumption DEF ReportInv, ReportTypeOK, NoneBeforeRefresh, TimePasses
<1>2. KeptIsTimely'
  <2>. SUFFICES ASSUME NEW c \in Caches, kept[c] # NoEntry
                PROVE  MayKeep(c, kept[c])'
    BY DEF KeptIsTimely, TimePasses
  <2>1. MayKeep(c, kept[c]) /\ time \in Nat /\ time' = time + 1
        /\ UNCHANGED <<kept, refreshed>>
    BY ReportPageAssumption DEF ReportInv, ReportTypeOK, KeptIsTimely, TimePasses
  <2>. QED
    BY <2>1 DEF MayKeep, Entries, LongestKept
<1>. QED
  BY <1>1, <1>2 DEF ReportInv

LEMMA DrawKeeps == ReportInv /\ Draw => ReportInv'
<1>. SUFFICES ASSUME ReportInv, Draw PROVE ReportInv'
  OBVIOUS
<1>1. ReportTypeOK' /\ KeptIsTimely'
  BY WithPageIsTimely DEF ReportInv, ReportTypeOK, KeptIsTimely, MayKeep, LongestKept, Draw
<1>. QED
  BY <1>1 DEF ReportInv, NoneBeforeRefresh, Draw

LEMMA RefreshKeeps == ReportInv /\ Refresh => ReportInv'
<1>. SUFFICES ASSUME ReportInv, Refresh PROVE ReportInv'
  OBVIOUS
<1>1. ReportTypeOK' /\ refreshed' <= time' /\ NoneBeforeRefresh'
  BY ReportPageAssumption DEF ReportInv, ReportTypeOK, NoneBeforeRefresh, Refresh
<1>2. KeptIsTimely'
  BY DEF ReportInv, ReportTypeOK, KeptIsTimely, MayKeep, LongestKept, Refresh
<1>. QED
  BY <1>1, <1>2 DEF ReportInv

\* When what a section of a new report shows was asked for.
AskedFor(s) ==
  CASE s = "answers" -> Page.asked
    [] s = "representativeness" -> Read("tables", time).asked
    [] s = "dynamics" -> Read("timestamps", time).asked

LEMMA SectionsAreFresh ==
  ASSUME ReportInv, NEW s \in ReportSections
  PROVE  /\ AskedFor(s) \in Nat
         /\ time - AskedFor(s) <= Oldest(s)
         /\ s # "representativeness" => AskedFor(s) >= refreshed
<1>1. CASE s = "answers"
  <2>1. AskedFor(s) = Page.asked /\ Oldest(s) = Life["responses"] + Life["page"] - 2
    BY <1>1 DEF AskedFor, Oldest
  <2>. QED
    BY <2>1, PageIsTimely DEF MayKeep, Entries, ClearedByRefresh
<1>2. CASE s = "representativeness"
  <2>1. AskedFor(s) = Read("tables", time).asked /\ Oldest(s) = Life["tables"] - 1
    BY <1>2 DEF AskedFor, Oldest
  <2>. QED
    BY <1>2, <2>1, ReadsAreTimely DEF MayKeep, Entries, Caches
<1>3. CASE s = "dynamics"
  <2>1. AskedFor(s) = Read("timestamps", time).asked /\ Oldest(s) = Life["timestamps"] - 1
    BY <1>3 DEF AskedFor, Oldest
  <2>. QED
    BY <2>1, ReadsAreTimely DEF MayKeep, Entries, Caches, ClearedByRefresh
<1>. QED
  BY <1>1, <1>2, <1>3 DEF ReportSections

\* What a press of the button makes of the report.
LEMMA PressOffers ==
  ASSUME NEW ticked \in SUBSET ReportSections, NEW readable \in BOOLEAN, NEW fits \in BOOLEAN,
         NEW timely \in BOOLEAN, NEW whole \in BOOLEAN,
         Press(ticked, readable, fits, timely, whole)
  PROVE  \/ pdf' \in {pdf, NoPdf}
         \/ \E S \in SUBSET ReportSections : pdf' = [s \in S |-> AskedFor(s)]
<1>. DEFINE S == ticked \ ((IF readable /\ fits THEN {} ELSE {"representativeness"})
                           \cup (IF timely THEN {} ELSE {"dynamics"}))
<1>1. pdf' = IF ~whole THEN pdf ELSE IF S = {} THEN NoPdf ELSE [s \in S |-> AskedFor(s)]
  BY DEF Press, AskedFor
<1>2. S \in SUBSET ReportSections
  OBVIOUS
<1>. HIDE DEF S
<1>. QED
  BY <1>1, <1>2

LEMMA PressKeeps ==
  ASSUME ReportInv, NEW ticked \in SUBSET ReportSections, NEW readable \in BOOLEAN,
         NEW fits \in BOOLEAN, NEW timely \in BOOLEAN, NEW whole \in BOOLEAN,
         Press(ticked, readable, fits, timely, whole)
  PROVE  /\ ReportInv'
         /\ pdf' \notin {pdf, NoPdf} => \A s \in DOMAIN pdf' : time - pdf'[s] <= Oldest(s)
<1>1. UNCHANGED <<time, refreshed>>
  BY DEF Press
<1>2. KeptIsTimely' /\ kept' \in [Caches -> Entries \cup {NoEntry}]
  <2>1. /\ MayKeep("tables", Read("tables", time))
        /\ MayKeep("timestamps", Read("timestamps", time))
    BY ReadsAreTimely DEF Caches
  <2>. DEFINE T == IF "representativeness" \in ticked /\ readable
                   THEN Read("tables", time) ELSE WithPage["tables"]
              M == IF "dynamics" \in ticked /\ timely
                   THEN Read("timestamps", time) ELSE WithPage["timestamps"]
  <2>2. kept' = [WithPage EXCEPT !["tables"] = T, !["timestamps"] = M]
    BY WithPageIsTimely DEF Press, Caches
  <2>3. /\ T \in Entries \cup {NoEntry} /\ (T # NoEntry => MayKeep("tables", T))
        /\ M \in Entries \cup {NoEntry} /\ (M # NoEntry => MayKeep("timestamps", M))
    BY <2>1, WithPageIsTimely DEF Caches, MayKeep
  <2>. HIDE DEF T, M
  <2>4. /\ kept' \in [Caches -> Entries \cup {NoEntry}]
        /\ \A c \in Caches : kept'[c] = IF c = "tables" THEN T
                                        ELSE IF c = "timestamps" THEN M ELSE WithPage[c]
    BY <2>2, <2>3, WithPageIsTimely DEF Caches
  <2>5. \A c \in Caches : kept'[c] # NoEntry => MayKeep(c, kept'[c])
    BY <2>3, <2>4, WithPageIsTimely
  <2>. QED
    BY <1>1, <2>4, <2>5 DEF KeptIsTimely, MayKeep, LongestKept
<1>3. CASE pdf' \in {pdf, NoPdf}
  <2>1. ReportTypeOK' /\ NoneBeforeRefresh'
    BY <1>1, <1>2, <1>3 DEF ReportInv, ReportTypeOK, NoneBeforeRefresh
  <2>. QED
    BY <1>1, <1>2, <1>3, <2>1 DEF ReportInv
<1>4. ASSUME NEW S \in SUBSET ReportSections, pdf' = [s \in S |-> AskedFor(s)]
      PROVE  ReportInv' /\ \A s \in DOMAIN pdf' : time - pdf'[s] <= Oldest(s)
  <2>1. pdf' \in [S -> Nat] /\ DOMAIN pdf' = S
    BY <1>4, SectionsAreFresh
  <2>2. \A s \in S : pdf'[s] = AskedFor(s)
    BY <1>4
  <2>3. ReportTypeOK'
    BY <1>1, <1>2, <2>1 DEF ReportInv, ReportTypeOK
  <2>4. NoneBeforeRefresh'
    BY <1>1, <2>1, <2>2, SectionsAreFresh DEF NoneBeforeRefresh
  <2>5. \A s \in DOMAIN pdf' : time - pdf'[s] <= Oldest(s)
    BY <2>1, <2>2, SectionsAreFresh
  <2>. QED
    BY <1>1, <1>2, <2>3, <2>4, <2>5 DEF ReportInv
<1>. QED
  BY <1>3, <1>4, PressOffers

LEMMA NextKeepsReportInv == ReportInv /\ [ReportNext]_reportVars => ReportInv'
<1>. SUFFICES ASSUME ReportInv, [ReportNext]_reportVars PROVE ReportInv'
  OBVIOUS
<1>1. CASE UNCHANGED reportVars
  BY <1>1 DEF ReportInv, ReportTypeOK, KeptIsTimely, MayKeep, LongestKept, NoneBeforeRefresh, reportVars
<1>. QED
  BY <1>1, TimeKeeps, DrawKeeps, RefreshKeeps, PressKeeps DEF ReportNext

-----------------------------------------------------------------------------
\* The inductive invariant.
THEOREM ReportInvariant == ReportSpec => []ReportInv
<1>. QED
  BY InitReportInv, NextKeepsReportInv, PTL DEF ReportSpec

\* The caches and the report that is offered stay of their types.
THEOREM ReportTypeCorrect == ReportSpec => []ReportTypeOK
<1>1. ReportInv => ReportTypeOK
  BY DEF ReportInv
<1>. QED
  BY <1>1, ReportInvariant, PTL

\* No report that is offered has answers from before the last refresh, and a
\* new one shows nothing that was asked of the API longer ago than the lives of
\* the caches it came through.
THEOREM ReportsAreFresh == ReportSpec => ReportIsFresh
<1>1. ReportInv /\ ReportInv' /\ [ReportNext]_reportVars =>
        [/\ NoneBeforeRefresh'
         /\ pdf' \notin {pdf, NoPdf} => \A s \in DOMAIN pdf' : time - pdf'[s] <= Oldest(s)]_reportVars
  <2>. SUFFICES ASSUME ReportInv, ReportInv', ReportNext
                PROVE  /\ NoneBeforeRefresh'
                       /\ pdf' \notin {pdf, NoPdf} =>
                            \A s \in DOMAIN pdf' : time - pdf'[s] <= Oldest(s)
    OBVIOUS
  <2>1. NoneBeforeRefresh'
    BY DEF ReportInv
  <2>2. CASE TimePasses \/ Draw \/ Refresh
    BY <2>1, <2>2 DEF TimePasses, Draw, Refresh
  <2>. QED
    BY <2>1, <2>2, PressKeeps DEF ReportNext
<1>. QED
  BY <1>1, ReportInvariant, PTL DEF ReportSpec, ReportIsFresh

-----------------------------------------------------------------------------
(****************************************************************************)
(* The sign-in's callback (SignInCallback), for any number of sign-ins and  *)
(* of threads.  That a state is marked used guards nothing on its own, for  *)
(* mark_used is a get and a set: what makes a ticket the only one of its    *)
(* sign-in is that Google exchanges a code once, and that a thread whose    *)
(* exchange was good is the only one that goes on from it.                  *)
(****************************************************************************)

Documents == {"user", "quota", "account"}
BeforeExchange == {"mark", "policy", "relax", "fetch"}
Saving == {"userinfo", "user", "quota", "tokens", "ticket"}

\* A thread holds its sign-in from a good exchange of the code to the ticket.
Holds(h) == cb[h].fetched /\ cb[h].at \in {"restore"} \cup Saving

\* What is in store by the time a thread is at a stage.
StoredBy(at) ==
  CASE at = "quota"  -> {"user"}
    [] at = "tokens" -> {"user", "quota"}
    [] at = "ticket" -> Documents
    [] OTHER         -> {}

ThreadsAreWell ==
  \A h \in Callbacks :
    /\ Running(h) => cb[h].on \in States
    /\ cb[h].at \in BeforeExchange => ~cb[h].fetched
    /\ cb[h].at \in Saving => cb[h].fetched
    /\ StoredBy(cb[h].at) \subseteq stored

HeldIsOpen == \A h \in Callbacks : Holds(h) => code[cb[h].on] = "spent" /\ tickets[cb[h].on] = 0
HeldOnce == \A g, h \in Callbacks : Holds(g) /\ Holds(h) /\ cb[g].on = cb[h].on => g = h

TicketsAreLast ==
  \A s \in States : tickets[s] > 0 =>
    code[s] = "spent" /\ stored = Documents /\ tickets[s] = 1

CallbackInv ==
  /\ CallbackTypeOK
  /\ ThreadsAreWell
  /\ HeldIsOpen
  /\ HeldOnce
  /\ TicketsAreLast

-----------------------------------------------------------------------------
LEMMA InitCallbackInv == CallbackInit => CallbackInv
<1>. SUFFICES ASSUME CallbackInit PROVE CallbackInv
  OBVIOUS
<1>1. CallbackTypeOK
  BY DEF CallbackInit, CallbackTypeOK, NoCallback, CallbackStates
<1>2. ASSUME NEW h \in Callbacks PROVE ~Running(h) /\ ~Holds(h) /\ cb[h].at = "idle"
  BY DEF CallbackInit, NoCallback, Running, CallbackStages, Holds
<1>3. ThreadsAreWell /\ HeldIsOpen /\ HeldOnce
  BY <1>2 DEF ThreadsAreWell, BeforeExchange, Saving, StoredBy, HeldIsOpen, HeldOnce
<1>4. TicketsAreLast
  BY DEF CallbackInit, TicketsAreLast
<1>. QED
  BY <1>1, <1>3, <1>4 DEF CallbackInv

-----------------------------------------------------------------------------
(* The browser and Google.                                                  *)

\* The threads and the store are as before, and no exchange is undone.
LEMMA OutsideKeeps ==
  ASSUME CallbackInv, CallbackTypeOK', UNCHANGED <<cb, stored, tickets>>,
         \A s \in States : code[s] = "spent" => code'[s] = "spent"
  PROVE  CallbackInv'
<1>1. ThreadsAreWell' /\ HeldOnce'
  BY DEF CallbackInv, ThreadsAreWell, HeldOnce, Running, Holds
<1>2. HeldIsOpen'
  <2>. SUFFICES ASSUME NEW h \in Callbacks, Holds(h)
                PROVE  code'[cb[h].on] = "spent" /\ tickets[cb[h].on] = 0
    BY DEF HeldIsOpen, Holds
  <2>1. cb[h].on \in States
    BY DEF Holds, CallbackInv, ThreadsAreWell, Running, CallbackStages, Saving
  <2>. QED
    BY <2>1 DEF CallbackInv, HeldIsOpen
<1>3. TicketsAreLast'
  BY DEF CallbackInv, TicketsAreLast
<1>. QED
  BY <1>1, <1>2, <1>3 DEF CallbackInv

LEMMA BrowserKeeps ==
  ASSUME CallbackInv, NEW s \in States, StartGoogleAuth(s) \/ GiveCode(s) \/ ExpireState(s)
  PROVE  CallbackInv'
<1>1. CASE StartGoogleAuth(s)
  <2>1. CallbackTypeOK'
    BY <1>1 DEF CallbackInv, CallbackTypeOK, StartGoogleAuth
  <2>. QED
    BY <1>1, <2>1, OutsideKeeps DEF StartGoogleAuth
<1>2. CASE GiveCode(s)
  <2>1. CallbackTypeOK'
    BY <1>2 DEF CallbackInv, CallbackTypeOK, GiveCode
  <2>2. \A t \in States : code[t] = "spent" => code'[t] = "spent"
    BY <1>2 DEF CallbackInv, CallbackTypeOK, GiveCode
  <2>. QED
    BY <1>2, <2>1, <2>2, OutsideKeeps DEF GiveCode
<1>3. CASE ExpireState(s)
  <2>1. CallbackTypeOK'
    BY <1>3 DEF CallbackInv, CallbackTypeOK, ExpireState
  <2>. QED
    BY <1>3, <2>1, OutsideKeeps DEF ExpireState
<1>. QED
  BY <1>1, <1>2, <1>3

\* A redirect arrives: its thread starts over and holds nothing.
LEMMA ArriveKeeps ==
  ASSUME CallbackInv, NEW h \in Callbacks, NEW s \in States, ArriveBack(h, s)
  PROVE  CallbackInv'
<1>1. /\ cb'[h] \in CallbackStates
      /\ cb'[h].at \in {"mark", "refused"} /\ cb'[h].on = s /\ cb'[h].fetched = FALSE
  BY DEF CallbackInv, CallbackTypeOK, ArriveBack, NoCallback, CallbackStates, CallbackStages, CallbackAnswers
<1>2. ASSUME NEW g \in Callbacks, g # h
      PROVE  /\ cb'[g] \in CallbackStates
             /\ cb'[g].at = cb[g].at /\ cb'[g].on = cb[g].on /\ cb'[g].fetched = cb[g].fetched
  BY <1>2 DEF CallbackInv, CallbackTypeOK, ArriveBack, CallbackStates
<1>3. CallbackTypeOK'
  BY <1>1, <1>2 DEF CallbackInv, CallbackTypeOK, ArriveBack
<1>4. ThreadsAreWell'
  <2>. SUFFICES ASSUME NEW g \in Callbacks
                PROVE  /\ Running(g)' => cb'[g].on \in States
                       /\ cb'[g].at \in BeforeExchange => ~cb'[g].fetched
                       /\ cb'[g].at \in Saving => cb'[g].fetched
                       /\ StoredBy(cb'[g].at) \subseteq stored'
    BY DEF ThreadsAreWell
  <2>1. CASE g = h
    BY <1>1, <2>1 DEF Saving, StoredBy
  <2>2. CASE g # h
    BY <1>2, <2>2 DEF CallbackInv, ThreadsAreWell, Running, ArriveBack
  <2>. QED
    BY <2>1, <2>2
<1>5. \A g \in Callbacks : Holds(g)' => g # h /\ Holds(g) /\ cb'[g].on = cb[g].on
  BY <1>1, <1>2 DEF Holds
<1>6. HeldIsOpen' /\ HeldOnce'
  BY <1>5 DEF CallbackInv, HeldIsOpen, HeldOnce, ArriveBack
<1>7. TicketsAreLast'
  BY DEF CallbackInv, TicketsAreLast, ArriveBack
<1>. QED
  BY <1>3, <1>4, <1>6, <1>7 DEF CallbackInv

-----------------------------------------------------------------------------
(* The stages.                                                              *)

\* A thread goes on: it holds its sign-in only if it did before.
LEMMA GoingOnKeeps ==
  ASSUME CallbackInv, NEW h \in Callbacks, NEW next \in CallbackStates,
         cb' = [cb EXCEPT ![h] = next],
         state' \in [States -> [is : {"none", "live", "used"}, old : BOOLEAN]],
         relaxed' \in BOOLEAN, UNCHANGED <<code, tickets>>,
         stored \subseteq stored', stored' \subseteq Documents,
         Running(h), next.on = cb[h].on,
         next.at \in BeforeExchange => ~next.fetched,
         next.at \in Saving => next.fetched,
         StoredBy(next.at) \subseteq stored',
         next.fetched /\ next.at \in {"restore"} \cup Saving => Holds(h)
  PROVE  CallbackInv'
<1>1. \A g \in Callbacks : cb'[g] = IF g = h THEN next ELSE cb[g]
  BY DEF CallbackInv, CallbackTypeOK
<1>2. CallbackTypeOK'
  BY DEF CallbackInv, CallbackTypeOK, Documents
<1>3. ThreadsAreWell'
  <2>. SUFFICES ASSUME NEW g \in Callbacks
                PROVE  /\ Running(g)' => cb'[g].on \in States
                       /\ cb'[g].at \in BeforeExchange => ~cb'[g].fetched
                       /\ cb'[g].at \in Saving => cb'[g].fetched
                       /\ StoredBy(cb'[g].at) \subseteq stored'
    BY DEF ThreadsAreWell
  <2>1. CASE g = h
    BY <1>1, <2>1 DEF CallbackInv, ThreadsAreWell
  <2>2. CASE g # h
    BY <1>1, <2>2 DEF CallbackInv, ThreadsAreWell, Running
  <2>. QED
    BY <2>1, <2>2
<1>4. \A g \in Callbacks : Holds(g)' => Holds(g) /\ cb'[g].on = cb[g].on
  BY <1>1 DEF Holds
<1>5. HeldIsOpen' /\ HeldOnce'
  BY <1>4 DEF CallbackInv, HeldIsOpen, HeldOnce
<1>6. TicketsAreLast'
  BY DEF CallbackInv, TicketsAreLast
<1>. QED
  BY <1>2, <1>3, <1>5, <1>6 DEF CallbackInv

LEMMA ThreadIsWell ==
  ASSUME CallbackInv, NEW h \in Callbacks
  PROVE  /\ cb[h] \in CallbackStates
         /\ Running(h) => cb[h].on \in States
         /\ cb[h].at \in BeforeExchange => ~cb[h].fetched
         /\ cb[h].at \in Saving => cb[h].fetched
         /\ StoredBy(cb[h].at) \subseteq stored
BY DEF CallbackInv, CallbackTypeOK, ThreadsAreWell

\* A step to another stage, and to nothing but that.
LEMMA GoesKeeps ==
  ASSUME CallbackInv, NEW h \in Callbacks, NEW at \in CallbackStages \cup CallbackAnswers, Goes(h, at),
         state' \in [States -> [is : {"none", "live", "used"}, old : BOOLEAN]],
         relaxed' \in BOOLEAN, UNCHANGED <<code, tickets>>,
         stored \subseteq stored', stored' \subseteq Documents,
         Running(h),
         at \in BeforeExchange => ~cb[h].fetched,
         at \in Saving => cb[h].fetched /\ cb[h].at \in {"restore"} \cup Saving,
         at # "restore",
         StoredBy(at) \subseteq stored'
  PROVE  CallbackInv'
<1>. DEFINE next == [cb[h] EXCEPT !.at = at]
<1>1. /\ next \in CallbackStates
      /\ next.at = at /\ next.on = cb[h].on /\ next.fetched = cb[h].fetched
  BY ThreadIsWell DEF CallbackStates
<1>2. cb' = [cb EXCEPT ![h] = next]
  BY DEF Goes, CallbackInv, CallbackTypeOK
<1>. HIDE DEF next
<1>. QED
  BY <1>1, <1>2, GoingOnKeeps DEF Holds

LEMMA StageGoesOn ==
  ASSUME CallbackInv, NEW h \in Callbacks,
         MarkUsed(h) \/ ReadPolicy(h) \/ Relax(h) \/ RestorePolicy(h) \/ UserInfo(h) \/ Persist(h)
  PROVE  CallbackInv'
<1>. state \in [States -> [is : {"none", "live", "used"}, old : BOOLEAN]]
     /\ relaxed \in BOOLEAN /\ stored \subseteq Documents
  BY DEF CallbackInv, CallbackTypeOK, Documents
<1>1. CASE MarkUsed(h)
  <2>1. state' \in [States -> [is : {"none", "live", "used"}, old : BOOLEAN]]
    BY <1>1, ThreadIsWell DEF MarkUsed, Running, CallbackStages
  <2>. QED
    BY <1>1, <2>1, ThreadIsWell, GoesKeeps
    DEF MarkUsed, Running, CallbackStages, BeforeExchange, Saving, StoredBy
<1>2. CASE ReadPolicy(h)
  <2>. DEFINE next == [cb[h] EXCEPT !.at = "relax", !.previous = relaxed]
  <2>1. /\ next \in CallbackStates
        /\ next.at = "relax" /\ next.on = cb[h].on /\ next.fetched = cb[h].fetched
    BY ThreadIsWell DEF CallbackStates, CallbackStages
  <2>2. cb' = [cb EXCEPT ![h] = next]
    BY <1>2 DEF ReadPolicy, CallbackInv, CallbackTypeOK
  <2>. HIDE DEF next
  <2>. QED
    BY <1>2, <2>1, <2>2, ThreadIsWell, GoingOnKeeps
    DEF ReadPolicy, Running, CallbackStages, BeforeExchange, Saving, StoredBy
<1>3. CASE Relax(h)
  BY <1>3, ThreadIsWell, GoesKeeps DEF Relax, Running, CallbackStages, BeforeExchange, Saving, StoredBy
<1>4. CASE RestorePolicy(h)
  <2>. DEFINE next == [cb[h] EXCEPT !.at = AfterFetch(h), !.previous = FALSE]
  <2>1. /\ AfterFetch(h) \in {"userinfo", "auth_error"}
        /\ AfterFetch(h) = "userinfo" => cb[h].fetched
    BY DEF AfterFetch
  <2>2. /\ next \in CallbackStates
        /\ next.at = AfterFetch(h) /\ next.on = cb[h].on /\ next.fetched = cb[h].fetched
    BY <2>1, ThreadIsWell DEF CallbackStates, CallbackStages, CallbackAnswers
  <2>3. cb' = [cb EXCEPT ![h] = next]
    BY <1>4 DEF RestorePolicy, CallbackInv, CallbackTypeOK
  <2>4. relaxed' \in BOOLEAN
    BY <1>4, ThreadIsWell DEF RestorePolicy, CallbackStates
  <2>. HIDE DEF next
  <2>5. /\ next.at \notin BeforeExchange
        /\ next.at \in Saving => next.fetched
        /\ StoredBy(next.at) = {}
        /\ next.fetched => Holds(h)
    BY <1>4, <2>1, <2>2 DEF RestorePolicy, BeforeExchange, Saving, StoredBy, Holds
  <2>6. Running(h) /\ UNCHANGED <<state, code, stored, tickets>>
    BY <1>4 DEF RestorePolicy, Running, CallbackStages
  <2>. QED
    BY <2>2, <2>3, <2>4, <2>5, <2>6, GoingOnKeeps
<1>5. CASE UserInfo(h)
  BY <1>5, ThreadIsWell, GoesKeeps DEF UserInfo, Running, CallbackStages, BeforeExchange, Saving, StoredBy
<1>6. CASE Persist(h)
  <2>1. /\ cb[h].at \in {"user", "quota", "tokens"}
        /\ Goes(h, NextStage(cb[h].at))
        /\ stored' = stored \cup {Document(cb[h].at)}
        /\ UNCHANGED <<state, code, relaxed, tickets>>
    BY <1>6 DEF Persist
  <2>2. NextStage(cb[h].at) \in {"quota", "tokens", "ticket"}
    BY <2>1 DEF NextStage
  <2>3. StoredBy(NextStage(cb[h].at)) \subseteq stored' /\ stored' \subseteq Documents
    BY <2>1, ThreadIsWell DEF NextStage, Document, StoredBy, Documents
  <2>4. cb[h].fetched /\ Running(h) /\ cb[h].at \in Saving
    BY <2>1, ThreadIsWell DEF Saving, Running, CallbackStages
  <2>. QED
    BY <2>1, <2>2, <2>3, <2>4, GoesKeeps DEF CallbackStages, BeforeExchange
<1>. QED
  BY <1>1, <1>2, <1>3, <1>4, <1>5, <1>6

LEMMA FailsKeeps ==
  ASSUME CallbackInv, NEW h \in Callbacks, Fails(h)
  PROVE  CallbackInv'
<1>. DEFINE at == AfterFailure(cb[h].at)
            next == [cb[h] EXCEPT !.failed = TRUE, !.at = at]
<1>1. /\ next \in CallbackStates
      /\ next.at = at /\ next.on = cb[h].on /\ next.fetched = cb[h].fetched
  BY ThreadIsWell DEF CallbackStates, CallbackStages, CallbackAnswers, AfterFailure
<1>2. cb' = [cb EXCEPT ![h] = next]
  BY DEF Fails, CallbackInv, CallbackTypeOK
<1>3. at \in {"refused", "restore", "auth_error"} /\ (at = "restore" => cb[h].at = "fetch")
  BY DEF AfterFailure
<1>. HIDE DEF next, at
<1>4. /\ state' \in [States -> [is : {"none", "live", "used"}, old : BOOLEAN]]
      /\ relaxed' \in BOOLEAN /\ stored' = stored /\ stored' \subseteq Documents
      /\ UNCHANGED <<code, tickets>> /\ Running(h)
  BY DEF CallbackInv, CallbackTypeOK, Documents, Fails, Running, CallbackStages
<1>5. ~(next.fetched /\ next.at \in {"restore"} \cup Saving)
  BY <1>1, <1>3, ThreadIsWell DEF BeforeExchange, Saving
<1>6. next.at \notin BeforeExchange /\ next.at \notin Saving /\ StoredBy(next.at) = {}
  BY <1>1, <1>3 DEF BeforeExchange, Saving, StoredBy
<1>. QED
  BY <1>1, <1>2, <1>4, <1>5, <1>6, GoingOnKeeps

\* The exchange: if it is good, the code was not spent before, so no other
\* thread holds the sign-in and there is no ticket of it.
LEMMA FetchKeeps ==
  ASSUME CallbackInv, NEW h \in Callbacks, NEW broader \in BOOLEAN, FetchToken(h, broader)
  PROVE  CallbackInv'
<1>. DEFINE s == cb[h].on
            next == [cb[h] EXCEPT !.at = "restore", !.fetched = code[s] = "given" /\ (broader => relaxed)]
<1>1. cb[h].at = "fetch" /\ s \in States /\ cb[h] \in CallbackStates
  BY ThreadIsWell DEF FetchToken, Running, CallbackStages
<1>2. /\ next \in CallbackStates
      /\ next.at = "restore" /\ next.on = s /\ (next.fetched => code[s] = "given")
  BY <1>1 DEF CallbackStates, CallbackStages
<1>3. /\ cb' = [cb EXCEPT ![h] = next]
      /\ code' = [code EXCEPT ![s] = "spent"]
      /\ UNCHANGED <<state, relaxed, stored, tickets>>
  BY DEF FetchToken, CallbackInv, CallbackTypeOK
<1>. HIDE DEF next
<1>4. \A g \in Callbacks : cb'[g] = IF g = h THEN next ELSE cb[g]
  BY <1>3 DEF CallbackInv, CallbackTypeOK
<1>5. \A t \in States : code'[t] = "spent" \/ (t # s /\ code'[t] = code[t])
  BY <1>3 DEF CallbackInv, CallbackTypeOK
<1>6. CallbackTypeOK'
  BY <1>1, <1>2, <1>3 DEF CallbackInv, CallbackTypeOK
<1>7. ThreadsAreWell'
  <2>. SUFFICES ASSUME NEW g \in Callbacks
                PROVE  /\ Running(g)' => cb'[g].on \in States
                       /\ cb'[g].at \in BeforeExchange => ~cb'[g].fetched
                       /\ cb'[g].at \in Saving => cb'[g].fetched
                       /\ StoredBy(cb'[g].at) \subseteq stored'
    BY DEF ThreadsAreWell
  <2>1. CASE g = h
    BY <1>1, <1>2, <1>4, <2>1 DEF BeforeExchange, Saving, StoredBy
  <2>2. CASE g # h
    BY <1>3, <1>4, <2>2 DEF CallbackInv, ThreadsAreWell, Running
  <2>. QED
    BY <2>1, <2>2
<1>8. tickets[s] > 0 => code[s] = "spent"
  BY <1>1 DEF CallbackInv, TicketsAreLast
<1>9. ASSUME NEW g \in Callbacks, g # h, Holds(g)'
      PROVE  Holds(g) /\ cb'[g].on = cb[g].on /\ cb[g].on \in States /\ code[cb[g].on] = "spent"
  <2>1. Holds(g) /\ cb'[g].on = cb[g].on
    BY <1>4, <1>9 DEF Holds
  <2>2. cb[g].on \in States
    BY <2>1, ThreadIsWell DEF Holds, Saving, Running, CallbackStages
  <2>. QED
    BY <2>1, <2>2 DEF CallbackInv, HeldIsOpen
<1>10. HeldIsOpen'
  <2>. SUFFICES ASSUME NEW g \in Callbacks, Holds(g)'
                PROVE  code'[cb'[g].on] = "spent" /\ tickets'[cb'[g].on] = 0
    BY DEF HeldIsOpen
  <2>1. CASE g = h
    <3>1. cb'[g].on = s /\ code[s] = "given"
      BY <1>2, <1>4, <2>1 DEF Holds
    <3>2. tickets[s] \in Nat
      BY <1>1 DEF CallbackInv, CallbackTypeOK
    <3>. QED
      BY <1>1, <1>3, <1>5, <1>8, <3>1, <3>2
  <2>2. CASE g # h
    BY <1>3, <1>5, <1>9, <2>2 DEF CallbackInv, HeldIsOpen
  <2>. QED
    BY <2>1, <2>2
<1>11. Holds(h)' => cb'[h].on = s /\ code[s] = "given"
  BY <1>2, <1>4 DEF Holds
<1>12. HeldOnce'
  BY <1>9, <1>11 DEF CallbackInv, HeldOnce
<1>13. TicketsAreLast'
  BY <1>3, <1>5 DEF CallbackInv, TicketsAreLast
<1>. QED
  BY <1>6, <1>7, <1>10, <1>12, <1>13 DEF CallbackInv

\* The ticket: its thread is the only one that held the sign-in, and no longer
\* does.
LEMMA TicketKeeps ==
  ASSUME CallbackInv, NEW h \in Callbacks, CreateLoginTicket(h)
  PROVE  CallbackInv'
<1>. DEFINE s == cb[h].on
            next == [cb[h] EXCEPT !.at = "ticket_given"]
<1>1. /\ cb[h].at = "ticket" /\ Holds(h) /\ s \in States /\ cb[h] \in CallbackStates
      /\ Documents \subseteq stored
  BY ThreadIsWell DEF CreateLoginTicket, Running, CallbackStages, Saving, Holds, StoredBy
<1>2. next \in CallbackStates /\ next.at = "ticket_given"
  BY <1>1 DEF CallbackStates, CallbackAnswers
<1>3. /\ cb' = [cb EXCEPT ![h] = next]
      /\ tickets' = [tickets EXCEPT ![s] = @ + 1]
      /\ UNCHANGED <<state, code, relaxed, stored>>
  BY DEF CreateLoginTicket, Goes, CallbackInv, CallbackTypeOK
<1>. HIDE DEF next
<1>4. \A g \in Callbacks : cb'[g] = IF g = h THEN next ELSE cb[g]
  BY <1>3 DEF CallbackInv, CallbackTypeOK
<1>5. tickets[s] = 0 /\ code[s] = "spent"
  BY <1>1 DEF CallbackInv, HeldIsOpen
<1>6. \A t \in States : tickets'[t] = IF t = s THEN 1 ELSE tickets[t]
  BY <1>1, <1>3, <1>5 DEF CallbackInv, CallbackTypeOK
<1>7. CallbackTypeOK'
  BY <1>1, <1>2, <1>3, <1>5 DEF CallbackInv, CallbackTypeOK
<1>8. ThreadsAreWell'
  <2>. SUFFICES ASSUME NEW g \in Callbacks
                PROVE  /\ Running(g)' => cb'[g].on \in States
                       /\ cb'[g].at \in BeforeExchange => ~cb'[g].fetched
                       /\ cb'[g].at \in Saving => cb'[g].fetched
                       /\ StoredBy(cb'[g].at) \subseteq stored'
    BY DEF ThreadsAreWell
  <2>1. CASE g = h
    BY <1>2, <1>4, <2>1 DEF BeforeExchange, Saving, StoredBy, Running, CallbackStages
  <2>2. CASE g # h
    BY <1>3, <1>4, <2>2 DEF CallbackInv, ThreadsAreWell, Running
  <2>. QED
    BY <2>1, <2>2
<1>9. ASSUME NEW g \in Callbacks, Holds(g)'
      PROVE  g # h /\ Holds(g) /\ cb'[g].on = cb[g].on /\ cb[g].on # s /\ cb[g].on \in States
  <2>1. g # h
    BY <1>2, <1>4, <1>9 DEF Holds, Saving
  <2>2. Holds(g) /\ cb'[g].on = cb[g].on
    BY <1>4, <1>9, <2>1 DEF Holds
  <2>3. cb[g].on # s
    BY <1>1, <2>1, <2>2 DEF CallbackInv, HeldOnce
  <2>4. cb[g].on \in States
    BY <2>2, ThreadIsWell DEF Holds, Saving, Running, CallbackStages
  <2>. QED
    BY <2>1, <2>2, <2>3, <2>4
<1>10. HeldIsOpen' /\ HeldOnce'
  BY <1>3, <1>6, <1>9 DEF CallbackInv, HeldIsOpen, HeldOnce
<1>11. stored = Documents
  BY <1>1 DEF CallbackInv, CallbackTypeOK, Documents
<1>12. TicketsAreLast'
  BY <1>3, <1>5, <1>6, <1>11 DEF CallbackInv, TicketsAreLast
<1>. QED
  BY <1>7, <1>8, <1>10, <1>12 DEF CallbackInv

LEMMA NextKeepsCallbackInv == CallbackInv /\ [CallbackNext]_signInVars => CallbackInv'
<1>. SUFFICES ASSUME CallbackInv, [CallbackNext]_signInVars PROVE CallbackInv'
  OBVIOUS
<1>1. CASE UNCHANGED signInVars
  <2>1. CallbackTypeOK'
    BY <1>1 DEF CallbackInv, CallbackTypeOK, signInVars
  <2>. QED
    BY <1>1, <2>1, OutsideKeeps DEF signInVars
<1>2. ASSUME NEW h \in Callbacks, Stage(h) PROVE CallbackInv'
  BY <1>2, StageGoesOn, FetchKeeps, TicketKeeps DEF Stage
<1>. QED
  BY <1>1, <1>2, BrowserKeeps, FailsKeeps, ArriveKeeps DEF CallbackNext

-----------------------------------------------------------------------------
\* The inductive invariant.
THEOREM CallbackInvariant == CallbackSpec => []CallbackInv
<1>. QED
  BY InitCallbackInv, NextKeepsCallbackInv, PTL DEF CallbackSpec

\* The documents, the threads of the callback and the tickets stay of their
\* types.
THEOREM CallbackTypeCorrect == CallbackSpec => []CallbackTypeOK
<1>1. CallbackInv => CallbackTypeOK
  BY DEF CallbackInv
<1>. QED
  BY <1>1, CallbackInvariant, PTL

\* A sign-in gives one ticket at most, however many redirects with its state
\* are answered at once, and only when the user, the quota and the account with
\* the tokens are stored: a call that fails on the way leaves no ticket.
THEOREM TicketsAreGivenLast == CallbackSpec => []TicketsComeLast
<1>1. CallbackInv => TicketsComeLast
  <2>. SUFFICES ASSUME CallbackInv, NEW s \in States
                PROVE  /\ tickets[s] > 0 => stored = {"user", "quota", "account"}
                       /\ tickets[s] <= 1
    BY DEF TicketsComeLast
  <2>1. tickets[s] \in Nat
    BY DEF CallbackInv, CallbackTypeOK
  <2>. QED
    BY <2>1 DEF CallbackInv, TicketsAreLast, Documents
<1>. QED
  BY <1>1, CallbackInvariant, PTL

-----------------------------------------------------------------------------
(* A sign-in that is answered alone.  Its code was not yet spent when it    *)
(* came, the variable is what it has set, and no other thread runs.         *)

PastMark == {"policy", "relax", "fetch"}

SpentIsUsed == \A s \in States : code[s] = "spent" => state[s].is = "used"
MarkedIsUsed == \A h \in Callbacks : cb[h].at \in PastMark => state[cb[h].on].is = "used"
RunsAlone ==
  \A g, h \in Callbacks : Running(h) /\ ~cb[h].beside /\ g # h => ~Running(g)

\* What a thread that has been alone so far may count on.
Undisturbed(t, codes, isRelaxed) ==
  /\ t.at \in BeforeExchange => codes[t.on] = "given"
  /\ t.at = "fetch" => isRelaxed
  /\ t.at = "restore" => t.fetched \/ t.failed
  /\ t.at = "auth_error" => t.failed

AloneInv ==
  /\ CallbackInv
  /\ SpentIsUsed
  /\ MarkedIsUsed
  /\ RunsAlone
  /\ \A h \in Callbacks : ~cb[h].beside => Undisturbed(cb[h], code, relaxed)

LEMMA InitAloneInv == CallbackInit => AloneInv
<1>. SUFFICES ASSUME CallbackInit PROVE AloneInv
  OBVIOUS
<1>1. CallbackInv
  BY InitCallbackInv
<1>2. \A h \in Callbacks : cb[h].at = "idle" /\ ~Running(h)
  BY DEF CallbackInit, NoCallback, Running, CallbackStages
<1>3. SpentIsUsed /\ MarkedIsUsed /\ RunsAlone
  BY <1>2 DEF CallbackInit, SpentIsUsed, MarkedIsUsed, RunsAlone, PastMark
<1>4. \A h \in Callbacks : Undisturbed(cb[h], code, relaxed)
  BY <1>2 DEF Undisturbed, BeforeExchange
<1>. QED
  BY <1>1, <1>3, <1>4 DEF AloneInv

\* The browser and Google take back no code, and no state that was used.
LEMMA BrowserLeavesAlone ==
  ASSUME AloneInv, CallbackInv', NEW s \in States, StartGoogleAuth(s) \/ GiveCode(s) \/ ExpireState(s)
  PROVE  AloneInv'
<1>1. /\ CallbackTypeOK /\ cb' = cb /\ relaxed' = relaxed
      /\ \A h \in Callbacks : Running(h) => cb[h].on \in States
  BY DEF AloneInv, CallbackInv, ThreadsAreWell, StartGoogleAuth, GiveCode, ExpireState
<1>2. \A t \in States : /\ state[t].is = "used" => state'[t].is = "used"
                        /\ code'[t] = "spent" => code[t] = "spent"
                        /\ code[t] = "given" => code'[t] = "given"
  BY <1>1 DEF CallbackTypeOK, StartGoogleAuth, GiveCode, ExpireState
<1>3. SpentIsUsed'
  BY <1>2 DEF AloneInv, SpentIsUsed
<1>4. MarkedIsUsed'
  BY <1>1, <1>2 DEF AloneInv, MarkedIsUsed, PastMark, Running, CallbackStages
<1>5. RunsAlone'
  BY <1>1 DEF AloneInv, RunsAlone, Running
<1>6. ASSUME NEW h \in Callbacks, ~cb[h].beside PROVE Undisturbed(cb[h], code', relaxed)
  <2>1. Undisturbed(cb[h], code, relaxed)
    BY <1>6 DEF AloneInv
  <2>2. cb[h].at \in BeforeExchange => cb[h].on \in States
    BY <1>1 DEF BeforeExchange, Running, CallbackStages
  <2>. QED
    BY <1>2, <2>1, <2>2 DEF Undisturbed
<1>7. \A h \in Callbacks : ~cb'[h].beside => Undisturbed(cb'[h], code', relaxed')
  BY <1>1, <1>6
<1>. QED
  BY <1>3, <1>4, <1>5, <1>7 DEF AloneInv, Undisturbed

\* Whoever runs when a redirect arrives is no longer alone, and neither is it.
LEMMA ArriveLeavesAlone ==
  ASSUME AloneInv, CallbackInv', NEW h \in Callbacks, NEW s \in States, ArriveBack(h, s)
  PROVE  AloneInv'
<1>1. CallbackTypeOK
  BY DEF AloneInv, CallbackInv
<1>2. /\ cb'[h].on = s /\ cb'[h].beside = (\E k \in Callbacks \ {h} : Running(k))
      /\ cb'[h].at = IF state[s].is = "live" /\ ~state[s].old THEN "mark" ELSE "refused"
  BY <1>1 DEF ArriveBack, CallbackTypeOK, NoCallback
<1>3. \A g \in Callbacks \ {h} : /\ cb'[g].beside /\ cb'[g].at = cb[g].at /\ cb'[g].on = cb[g].on
  BY <1>1 DEF ArriveBack, CallbackTypeOK, CallbackStates
<1>4. code[s] # "none" /\ UNCHANGED <<state, code, relaxed>>
  BY DEF ArriveBack
<1>5. cb'[h].at = "mark" => code[s] = "given"
  BY <1>1, <1>2, <1>4 DEF AloneInv, SpentIsUsed, CallbackTypeOK
<1>6. SpentIsUsed' /\ MarkedIsUsed'
  BY <1>2, <1>3, <1>4 DEF AloneInv, SpentIsUsed, MarkedIsUsed, PastMark
<1>7. RunsAlone'
  BY <1>2, <1>3 DEF RunsAlone, Running
<1>8. Undisturbed(cb'[h], code', relaxed')
  BY <1>2, <1>4, <1>5 DEF Undisturbed, BeforeExchange
<1>9. \A g \in Callbacks : ~cb'[g].beside => Undisturbed(cb'[g], code', relaxed')
  BY <1>3, <1>8
<1>. QED
  BY <1>6, <1>7, <1>9 DEF AloneInv, Undisturbed

\* A step of a thread: another one that runs has not been alone.
LEMMA StepLeavesAlone ==
  ASSUME AloneInv, CallbackInv', NEW h \in Callbacks, Running(h), NEW next,
         cb' = [cb EXCEPT ![h] = next], next.on = cb[h].on, next.beside = cb[h].beside,
         SpentIsUsed', \A s \in States : state[s].is = "used" => state'[s].is = "used",
         next.at \in PastMark => state'[cb[h].on].is = "used",
         ~next.beside => Undisturbed(next, code', relaxed')
  PROVE  AloneInv'
<1>1. /\ cb \in [Callbacks -> CallbackStates]
      /\ \A g \in Callbacks : Running(g) => cb[g].on \in States
  BY DEF AloneInv, CallbackInv, CallbackTypeOK, ThreadsAreWell
<1>2. \A g \in Callbacks : cb'[g] = IF g = h THEN next ELSE cb[g]
  BY <1>1
<1>3. MarkedIsUsed'
  <2>. SUFFICES ASSUME NEW g \in Callbacks, cb'[g].at \in PastMark PROVE state'[cb'[g].on].is = "used"
    BY DEF MarkedIsUsed
  <2>1. CASE g = h
    BY <1>2, <2>1
  <2>2. CASE g # h
    BY <1>1, <1>2, <2>2 DEF AloneInv, MarkedIsUsed, PastMark, Running, CallbackStages
  <2>. QED
    BY <2>1, <2>2
<1>4. RunsAlone'
  BY <1>2 DEF AloneInv, RunsAlone, Running
<1>5. ASSUME NEW g \in Callbacks, ~cb'[g].beside PROVE Undisturbed(cb'[g], code', relaxed')
  <2>1. CASE g = h
    BY <1>2, <1>5, <2>1
  <2>2. CASE g # h
    <3>1. cb'[g] = cb[g] /\ ~Running(g) /\ Undisturbed(cb[g], code, relaxed)
      BY <1>2, <1>5, <2>2 DEF AloneInv, RunsAlone
    <3>. QED
      BY <3>1 DEF Undisturbed, Running, CallbackStages, BeforeExchange
  <2>. QED
    BY <2>1, <2>2
<1>. QED
  BY <1>3, <1>4, <1>5 DEF AloneInv, Undisturbed

LEMMA StageLeavesAlone ==
  ASSUME AloneInv, CallbackInv', NEW h \in Callbacks, Stage(h) \/ Fails(h)
  PROVE  AloneInv'
<1>1. /\ CallbackTypeOK /\ cb[h] \in CallbackStates
      /\ SpentIsUsed /\ \A s \in States : code[s] = "spent" => state[s].is = "used"
      /\ Running(h) => cb[h].on \in States
      /\ cb[h].at \in PastMark => state[cb[h].on].is = "used"
      /\ ~cb[h].beside => Undisturbed(cb[h], code, relaxed)
  BY DEF AloneInv, CallbackInv, CallbackTypeOK, ThreadsAreWell, SpentIsUsed, MarkedIsUsed
<1>2. CASE MarkUsed(h)
  <2>. DEFINE next == [cb[h] EXCEPT !.at = "policy"]
  <2>1. /\ next.on = cb[h].on /\ next.beside = cb[h].beside /\ next.at = "policy"
        /\ cb' = [cb EXCEPT ![h] = next] /\ Running(h)
        /\ state' = [state EXCEPT ![cb[h].on].is = "used"] /\ UNCHANGED <<code, relaxed>>
    BY <1>1, <1>2 DEF MarkUsed, Goes, CallbackStates, Running, CallbackStages, CallbackTypeOK
  <2>2. \A s \in States : state'[s].is = IF s = cb[h].on THEN "used" ELSE state[s].is
    BY <1>1, <2>1 DEF CallbackTypeOK
  <2>3. SpentIsUsed'
    BY <1>1, <2>1, <2>2 DEF SpentIsUsed
  <2>4. ~next.beside => Undisturbed(next, code', relaxed')
    BY <1>1, <1>2, <2>1 DEF Undisturbed, BeforeExchange, MarkUsed
  <2>. HIDE DEF next
  <2>. QED
    BY <1>1, <2>1, <2>2, <2>3, <2>4, StepLeavesAlone
<1>3. CASE ReadPolicy(h)
  <2>. DEFINE next == [cb[h] EXCEPT !.at = "relax", !.previous = relaxed]
  <2>1. /\ next.on = cb[h].on /\ next.beside = cb[h].beside /\ next.at = "relax"
        /\ cb' = [cb EXCEPT ![h] = next] /\ Running(h)
        /\ UNCHANGED <<state, code, relaxed>>
    BY <1>1, <1>3 DEF ReadPolicy, CallbackStates, Running, CallbackStages, CallbackTypeOK
  <2>2. SpentIsUsed' /\ state'[cb[h].on].is = "used"
    BY <1>1, <1>3, <2>1 DEF SpentIsUsed, ReadPolicy, PastMark
  <2>3. ~next.beside => Undisturbed(next, code', relaxed')
    BY <1>1, <1>3, <2>1 DEF Undisturbed, BeforeExchange, ReadPolicy
  <2>. HIDE DEF next
  <2>. QED
    BY <2>1, <2>2, <2>3, StepLeavesAlone
<1>4. CASE Relax(h)
  <2>. DEFINE next == [cb[h] EXCEPT !.at = "fetch"]
  <2>1. /\ next.on = cb[h].on /\ next.beside = cb[h].beside /\ next.at = "fetch"
        /\ cb' = [cb EXCEPT ![h] = next] /\ Running(h)
        /\ relaxed' = TRUE /\ UNCHANGED <<state, code>>
    BY <1>1, <1>4 DEF Relax, Goes, CallbackStates, Running, CallbackStages, CallbackTypeOK
  <2>2. SpentIsUsed' /\ state'[cb[h].on].is = "used"
    BY <1>1, <1>4, <2>1 DEF SpentIsUsed, Relax, PastMark
  <2>3. ~next.beside => Undisturbed(next, code', relaxed')
    BY <1>1, <1>4, <2>1 DEF Undisturbed, BeforeExchange, Relax
  <2>. HIDE DEF next
  <2>. QED
    BY <2>1, <2>2, <2>3, StepLeavesAlone
<1>5. ASSUME NEW broader \in BOOLEAN, FetchToken(h, broader) PROVE AloneInv'
  <2>. DEFINE good == code[cb[h].on] = "given" /\ (broader => relaxed)
              next == [cb[h] EXCEPT !.at = "restore", !.fetched = good]
  <2>1. /\ next.on = cb[h].on /\ next.beside = cb[h].beside /\ next.at = "restore"
        /\ next.fetched = good
        /\ cb' = [cb EXCEPT ![h] = next] /\ Running(h)
        /\ code' = [code EXCEPT ![cb[h].on] = "spent"] /\ UNCHANGED <<state, relaxed>>
        /\ cb[h].at = "fetch"
    BY <1>1, <1>5 DEF FetchToken, CallbackStates, Running, CallbackStages, CallbackTypeOK
  <2>2. state[cb[h].on].is = "used"
    BY <1>1, <2>1 DEF PastMark
  <2>3. SpentIsUsed'
    BY <1>1, <2>1, <2>2 DEF SpentIsUsed, CallbackTypeOK
  <2>4. ~next.beside => good
    BY <1>1, <2>1 DEF Undisturbed, BeforeExchange
  <2>. HIDE DEF next, good
  <2>5. ~next.beside => Undisturbed(next, code', relaxed')
    BY <2>1, <2>4 DEF Undisturbed, BeforeExchange
  <2>. QED
    BY <2>1, <2>2, <2>3, <2>5, StepLeavesAlone
<1>6. CASE RestorePolicy(h)
  <2>. DEFINE next == [cb[h] EXCEPT !.at = AfterFetch(h), !.previous = FALSE]
  <2>1. /\ next.on = cb[h].on /\ next.beside = cb[h].beside /\ next.failed = cb[h].failed
        /\ next.at = IF cb[h].fetched THEN "userinfo" ELSE "auth_error"
        /\ cb' = [cb EXCEPT ![h] = next] /\ Running(h)
        /\ UNCHANGED <<state, code>> /\ cb[h].at = "restore"
    BY <1>1, <1>6 DEF RestorePolicy, AfterFetch, CallbackStates, Running, CallbackStages, CallbackTypeOK
  <2>2. SpentIsUsed'
    BY <1>1, <2>1 DEF SpentIsUsed
  <2>. HIDE DEF next
  <2>3. ~next.beside => Undisturbed(next, code', relaxed')
    BY <1>1, <2>1 DEF Undisturbed, BeforeExchange
  <2>. QED
    BY <2>1, <2>2, <2>3, StepLeavesAlone DEF PastMark
<1>7. CASE UserInfo(h) \/ Persist(h) \/ CreateLoginTicket(h)
  <2>1. PICK at \in {"user", "quota", "tokens", "ticket", "ticket_given"} : cb' = [cb EXCEPT ![h].at = at]
    BY <1>7 DEF UserInfo, Persist, CreateLoginTicket, Goes, NextStage
  <2>. DEFINE next == [cb[h] EXCEPT !.at = at]
  <2>2. /\ next.on = cb[h].on /\ next.beside = cb[h].beside /\ next.at = at
        /\ cb' = [cb EXCEPT ![h] = next] /\ Running(h)
        /\ UNCHANGED <<state, code, relaxed>>
    BY <1>1, <1>7, <2>1
       DEF UserInfo, Persist, CreateLoginTicket, CallbackStates, Running, CallbackStages, CallbackTypeOK
  <2>3. SpentIsUsed'
    BY <1>1, <2>2 DEF SpentIsUsed
  <2>. HIDE DEF next
  <2>4. ~next.beside => Undisturbed(next, code', relaxed')
    BY <2>2 DEF Undisturbed, BeforeExchange
  <2>. QED
    BY <2>2, <2>3, <2>4, StepLeavesAlone DEF PastMark
<1>8. CASE Fails(h)
  <2>. DEFINE next == [cb[h] EXCEPT !.failed = TRUE, !.at = AfterFailure(cb[h].at)]
  <2>1. /\ next.on = cb[h].on /\ next.beside = cb[h].beside /\ next.failed = TRUE
        /\ next.at \in {"refused", "restore", "auth_error"}
        /\ cb' = [cb EXCEPT ![h] = next] /\ Running(h)
        /\ UNCHANGED <<state, code, relaxed>>
    BY <1>1, <1>8 DEF Fails, AfterFailure, CallbackStates, Running, CallbackStages, CallbackTypeOK
  <2>2. SpentIsUsed'
    BY <1>1, <2>1 DEF SpentIsUsed
  <2>. HIDE DEF next
  <2>3. ~next.beside => Undisturbed(next, code', relaxed')
    BY <2>1 DEF Undisturbed, BeforeExchange
  <2>. QED
    BY <2>1, <2>2, <2>3, StepLeavesAlone DEF PastMark
<1>. QED
  BY <1>2, <1>3, <1>4, <1>5, <1>6, <1>7, <1>8 DEF Stage

LEMMA NextKeepsAloneInv == AloneInv /\ [CallbackNext]_signInVars => AloneInv'
<1>. SUFFICES ASSUME AloneInv, [CallbackNext]_signInVars PROVE AloneInv'
  OBVIOUS
<1>1. CallbackInv'
  BY NextKeepsCallbackInv DEF AloneInv
<1>2. CASE UNCHANGED signInVars
  BY <1>1, <1>2 DEF AloneInv, SpentIsUsed, MarkedIsUsed, RunsAlone, Running, Undisturbed, signInVars
<1>. QED
  BY <1>1, <1>2, BrowserLeavesAlone, ArriveLeavesAlone, StageLeavesAlone DEF CallbackNext

\* A redirect that is answered alone fails only with a call that fails: whatever
\* sign-ins were before it, its code is unspent, and the variable that lets
\* Google grant more than was asked is set when the code is exchanged.
THEOREM NothingBlocks == CallbackSpec => []NothingBlocksTheNext
<1>1. AloneInv => NothingBlocksTheNext
  BY DEF AloneInv, Undisturbed, NothingBlocksTheNext
<1>. QED
  BY <1>1, InitAloneInv, NextKeepsAloneInv, PTL DEF CallbackSpec

-----------------------------------------------------------------------------
(****************************************************************************)
(* The settings of the weighting page (WeightingSettings), for any answers, *)
(* any tables of the sheet and any files: what a table is matched with does *)
(* not matter to what is remembered.                                        *)
(****************************************************************************)

Marks == {"none", "on", "off"}

SettingsTypeOK ==
  /\ box \in [Chosen -> Boxes]
  /\ draft.included \in [Chosen -> Marks]
  /\ clicked \in [Chosen -> Marks]
  /\ wish \in [Chosen -> Marks]

\* What the user asked for is where the next run looks for it: a click that was
\* not drawn yet in its box, an older one in the box, or, if its state is lost, in
\* the draft, and a file that fitted in the draft.
Remembered(q) ==
  /\ clicked[q] # "none" => box[q] = clicked[q]
  /\ wish[q] # "none" => draft.included[q] = wish[q]
  /\ wish[q] # "none" /\ clicked[q] = "none" => box[q] \in {wish[q], "gone"}
  /\ draft.saved[q] = accepted[q]

SettingsInv ==
  /\ SettingsTypeOK
  /\ \A q \in Chosen : Remembered(q)
  /\ SettingsAreKept

LEMMA InitSettingsInv == SettingsInit => SettingsInv
<1>. SUFFICES ASSUME SettingsInit PROVE SettingsInv
  OBVIOUS
<1>1. SettingsTypeOK
  BY DEF SettingsInit, SettingsTypeOK, Everywhere, Boxes, Marks
<1>2. \A q \in Chosen : Remembered(q)
  BY DEF SettingsInit, Remembered, Everywhere
<1>3. SettingsAreKept
  BY DEF SettingsInit, SettingsAreKept, TicksAreKept, FilesAreKept
<1>. QED
  BY <1>1, <1>2, <1>3 DEF SettingsInv

\* The questions that a run draws, and those among them that it weighs by.
DrawnBy(last) == {q \in Chosen : q <= last /\ Asked(q)}
HasPopulation(q, readable) == Population(q, readable) # NoPopulation
WeighedBy(last, readable) ==
  {q \in DrawnBy(last) : Drawn(q, HasPopulation(q, readable)) = "on" /\ HasPopulation(q, readable)}
LastWish(q) == IF clicked[q] # "none" THEN clicked[q] ELSE wish[q]

\* What a run does for a question that it draws.
LEMMA DrawnQuestion ==
  ASSUME NEW last, NEW whole \in BOOLEAN, NEW readable, DrawSettings(last, whole, readable),
         NEW q \in DrawnBy(last)
  PROVE  /\ box'[q] = Drawn(q, HasPopulation(q, readable))
         /\ draft'.included[q] = IF q \in WeighedBy(last, readable) THEN "on" ELSE "off"
         /\ draft'.saved[q] = Saved(q)
         /\ wish'[q] = IF LastWish(q) = "on" /\ ~HasPopulation(q, readable) THEN "none" ELSE LastWish(q)
         /\ clicked'[q] = "none"
         /\ accepted'[q] = IF FromFile(q) # NoPopulation THEN FromFile(q) ELSE accepted[q]
         /\ misfit'[q] = (chosen[q] # NoFile /\ FromFile(q) = NoPopulation)
  BY DEF DrawSettings, DrawnBy, HasPopulation, WeighedBy, LastWish

\* What it does for the others.
LEMMA OtherQuestion ==
  ASSUME NEW last, NEW whole \in BOOLEAN, NEW readable, DrawSettings(last, whole, readable),
         NEW q \in Chosen \ DrawnBy(last)
  PROVE  /\ box'[q] = IF whole THEN "gone" ELSE box[q]
         /\ draft'.included[q] = draft.included[q] /\ draft'.saved[q] = draft.saved[q]
         /\ wish'[q] = IF whole /\ wish[q] = "on" THEN "none" ELSE wish[q]
         /\ clicked'[q] = IF whole THEN "none" ELSE clicked[q]
         /\ accepted'[q] = accepted[q] /\ misfit'[q] = misfit[q]
  BY DEF DrawSettings, DrawnBy

\* The configuration that a run stores.
LEMMA StoredConfig ==
  ASSUME NEW last, NEW whole \in BOOLEAN, NEW readable, DrawSettings(last, whole, readable)
  PROVE  /\ settled' = whole
         /\ whole => /\ Dims' = WeighedBy(last, readable)
                     /\ \A q \in WeighedBy(last, readable) : config'[q] = Population(q, readable)
  BY DEF DrawSettings, Dims, DrawnBy, HasPopulation, WeighedBy

\* A box is drawn as the user wants it.
LEMMA BoxIsDrawnAsWished ==
  ASSUME SettingsTypeOK, NEW q \in Chosen, Remembered(q), LastWish(q) # "none", NEW found
  PROVE  Drawn(q, found) = LastWish(q)
<1>1. box[q] \in Boxes /\ clicked[q] \in Marks /\ wish[q] \in Marks
  BY DEF SettingsTypeOK
<1>. QED
  BY <1>1 DEF Remembered, LastWish, Drawn, Boxes, Marks

LEMMA DrawKeepsSettings ==
  ASSUME SettingsInv, NEW last, NEW whole \in BOOLEAN, NEW readable, DrawSettings(last, whole, readable)
  PROVE  SettingsInv'
<1>1. SettingsTypeOK /\ \A q \in Chosen : Remembered(q)
  BY DEF SettingsInv
<1>2. ASSUME NEW q \in DrawnBy(last)
      PROVE  /\ Remembered(q)' /\ wish'[q] \in Marks
             /\ box'[q] \in Boxes /\ draft'.included[q] \in Marks
             /\ wish'[q] = "on" => q \in WeighedBy(last, readable)
             /\ wish'[q] = "off" => q \notin WeighedBy(last, readable)
  <2>. DEFINE found == HasPopulation(q, readable)
  <2>1. q \in Chosen /\ Remembered(q)
    BY <1>1 DEF DrawnBy
  <2>2. Drawn(q, found) \in {"on", "off"}
    BY <1>1, <2>1 DEF SettingsTypeOK, Drawn, Boxes, Marks
  <2>3. LastWish(q) \in Marks
    BY <1>1, <2>1 DEF SettingsTypeOK, LastWish
  <2>4. LastWish(q) # "none" => Drawn(q, found) = LastWish(q)
    BY <1>1, <2>1, BoxIsDrawnAsWished
  <2>5. q \in WeighedBy(last, readable) <=> Drawn(q, found) = "on" /\ found
    BY DEF WeighedBy
  <2>6. draft'.saved[q] = accepted'[q]
    BY <2>1, DrawnQuestion DEF Remembered, Saved
  <2>. HIDE DEF found
  <2>7. /\ box'[q] = Drawn(q, found) /\ clicked'[q] = "none"
        /\ draft'.included[q] = IF q \in WeighedBy(last, readable) THEN "on" ELSE "off"
        /\ wish'[q] = IF LastWish(q) = "on" /\ ~found THEN "none" ELSE LastWish(q)
    BY DrawnQuestion DEF found
  <2>. QED
    BY <2>2, <2>3, <2>4, <2>5, <2>6, <2>7 DEF Remembered, Boxes, Marks
<1>3. ASSUME NEW q \in Chosen \ DrawnBy(last)
      PROVE  /\ Remembered(q)' /\ wish'[q] \in Marks
             /\ box'[q] \in Boxes /\ draft'.included[q] \in Marks
             /\ whole => wish'[q] # "on"
  <2>1. /\ Remembered(q) /\ wish[q] \in Marks /\ box[q] \in Boxes /\ draft.included[q] \in Marks
    BY <1>1 DEF SettingsTypeOK
  <2>. QED
    BY <2>1, OtherQuestion DEF Remembered, Boxes, Marks
<1>4. \A q \in Chosen : Remembered(q)' /\ wish'[q] \in Marks /\ box'[q] \in Boxes /\ draft'.included[q] \in Marks
  BY <1>2, <1>3
<1>5. SettingsTypeOK'
  <2>1. /\ DOMAIN box' = Chosen /\ DOMAIN draft'.included = Chosen
        /\ DOMAIN wish' = Chosen /\ clicked' \in [Chosen -> Marks]
        /\ box' = [q \in Chosen |-> box'[q]] /\ draft'.included = [q \in Chosen |-> draft'.included[q]]
        /\ wish' = [q \in Chosen |-> wish'[q]]
    BY <1>1 DEF DrawSettings, SettingsTypeOK, Marks
  <2>. QED
    BY <1>4, <2>1 DEF SettingsTypeOK
<1>6. ASSUME whole PROVE SettingsAreKept'
  <2>1. Dims' = WeighedBy(last, readable)
    BY <1>6, StoredConfig
  <2>2. TicksAreKept'
    <3>1. \A q \in Chosen \ DrawnBy(last) : q \notin WeighedBy(last, readable)
      BY DEF WeighedBy
    <3>2. \A q \in Chosen : /\ wish'[q] = "off" => q \notin Dims'
                            /\ wish'[q] = "on" => q \in Dims'
      BY <1>2, <1>3, <1>6, <2>1, <3>1
    <3>. QED
      BY <3>2 DEF TicksAreKept
  <2>3. FilesAreKept'
    <3>. SUFFICES ASSUME NEW q \in WeighedBy(last, readable), accepted'[q] # NoPopulation, ~misfit'[q]
                  PROVE  config'[q] = accepted'[q]
      BY <2>1 DEF FilesAreKept
    <3>1. q \in DrawnBy(last) /\ q \in Chosen
      BY DEF WeighedBy, DrawnBy
    <3>2. config'[q] = Population(q, readable)
      BY <1>6, StoredConfig
    <3>3. /\ accepted'[q] = IF FromFile(q) # NoPopulation THEN FromFile(q) ELSE accepted[q]
          /\ misfit'[q] = (chosen[q] # NoFile /\ FromFile(q) = NoPopulation)
      BY <3>1, DrawnQuestion
    <3>4. draft.saved[q] = accepted[q]
      BY <1>1, <3>1 DEF Remembered
    <3>. QED
      BY <3>2, <3>3, <3>4 DEF Population
  <2>. QED
    BY <2>2, <2>3 DEF SettingsAreKept
<1>7. ASSUME ~whole PROVE SettingsAreKept'
  BY <1>7, StoredConfig DEF SettingsAreKept, TicksAreKept, FilesAreKept
<1>. QED
  BY <1>4, <1>5, <1>6, <1>7 DEF SettingsInv

LEMMA NextSettingsInv == SettingsInv /\ [SettingsNext]_settingsVars => SettingsInv'
<1>. SUFFICES ASSUME SettingsInv, [SettingsNext]_settingsVars PROVE SettingsInv'
  OBVIOUS
<1>1. SettingsTypeOK /\ (\A q \in Chosen : Remembered(q)) /\ SettingsAreKept
  BY DEF SettingsInv
<1>2. ASSUME UNCHANGED <<draft, config, wish, accepted, misfit, settled>>,
             SettingsTypeOK', \A q \in Chosen : Remembered(q)'
      PROVE  SettingsInv'
  BY <1>1, <1>2 DEF SettingsInv, SettingsAreKept, TicksAreKept, FilesAreKept, Dims
<1>3. ASSUME NEW last, NEW whole \in BOOLEAN, NEW readable, DrawSettings(last, whole, readable)
      PROVE  SettingsInv'
  BY <1>3, DrawKeepsSettings
<1>4. ASSUME NEW lost \in BOOLEAN, DrawResults(lost) PROVE SettingsInv'
  <2>1. UNCHANGED <<draft, config, wish, accepted, misfit, settled>>
    BY <1>4 DEF DrawResults
  <2>2. \/ box' = Everywhere("gone") /\ clicked' = Everywhere("none")
        \/ UNCHANGED <<box, clicked>>
    BY <1>4 DEF DrawResults
  <2>3. SettingsTypeOK'
    BY <1>1, <2>1, <2>2 DEF SettingsTypeOK, Everywhere, Boxes, Marks
  <2>4. \A q \in Chosen : Remembered(q)'
    BY <1>1, <2>1, <2>2 DEF Remembered, Everywhere
  <2>. QED
    BY <1>2, <2>1, <2>3, <2>4
<1>5. ASSUME NEW q \in Chosen, Click(q) PROVE SettingsInv'
  <2>. DEFINE new == IF box[q] = "on" THEN "off" ELSE "on"
  <2>1. /\ UNCHANGED <<draft, config, wish, accepted, misfit, settled>>
        /\ box' = [box EXCEPT ![q] = new] /\ clicked' = [clicked EXCEPT ![q] = new]
    BY <1>5 DEF Click
  <2>2. new \in {"on", "off"}
    OBVIOUS
  <2>. HIDE DEF new
  <2>3. SettingsTypeOK'
    BY <1>1, <2>1, <2>2 DEF SettingsTypeOK, Boxes, Marks
  <2>4. \A r \in Chosen : Remembered(r)'
    BY <1>1, <2>1, <2>2 DEF SettingsTypeOK, Remembered
  <2>. QED
    BY <1>2, <2>1, <2>3, <2>4
<1>6. ASSUME UNCHANGED <<box, draft, config, clicked, wish, accepted, misfit, settled>>
      PROVE  SettingsInv'
  BY <1>1, <1>2, <1>6 DEF SettingsTypeOK, Remembered
<1>7. ASSUME NEW q \in WithFiles, NEW file, ChooseFile(q, file) PROVE SettingsInv'
  BY <1>6, <1>7 DEF ChooseFile
<1>8. ASSUME NEW m, SwitchMode(m) PROVE SettingsInv'
  BY <1>6, <1>8 DEF SwitchMode
<1>9. CASE Arrive \/ UNCHANGED settingsVars
  BY <1>6, <1>9 DEF Arrive, settingsVars
<1>. QED
  BY <1>3, <1>4, <1>5, <1>7, <1>8, <1>9 DEF SettingsNext

\* In every reachable state what the user asked for on the weighting page is where
\* the next run of it looks, whichever runs were cut short and whichever boxes
\* were lost (ui/pages/weighting.py).
THEOREM SettingsInvariance == SettingsSpec => []SettingsInv
  BY InitSettingsInv, NextSettingsInv, PTL DEF SettingsSpec

\* Ticks and files are never forgotten: once a run with the settings has reached
\* its end, the configuration that the other pages weigh by leaves out what was
\* cleared, has what was ticked, and weighs by the file that fitted
\* (ui/pages/weighting.py).
THEOREM SettingsAreKeptHolds == SettingsSpec => []SettingsAreKept
<1>1. SettingsInv => SettingsAreKept
  BY DEF SettingsInv
<1>. QED
  BY <1>1, SettingsInvariance, PTL

-----------------------------------------------------------------------------
(****************************************************************************)
(* The grants of a user (GoogleGrants), for any number of sign-ins and      *)
(* requests and any scopes.  What a request has read is out of date as soon *)
(* as it is read, so nothing is said of how it compares with the record; it *)
(* is enough that a grant never changes its scopes once it is given, and    *)
(* never comes back once it is revoked.                                     *)
(****************************************************************************)

\* A grant exists from the consent of its sign-in on.
GivenBySignIns == \A s \in SignIns : signIn[s] = "new" <=> grants[s].state = "none"

\* An account document, stored or read, is backed by a grant that was given.
Backed(account) ==
  /\ account \in Records
  /\ grants[account.grant].state # "none"
  /\ account.scopes \subseteq grants[account.grant].scopes

RecordIsBacked == record # NoRecord => Backed(record)
AccountsAreBacked == \A r \in Requests : credentials[r].at # "new" => Backed(credentials[r].account)

\* Whoever is about to drop the record has read one whose grant is revoked.
DropsAreRevoked ==
  \A r \in Requests : credentials[r].at = "drop" => grants[credentials[r].account.grant].state = "revoked"

GrantsInv ==
  /\ GrantTypeOK
  /\ GivenBySignIns
  /\ RecordIsBacked
  /\ AccountsAreBacked
  /\ DropsAreRevoked

-----------------------------------------------------------------------------

LEMMA InitGrantsInv == GrantInit => GrantsInv
<1>. SUFFICES ASSUME GrantInit PROVE GrantsInv
  OBVIOUS
<1>1. GrantTypeOK
  BY DEF GrantInit, GrantTypeOK, Grants, Steps
<1>2. GivenBySignIns /\ RecordIsBacked /\ AccountsAreBacked /\ DropsAreRevoked
  BY DEF GrantInit, GivenBySignIns, RecordIsBacked, AccountsAreBacked, DropsAreRevoked
<1>. QED
  BY <1>1, <1>2 DEF GrantsInv

\* What a step of Google may do to the grants: give a new one, or revoke one.
GrantsGrow ==
  \A s \in SignIns : grants[s].state # "none" =>
    /\ grants'[s].scopes = grants[s].scopes
    /\ grants'[s].state # "none"
    /\ grants[s].state = "revoked" => grants'[s].state = "revoked"

LEMMA BackedStays ==
  ASSUME GrantsGrow, NEW account, Backed(account)
  PROVE  Backed(account)'
BY DEF GrantsGrow, Backed, Records

\* A step that leaves the requests and the record alone keeps what is said of them.
LEMMA GrowingKeeps ==
  ASSUME GrantsInv, GrantsGrow, UNCHANGED credentials
  PROVE  AccountsAreBacked' /\ DropsAreRevoked' /\ (UNCHANGED record => RecordIsBacked')
<1>1. AccountsAreBacked'
  <2>. SUFFICES ASSUME NEW r \in Requests, credentials[r].at # "new"
                PROVE  Backed(credentials[r].account)'
    BY DEF AccountsAreBacked
  <2>1. Backed(credentials[r].account)
    BY DEF GrantsInv, AccountsAreBacked
  <2>. QED
    BY <2>1 DEF GrantsGrow, Backed, Records
<1>2. DropsAreRevoked'
  <2>. SUFFICES ASSUME NEW r \in Requests, credentials[r].at = "drop"
                PROVE  grants'[credentials[r].account.grant].state = "revoked"
    BY DEF DropsAreRevoked
  <2>1. Backed(credentials[r].account) /\ grants[credentials[r].account.grant].state = "revoked"
    BY DEF GrantsInv, AccountsAreBacked, DropsAreRevoked
  <2>. QED
    BY <2>1 DEF GrantsGrow, Backed, Records
<1>3. UNCHANGED record => RecordIsBacked'
  BY DEF GrantsInv, RecordIsBacked, GrantsGrow, Backed, Records
<1>. QED
  BY <1>1, <1>2, <1>3

-----------------------------------------------------------------------------
(* Google and the callback.                                                 *)

LEMMA GoogleKeeps ==
  ASSUME GrantsInv, GoogleStep
  PROVE  GrantsInv'
<1>1. CASE Expire
  <2>1. GrantsGrow
    BY <1>1 DEF Expire, GrantsGrow
  <2>2. record' \in Records /\ record'.grant = record.grant /\ record'.scopes = record.scopes
    BY <1>1 DEF GrantsInv, GrantTypeOK, Expire, Records
  <2>3. RecordIsBacked'
    BY <1>1, <2>2 DEF GrantsInv, RecordIsBacked, Backed, Expire
  <2>4. GrantTypeOK' /\ GivenBySignIns'
    BY <1>1, <2>2 DEF GrantsInv, GrantTypeOK, GivenBySignIns, Expire
  <2>. QED
    BY <1>1, <2>1, <2>3, <2>4, GrowingKeeps DEF GrantsInv, Expire
<1>2. ASSUME NEW s \in SignIns, Revoke(s) PROVE GrantsInv'
  <2>1. GrantsGrow
    BY <1>2 DEF Revoke, GrantsGrow, GrantsInv, GrantTypeOK, Grants
  <2>2. GrantTypeOK' /\ GivenBySignIns'
    BY <1>2 DEF GrantsInv, GrantTypeOK, GivenBySignIns, Revoke, Grants
  <2>. QED
    BY <1>2, <2>1, <2>2, GrowingKeeps DEF GrantsInv, Revoke
<1>3. ASSUME NEW s \in SignIns, NEW scopes \in SUBSET Scopes, Consent(s, scopes) PROVE GrantsInv'
  <2>1. grants[s].state = "none"
    BY <1>3 DEF Consent, GrantsInv, GivenBySignIns
  <2>2. GrantsGrow
    BY <1>3, <2>1 DEF Consent, GrantsGrow, GrantsInv, GrantTypeOK
  <2>3. GrantTypeOK' /\ GivenBySignIns'
    BY <1>3 DEF GrantsInv, GrantTypeOK, GivenBySignIns, Consent, Grants
  <2>. QED
    BY <1>3, <2>2, <2>3, GrowingKeeps DEF GrantsInv, Consent
<1>. QED
  BY <1>1, <1>2, <1>3 DEF GoogleStep

LEMMA CallbackKeeps ==
  ASSUME GrantsInv, NEW s \in SignIns, CallbackStep(s)
  PROVE  GrantsInv'
<1>1. GrantsGrow
  BY DEF CallbackStep, SaveTokens, CallbackFails, GrantsGrow
<1>2. GivenBySignIns'
  BY DEF CallbackStep, SaveTokens, CallbackFails, GrantsInv, GivenBySignIns, GrantTypeOK
<1>3. CASE SaveTokens(s)
  <2>1. grants[s].scopes \in SUBSET Scopes /\ grants[s].state # "none"
    BY <1>3 DEF GrantsInv, GrantTypeOK, Grants, GivenBySignIns, SaveTokens
  <2>2. record' \in Records
    BY <1>3, <2>1 DEF SaveTokens, Records
  <2>3. RecordIsBacked'
    BY <1>3, <2>1, <2>2 DEF SaveTokens, RecordIsBacked, Backed
  <2>4. GrantTypeOK'
    BY <1>3, <2>2 DEF GrantsInv, GrantTypeOK, SaveTokens
  <2>. QED
    BY <1>1, <1>2, <1>3, <2>3, <2>4, GrowingKeeps DEF GrantsInv, SaveTokens
<1>4. CASE CallbackFails(s)
  <2>1. GrantTypeOK'
    BY <1>4 DEF GrantsInv, GrantTypeOK, CallbackFails
  <2>. QED
    BY <1>1, <1>2, <1>4, <2>1, GrowingKeeps DEF GrantsInv, CallbackFails
<1>. QED
  BY <1>3, <1>4 DEF CallbackStep

-----------------------------------------------------------------------------
(* A request.                                                               *)

\* A request that only moves keeps the invariant when it may stand where it goes.
LEMMA MovingKeeps ==
  ASSUME GrantsInv, NEW r \in Requests, NEW at \in Steps, NEW account \in Records \cup {NoRecord},
         credentials' = [credentials EXCEPT ![r] = [at |-> at, account |-> account]],
         UNCHANGED <<grants, record, signIn>>,
         at # "new" => Backed(account),
         at = "drop" => grants[account.grant].state = "revoked"
  PROVE  GrantsInv'
<1>1. GrantTypeOK'
  BY DEF GrantsInv, GrantTypeOK
<1>2. GivenBySignIns' /\ RecordIsBacked'
  BY DEF GrantsInv, GivenBySignIns, RecordIsBacked, Backed
<1>3. \A q \in Requests :
        credentials'[q] = IF q = r THEN [at |-> at, account |-> account] ELSE credentials[q]
  BY DEF GrantsInv, GrantTypeOK
<1>4. AccountsAreBacked'
  BY <1>3 DEF GrantsInv, AccountsAreBacked, Backed
<1>5. DropsAreRevoked'
  BY <1>3 DEF GrantsInv, DropsAreRevoked
<1>. QED
  BY <1>1, <1>2, <1>4, <1>5 DEF GrantsInv

\* The account stays with the request that goes on, and is forgotten at its end.
LEMMA GoingKeeps ==
  ASSUME GrantsInv, NEW r \in Requests, NEW at \in Steps, credentials[r].at # "new",
         Go(r, at) \/ End(r), UNCHANGED <<grants, record, signIn>>,
         at = "drop" => ~Honoured(r)
  PROVE  GrantsInv'
<1>. DEFINE account == credentials[r].account
<1>1. Backed(account) /\ account \in Records \cup {NoRecord}
      /\ credentials[r] = [at |-> credentials[r].at, account |-> account]
  BY DEF GrantsInv, AccountsAreBacked, GrantTypeOK
<1>2. CASE Go(r, at)
  <2>1. credentials' = [credentials EXCEPT ![r] = [at |-> at, account |-> account]]
    <3>1. credentials' = [credentials EXCEPT ![r] = [credentials[r] EXCEPT !.at = at]]
      BY <1>2 DEF Go
    <3>2. [credentials[r] EXCEPT !.at = at] = [at |-> at, account |-> account]
      BY <1>1
    <3>. QED
      BY <3>1, <3>2
  <2>2. at = "drop" => grants[account.grant].state = "revoked"
    BY <1>1 DEF Honoured, Backed, GrantsInv, GrantTypeOK, Grants, Records
  <2>. HIDE DEF account
  <2>. QED
    BY <1>1, <2>1, <2>2, MovingKeeps
<1>3. CASE End(r)
  BY <1>3, MovingKeeps DEF End, Steps
<1>. QED
  BY <1>2, <1>3

\* A request that writes the record: what it stores is backed, or nothing.
LEMMA WritingKeeps ==
  ASSUME GrantsInv, NEW r \in Requests, SaveRefreshed(r) \/ DropRecord(r)
  PROVE  GrantsInv'
<1>. DEFINE account == credentials[r].account
<1>1. Backed(account) /\ credentials[r].at \in {"save", "drop"}
  BY DEF GrantsInv, AccountsAreBacked, SaveRefreshed, DropRecord
<1>2. GrantsGrow /\ GivenBySignIns' /\ UNCHANGED <<grants, signIn>>
  BY DEF SaveRefreshed, DropRecord, GrantsGrow, GrantsInv, GivenBySignIns
<1>3. /\ record' \in Records \cup {NoRecord}
      /\ record' # NoRecord => record'.grant = account.grant /\ record'.scopes = account.scopes
  BY <1>1 DEF SaveRefreshed, DropRecord, Backed, Records
<1>4. RecordIsBacked'
  <2>. SUFFICES ASSUME record' # NoRecord PROVE Backed(record)'
    BY DEF RecordIsBacked
  <2>. QED
    BY <1>1, <1>2, <1>3 DEF Backed
<1>5. \A q \in Requests : q # r => credentials'[q] = credentials[q]
  BY DEF GrantsInv, GrantTypeOK, SaveRefreshed, DropRecord, Go, End
<1>6. credentials'[r].at \in {"new", "call"} /\ (credentials'[r].at # "new" => credentials'[r].account = account)
  BY DEF GrantsInv, GrantTypeOK, SaveRefreshed, DropRecord, Go, End
<1>7. GrantTypeOK'
  <2>1. credentials' \in [Requests -> [at : Steps, account : Records \cup {NoRecord}]]
    BY DEF GrantsInv, GrantTypeOK, SaveRefreshed, DropRecord, Go, End, Steps
  <2>. QED
    BY <1>2, <1>3, <2>1 DEF GrantsInv, GrantTypeOK
<1>8. AccountsAreBacked'
  <2>. SUFFICES ASSUME NEW q \in Requests, credentials'[q].at # "new"
                PROVE  Backed(credentials[q].account)'
    BY DEF AccountsAreBacked
  <2>1. Backed(credentials'[q].account)
    BY <1>1, <1>5, <1>6 DEF GrantsInv, AccountsAreBacked
  <2>. QED
    BY <1>2, <2>1 DEF Backed
<1>9. DropsAreRevoked'
  <2>. SUFFICES ASSUME NEW q \in Requests, credentials'[q].at = "drop"
                PROVE  grants'[credentials'[q].account.grant].state = "revoked"
    BY DEF DropsAreRevoked
  <2>1. q # r
    BY <1>6
  <2>. QED
    BY <1>2, <1>5, <2>1 DEF GrantsInv, DropsAreRevoked
<1>. QED
  BY <1>2, <1>4, <1>7, <1>8, <1>9 DEF GrantsInv

LEMMA RequestKeeps ==
  ASSUME GrantsInv, NEW r \in Requests, CredentialsStep(r)
  PROVE  GrantsInv'
<1>1. ASSUME NEW required, Build(r, required) PROVE GrantsInv'
  <2>1. Backed(record) /\ record \in Records
    BY <1>1 DEF Build, GrantsInv, RecordIsBacked, Backed
  <2>2. CASE record.fresh
    BY <1>1, <2>1, <2>2, MovingKeeps DEF Build, Steps
  <2>3. CASE ~record.fresh
    BY <1>1, <2>1, <2>3, MovingKeeps DEF Build, Steps
  <2>. QED
    BY <2>2, <2>3
<1>2. CASE CallEnds(r) \/ CallRefreshes(r) \/ RefreshFails(r)
  <2>1. credentials[r].at # "new" /\ (Go(r, "refresh") \/ End(r)) /\ UNCHANGED <<grants, record, signIn>>
    BY <1>2 DEF CallEnds, CallRefreshes, RefreshFails
  <2>. QED
    BY <2>1, GoingKeeps DEF Steps
<1>3. CASE RefreshAnswers(r)
  <2>1. credentials[r].at # "new" /\ UNCHANGED <<grants, record, signIn>>
    BY <1>3 DEF RefreshAnswers
  <2>2. CASE Honoured(r)
    BY <1>3, <2>1, <2>2, GoingKeeps DEF RefreshAnswers, Steps
  <2>3. CASE ~Honoured(r)
    BY <1>3, <2>1, <2>3, GoingKeeps DEF RefreshAnswers, Steps
  <2>. QED
    BY <2>2, <2>3
<1>4. CASE SaveRefreshed(r) \/ DropRecord(r)
  BY <1>4, WritingKeeps
<1>. QED
  BY <1>1, <1>2, <1>3, <1>4 DEF CredentialsStep, Asks

-----------------------------------------------------------------------------

\* The strengthened invariant holds in every reachable state.
THEOREM GrantsInvariance == GrantSpec => []GrantsInv
<1>1. GrantInit => GrantsInv
  BY InitGrantsInv
<1>2. GrantsInv /\ [GrantNext]_grantVars => GrantsInv'
  <2>. SUFFICES ASSUME GrantsInv, [GrantNext]_grantVars PROVE GrantsInv'
    OBVIOUS
  <2>1. CASE GrantNext
    BY <2>1, GoogleKeeps, CallbackKeeps, RequestKeeps DEF GrantNext
  <2>2. CASE UNCHANGED grantVars
    BY <2>2 DEF grantVars, GrantsInv, GrantTypeOK, GivenBySignIns, RecordIsBacked, AccountsAreBacked,
                DropsAreRevoked, Backed
  <2>. QED
    BY <2>1, <2>2
<1>. QED
  BY <1>1, <1>2, PTL DEF GrantSpec

\* Every variable keeps its type.
THEOREM GrantsTypeCorrect == GrantSpec => []GrantTypeOK
BY GrantsInvariance, PTL DEF GrantsInv

\* The stored record never claims a scope that its tokens were not granted.
THEOREM ClaimsNoMore == GrantSpec => []RecordClaimsNoMore
<1>1. GrantsInv => RecordClaimsNoMore
  BY DEF GrantsInv, RecordIsBacked, Backed, RecordClaimsNoMore
<1>. QED
  BY <1>1, GrantsInvariance, PTL

\* No failure but a revoked grant makes a user lose the record.
THEOREM OutagesKeep == GrantSpec => KeptWhileHonoured
<1>1. GrantsInv /\ [GrantNext]_grantVars =>
        [record # NoRecord /\ (\A s \in SignIns : grants[s].state # "revoked")
           => record' # NoRecord]_grantVars
  <2>. SUFFICES ASSUME GrantsInv, GrantNext, record # NoRecord,
                       \A s \in SignIns : grants[s].state # "revoked"
                PROVE  record' # NoRecord
    BY DEF grantVars
  <2>1. CASE GoogleStep
    BY <2>1, RecordAssumption DEF GoogleStep, Expire, Revoke, Consent, GrantsInv, GrantTypeOK, Records
  <2>2. ASSUME NEW s \in SignIns, CallbackStep(s) PROVE record' # NoRecord
    <3>1. [grant |-> s, scopes |-> grants[s].scopes, fresh |-> TRUE] \in Records
      BY DEF GrantsInv, GrantTypeOK, Grants, Records
    <3>. QED
      BY <2>2, <3>1, RecordAssumption DEF CallbackStep, SaveTokens, CallbackFails, Records
  <2>3. ASSUME NEW r \in Requests, CredentialsStep(r) PROVE record' # NoRecord
    <3>1. ~DropRecord(r)
      BY DEF DropRecord, GrantsInv, AccountsAreBacked, DropsAreRevoked, Backed, Records
    <3>2. SaveRefreshed(r) => record' # NoRecord
      <4>. SUFFICES ASSUME SaveRefreshed(r) PROVE record' # NoRecord
        OBVIOUS
      <4>1. credentials[r].account \in Records
        BY DEF SaveRefreshed, GrantsInv, AccountsAreBacked, Backed
      <4>. QED
        BY <4>1, RecordAssumption DEF SaveRefreshed, Records
    <3>. QED
      BY <2>3, <3>1, <3>2 DEF CredentialsStep, Asks, Build, CallEnds, CallRefreshes,
                              RefreshAnswers, RefreshFails
  <2>. QED
    BY <2>1, <2>2, <2>3 DEF GrantNext
<1>. QED
  BY <1>1, GrantsInvariance, PTL DEF GrantSpec, KeptWhileHonoured
=============================================================================
