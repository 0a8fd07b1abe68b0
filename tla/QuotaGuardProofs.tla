-------------------------- MODULE QuotaGuardProofs --------------------------
(***************************************************************************)
(* RateLimited and PlacesAreSpread for any number of users, forms and      *)
(* threads, any limit and any window.  The guard only keeps the calls      *)
(* still in the window, so the invariant of the first relates its queue to *)
(* the history: the queue is the last part of the history, each time       *)
(* recorded at most MaxStall before the call was admitted, and what left   *)
(* the queue is at least Window - MaxStall old.  That of the second says   *)
(* where a slot comes from: the end of a counted call or of a promise.     *)
(***************************************************************************)
EXTENDS QuotaGuard, FiniteSetTheorems, TLAPS

\* queue: the calls the guard counts; history: when they all were admitted.
EndsHistory(queue, history, time) ==
  LET gone == Len(history) - Len(queue) IN
  /\ Len(queue) <= Limit
  /\ Len(queue) <= Len(history)
  /\ \A i \in 1..Len(queue) :
       queue[i] <= history[gone + i] /\ history[gone + i] <= queue[i] + MaxStall
  /\ \A i \in 1..gone : history[i] + Window <= time + MaxStall

SpreadOut(history) ==
  \A i \in 1..(Len(history) - Limit) : history[i + Limit] - history[i] >= Window - MaxStall

StallBounded ==
  \A t \in Threads : thread[t] # Idle =>
    thread[t].now <= clock /\ clock <= thread[t].now + MaxStall

IInv ==
  /\ TypeOK
  /\ StallBounded
  /\ \A u \in Users : EndsHistory(calls[u], admitted[u], clock)
  /\ \A u \in Users : SpreadOut(admitted[u])

-----------------------------------------------------------------------------
(* The loops of acquire_or_wait.                                            *)

\* Dropping a leading part of a queue moves the rest to the front.
LEMMA WithoutProperties ==
  ASSUME NEW S, NEW queue \in Seq(S), NEW n \in 0..Len(queue)
  PROVE  /\ Without(queue, n) \in Seq(S)
         /\ Len(Without(queue, n)) = Len(queue) - n
         /\ \A i \in 1..(Len(queue) - n) : Without(queue, n)[i] = queue[n + i]
<1>1. n + 1 \in 1..(Len(queue) + 1) /\ Len(queue) \in Nat
  OBVIOUS
<1>2. Without(queue, n) \in Seq(S) /\ Len(Without(queue, n)) = Len(queue) - n
  BY <1>1 DEF Without
<1>3. ASSUME NEW i \in 1..(Len(queue) - n)
      PROVE  Without(queue, n)[i] = queue[n + i]
  BY <1>1, <1>3 DEF Without
<1>. QED
  BY <1>2, <1>3

\* A refused call is always told a time: the queue of promises is long enough.
LEMMA FreesAtIsATime ==
  ASSUME NEW counted \in Seq(Nat), NEW told \in Seq(Nat), Len(counted) >= Limit
  PROVE  FreesAt(counted, told) \in Nat
<1>1. Limit \in Nat /\ Limit >= 1 /\ Window \in Nat
  BY LimitAssumption
<1>2. CASE Len(told) < Len(counted)
  <2>1. counted[Len(told) + 1] \in Nat
    BY <1>2
  <2>. QED
    BY <1>1, <1>2, <2>1 DEF FreesAt
<1>3. CASE ~(Len(told) < Len(counted))
  <2>1. Len(told) - Len(counted) + 1 \in 1..Len(told)
    BY <1>1, <1>3
  <2>2. told[Len(told) - Len(counted) + 1] \in Nat
    BY <2>1
  <2>. QED
    BY <1>1, <1>3, <2>2 DEF FreesAt
<1>. QED
  BY <1>2, <1>3

-----------------------------------------------------------------------------
(* The queue and the history.                                               *)

\* The relation survives the passing of time.
LEMMA EndsHistoryLater ==
  ASSUME NEW queue \in Seq(Nat), NEW history \in Seq(Nat), NEW time \in Nat,
         EndsHistory(queue, history, time)
  PROVE  EndsHistory(queue, history, time + 1)
<1>1. MaxStall \in Nat /\ Window \in Nat
  BY LimitAssumption, ClockAssumption
<1>2. ASSUME NEW i \in 1..(Len(history) - Len(queue))
      PROVE  history[i] + Window <= time + 1 + MaxStall
  <2>1. Len(queue) <= Len(history) /\ Len(queue) \in Nat /\ Len(history) \in Nat
    BY DEF EndsHistory
  <2>2. history[i] \in Nat /\ history[i] + Window <= time + MaxStall
    BY <1>2, <2>1 DEF EndsHistory
  <2>. QED
    BY <1>1, <2>2
<1>. QED
  BY <1>2 DEF EndsHistory

\* The loop that drops the calls out of the window drops old ones only.
LEMMA EndsHistoryDropped ==
  ASSUME NEW queue \in Seq(Nat), NEW history \in Seq(Nat), NEW time \in Nat,
         NEW now \in Nat, now <= time, NEW n \in 0..Len(queue),
         LeadingUpTo(queue, now - Window, n),
         EndsHistory(queue, history, time)
  PROVE  EndsHistory(Without(queue, n), history, time)
<1>. DEFINE rest == Without(queue, n)
            gone == Len(history) - Len(queue)
<1>1. MaxStall \in Nat /\ Window \in Nat /\ Limit \in Nat
  BY LimitAssumption, ClockAssumption
<1>2. /\ rest \in Seq(Nat) /\ Len(rest) = Len(queue) - n
      /\ \A i \in 1..(Len(queue) - n) : rest[i] = queue[n + i]
  BY WithoutProperties
<1>3. /\ Len(queue) <= Limit /\ Len(queue) <= Len(history)
      /\ Len(queue) \in Nat /\ Len(history) \in Nat /\ gone \in Nat
  BY DEF EndsHistory
<1>4. Len(history) - Len(rest) = gone + n
  BY <1>2, <1>3
<1>5. ASSUME NEW i \in 1..Len(rest)
      PROVE  rest[i] <= history[gone + n + i] /\ history[gone + n + i] <= rest[i] + MaxStall
  <2>1. i \in 1..(Len(queue) - n) /\ n + i \in 1..Len(queue)
    BY <1>2, <1>3, <1>5
  <2>2. queue[n + i] <= history[gone + (n + i)] /\ history[gone + (n + i)] <= queue[n + i] + MaxStall
    BY <2>1 DEF EndsHistory
  <2>3. gone + (n + i) = gone + n + i
    BY <1>3
  <2>4. rest[i] = queue[n + i]
    BY <1>2, <2>1
  <2>. QED
    BY <2>2, <2>3, <2>4
<1>old. ASSUME NEW h \in Nat, NEW q \in Nat, h <= q + MaxStall, q <= now - Window
        PROVE  h + Window <= time + MaxStall
  BY <1>1, <1>old
<1>6. ASSUME NEW i \in 1..(gone + n)
      PROVE  history[i] + Window <= time + MaxStall
  <2>1. CASE i <= gone
    BY <1>3, <2>1 DEF EndsHistory
  <2>2. CASE i > gone
    <3>1. PICK k \in 1..n : i = gone + k
      <4>1. i - gone \in 1..n /\ i = gone + (i - gone)
        BY <1>3, <1>6, <2>2
      <4>. QED
        BY <4>1
    <3>2. k \in 1..Len(queue) /\ i \in 1..Len(history)
      BY <1>3, <3>1
    <3>3. history[i] <= queue[k] + MaxStall
      BY <3>1, <3>2 DEF EndsHistory
    <3>4. queue[k] <= now - Window
      BY <3>1 DEF LeadingUpTo
    <3>5. history[i] \in Nat /\ queue[k] \in Nat
      BY <3>2
    <3>. QED
      BY <1>old, <3>3, <3>4, <3>5
  <2>. QED
    BY <1>3, <2>1, <2>2
<1>. HIDE DEF rest, gone
<1>7. Len(rest) <= Limit /\ Len(rest) <= Len(history)
  BY <1>1, <1>2, <1>3
<1>. QED
  BY <1>4, <1>5, <1>6, <1>7 DEF EndsHistory, rest

\* A call admitted while the queue has room is counted, and the call Limit
\* places before it in the history has left the window.
LEMMA EndsHistoryAdmitted ==
  ASSUME NEW queue \in Seq(Nat), NEW history \in Seq(Nat), NEW time \in Nat,
         NEW now \in Nat, now <= time, time <= now + MaxStall,
         Len(queue) < Limit, SpreadOut(history), EndsHistory(queue, history, time)
  PROVE  /\ EndsHistory(Append(queue, now), Append(history, time), time)
         /\ SpreadOut(Append(history, time))
<1>. DEFINE longer == Append(queue, now)
            past == Append(history, time)
            gone == Len(history) - Len(queue)
<1>1. MaxStall \in Nat /\ Window \in Nat /\ Limit \in Nat /\ Limit >= 1
  BY LimitAssumption, ClockAssumption
<1>2. /\ Len(queue) <= Len(history) /\ Len(queue) \in Nat /\ Len(history) \in Nat
      /\ gone \in Nat
  BY DEF EndsHistory
<1>3. /\ longer \in Seq(Nat) /\ Len(longer) = Len(queue) + 1
      /\ past \in Seq(Nat) /\ Len(past) = Len(history) + 1
      /\ \A i \in 1..Len(queue) : longer[i] = queue[i]
      /\ \A i \in 1..Len(history) : past[i] = history[i]
      /\ longer[Len(queue) + 1] = now /\ past[Len(history) + 1] = time
  OBVIOUS
<1>4. Len(past) - Len(longer) = gone
  BY <1>2, <1>3
<1>5. ASSUME NEW i \in 1..Len(longer)
      PROVE  longer[i] <= past[gone + i] /\ past[gone + i] <= longer[i] + MaxStall
  <2>1. CASE i = Len(queue) + 1
    <3>1. gone + i = Len(history) + 1
      BY <1>2, <2>1
    <3>. QED
      BY <1>3, <2>1, <3>1
  <2>2. CASE i # Len(queue) + 1
    <3>1. i \in 1..Len(queue) /\ gone + i \in 1..Len(history)
      BY <1>2, <1>3, <2>2
    <3>2. queue[i] <= history[gone + i] /\ history[gone + i] <= queue[i] + MaxStall
      BY <3>1 DEF EndsHistory
    <3>. QED
      BY <1>3, <3>1, <3>2
  <2>. QED
    BY <2>1, <2>2
<1>6. ASSUME NEW i \in 1..gone
      PROVE  past[i] = history[i] /\ past[i] + Window <= time + MaxStall
  <2>1. i \in 1..Len(history)
    BY <1>2
  <2>. QED
    BY <1>3, <2>1 DEF EndsHistory
<1>7. ASSUME NEW i \in 1..(Len(history) + 1 - Limit)
      PROVE  past[i + Limit] - past[i] >= Window - MaxStall
  <2>1. CASE i + Limit = Len(history) + 1
    <3>1. i \in 1..gone
      BY <1>1, <1>2, <2>1
    <3>2. past[i] \in Nat /\ past[i + Limit] = time
      BY <1>2, <1>3, <2>1, <3>1
    <3>3. past[i] + Window <= time + MaxStall
      BY <1>6, <3>1
    <3>. HIDE DEF past, longer, gone
    <3>. QED
      BY <1>1, <3>2, <3>3
  <2>2. CASE i + Limit # Len(history) + 1
    <3>1. /\ i \in 1..(Len(history) - Limit)
          /\ i \in 1..Len(history) /\ i + Limit \in 1..Len(history)
      <4>. HIDE DEF past, longer
      <4>. QED
        BY <1>1, <1>2, <2>2
    <3>2. history[i + Limit] - history[i] >= Window - MaxStall
      BY <3>1 DEF SpreadOut
    <3>. QED
      BY <1>3, <3>1, <3>2
  <2>. QED
    BY <2>1, <2>2
<1>8. /\ Len(longer) <= Limit /\ Len(longer) <= Len(past)
      /\ Len(past) - Limit = Len(history) + 1 - Limit
  BY <1>1, <1>2, <1>3
<1>. HIDE DEF longer, past, gone
<1>. QED
  BY <1>4, <1>5, <1>6, <1>7, <1>8 DEF EndsHistory, SpreadOut, longer, past

-----------------------------------------------------------------------------
(* Every step keeps the invariant.                                          *)

LEMMA InitIInv == Init => IInv
<1>. SUFFICES ASSUME Init PROVE IInv
  OBVIOUS
<1>1. TypeOK
  BY ClockAssumption DEF Init, TypeOK
<1>2. StallBounded
  BY DEF Init, StallBounded
<1>3. Limit \in Nat /\ Window \in Nat
  BY LimitAssumption
<1>4. ASSUME NEW u \in Users
      PROVE  EndsHistory(calls[u], admitted[u], clock) /\ SpreadOut(admitted[u])
  <2>1. calls[u] = <<>> /\ admitted[u] = <<>>
    BY DEF Init
  <2>2. Len(<<>>) = 0 /\ 1..0 = {} /\ 1..(0 - Limit) = {}
    BY <1>3
  <2>. QED
    BY <1>3, <2>1, <2>2 DEF EndsHistory, SpreadOut
<1>. QED
  BY <1>1, <1>2, <1>4 DEF IInv

LEMMA TickKeeps ==
  ASSUME IInv, Tick
  PROVE  IInv'
<1>1. TypeOK'
  BY ClockAssumption DEF IInv, TypeOK, Tick
<1>2. StallBounded'
  <2>1. SUFFICES ASSUME NEW t \in Threads, thread'[t] # Idle
                 PROVE  thread[t].now <= clock + 1 /\ clock + 1 <= thread[t].now + MaxStall
    BY DEF StallBounded, Tick
  <2>2. thread[t] # Idle /\ thread[t].now \in Nat
    BY <2>1 DEF Tick, IInv, TypeOK, Asking
  <2>. QED
    BY <2>1, <2>2, ClockAssumption DEF Tick, IInv, TypeOK, StallBounded
<1>3. ASSUME NEW u \in Users
      PROVE  EndsHistory(calls[u], admitted[u], clock + 1)
  BY EndsHistoryLater DEF IInv, TypeOK
<1>. QED
  BY <1>1, <1>2, <1>3 DEF IInv, Tick

LEMMA AskKeeps ==
  ASSUME IInv, NEW t \in Threads, NEW u \in Users, NEW f \in Forms, Ask(t, u, f)
  PROVE  IInv'
<1>. DEFINE asking == [user |-> u, form |-> f, now |-> clock]
<1>1. clock \in Nat /\ asking \in Asking
  BY DEF IInv, TypeOK, Asking
<1>2. thread' = [thread EXCEPT ![t] = asking]
  BY DEF Ask
<1>3. TypeOK'
  BY <1>1, <1>2 DEF IInv, TypeOK, Ask
<1>4. StallBounded'
  BY <1>1, <1>2, ClockAssumption DEF IInv, TypeOK, StallBounded, Ask
<1>. QED
  BY <1>3, <1>4 DEF IInv, Ask

\* The three outcomes share what they do to the queue of user u: counted is what
\* is left of it, told what is left of the promises.
LEMMA DecideKeeps ==
  ASSUME IInv, NEW t \in Threads, Decide(t)
  PROVE  IInv'
<1>. DEFINE u == thread[t].user
            f == thread[t].form
            now == thread[t].now
<1>1. /\ u \in Users /\ f \in Forms /\ now \in Nat
      /\ now <= clock /\ clock <= now + MaxStall
  <2>1. thread[t] \in Asking
    BY DEF Decide, IInv, TypeOK
  <2>. QED
    BY <2>1 DEF Asking, Decide, IInv, StallBounded
<1>2. PICK gone \in 0..Len(calls[u]), past \in 0..Len(promised[u]) :
        /\ LeadingUpTo(calls[u], now - Window, gone)
        /\ \/ Hold(u, f, now, Without(calls[u], gone), Without(promised[u], past))
           \/ Admit(u, f, now, Without(calls[u], gone), Without(promised[u], past))
           \/ Refuse(u, f, now, Without(calls[u], gone), Without(promised[u], past))
  BY DEF Decide
<1>. DEFINE counted == Without(calls[u], gone)
            told == Without(promised[u], past)
<1>3. thread' = [thread EXCEPT ![t] = Idle] /\ clock' = clock
  BY DEF Decide
<1>4. /\ clock \in Nat /\ clock \in 1..MaxTime
      /\ calls \in [Users -> Seq(Nat)] /\ promised \in [Users -> Seq(Nat)]
      /\ waiting \in [Users -> [Forms -> Nat]] /\ admitted \in [Users -> Seq(Nat)]
      /\ thread \in [Threads -> Asking \cup {Idle}]
  BY DEF IInv, TypeOK
<1>5. counted \in Seq(Nat) /\ told \in Seq(Nat)
  BY <1>1, <1>2, <1>4, WithoutProperties
<1>6. EndsHistory(counted, admitted[u], clock) /\ SpreadOut(admitted[u])
  <2>1. EndsHistory(calls[u], admitted[u], clock) /\ SpreadOut(admitted[u])
    BY <1>1 DEF IInv
  <2>2. calls[u] \in Seq(Nat) /\ admitted[u] \in Seq(Nat)
    BY <1>1, <1>4
  <2>. HIDE DEF u, f, now
  <2>. QED
    BY <1>1, <1>2, <1>4, <2>1, <2>2, EndsHistoryDropped
<1>7. StallBounded' /\ thread' \in [Threads -> Asking \cup {Idle}]
  BY <1>3, <1>4 DEF IInv, StallBounded
<1>8. ASSUME NEW v \in Users, v # u
      PROVE  EndsHistory(calls[v], admitted[v], clock) /\ SpreadOut(admitted[v])
  BY DEF IInv
<1>9. Limit \in Nat
  BY LimitAssumption
<1>. HIDE DEF u, f, now, counted, told
<1>10. CASE Hold(u, f, now, counted, told)
  <2>1. /\ calls' = [calls EXCEPT ![u] = counted]
        /\ promised' = [promised EXCEPT ![u] = told]
        /\ waiting' = waiting /\ admitted' = admitted
    BY <1>10 DEF Hold
  <2>2. TypeOK'
    BY <1>1, <1>3, <1>4, <1>5, <1>7, <2>1 DEF TypeOK
  <2>3. ASSUME NEW v \in Users
        PROVE  EndsHistory(calls'[v], admitted'[v], clock') /\ SpreadOut(admitted'[v])
    BY <1>1, <1>3, <1>4, <1>6, <1>8, <2>1
  <2>. QED
    BY <1>7, <2>2, <2>3 DEF IInv
<1>11. CASE Admit(u, f, now, counted, told)
  <2>1. /\ Len(counted) < Limit
        /\ calls' = [calls EXCEPT ![u] = Append(counted, now)]
        /\ promised' = [promised EXCEPT ![u] = told]
        /\ waiting' = [waiting EXCEPT ![u][f] = 0]
        /\ admitted' = [admitted EXCEPT ![u] = Append(admitted[u], clock)]
    BY <1>11 DEF Admit, HasRoom
  <2>2. admitted[u] \in Seq(Nat)
    BY <1>1, <1>4
  <2>3. Append(counted, now) \in Seq(Nat) /\ Append(admitted[u], clock) \in Seq(Nat)
    BY <1>1, <1>4, <1>5, <2>2
  <2>4. /\ EndsHistory(Append(counted, now), Append(admitted[u], clock), clock)
        /\ SpreadOut(Append(admitted[u], clock))
    BY <1>1, <1>4, <1>5, <1>6, <2>1, <2>2, EndsHistoryAdmitted
  <2>5. TypeOK'
    BY <1>1, <1>3, <1>4, <1>5, <1>7, <2>1, <2>3 DEF TypeOK
  <2>6. ASSUME NEW v \in Users
        PROVE  EndsHistory(calls'[v], admitted'[v], clock') /\ SpreadOut(admitted'[v])
    BY <1>1, <1>3, <1>4, <1>8, <2>1, <2>4
  <2>. QED
    BY <1>7, <2>5, <2>6 DEF IInv
<1>12. CASE Refuse(u, f, now, counted, told)
  <2>. DEFINE slot == FreesAt(counted, told)
  <2>1. /\ ~(Len(counted) < Limit)
        /\ calls' = [calls EXCEPT ![u] = counted]
        /\ promised' = [promised EXCEPT ![u] = Append(told, slot)]
        /\ admitted' = admitted
    BY <1>12 DEF Refuse, HasRoom
  <2>2. slot \in Nat
    <3>1. Len(counted) >= Limit
      BY <1>5, <1>9, <2>1
    <3>. QED
      BY <1>5, <3>1, FreesAtIsATime
  <2>3. Append(told, slot) \in Seq(Nat)
    BY <1>5, <2>2
  <2>. HIDE DEF slot
  <2>4. waiting' \in [Users -> [Forms -> Nat]]
    <3>1. waiting' = [v \in Users |-> [g \in Forms |->
            IF v = u /\ g = f THEN slot ELSE IF waiting[v][g] > now THEN waiting[v][g] ELSE 0]]
      BY <1>12 DEF Refuse, slot
    <3>. QED
      BY <1>4, <2>2, <3>1
  <2>5. TypeOK'
    BY <1>1, <1>3, <1>4, <1>5, <1>7, <2>1, <2>3, <2>4 DEF TypeOK
  <2>6. ASSUME NEW v \in Users
        PROVE  EndsHistory(calls'[v], admitted'[v], clock') /\ SpreadOut(admitted'[v])
    BY <1>1, <1>3, <1>4, <1>6, <1>8, <2>1
  <2>. QED
    BY <1>7, <2>5, <2>6 DEF IInv
<1>13. \/ Hold(u, f, now, counted, told)
       \/ Admit(u, f, now, counted, told)
       \/ Refuse(u, f, now, counted, told)
  BY <1>2 DEF u, f, now, counted, told
<1>. QED
  BY <1>10, <1>11, <1>12, <1>13

\* The invariant holds in every reachable state of the guard.
THEOREM Invariance == Spec => []IInv
<1>1. IInv /\ [Next]_vars => IInv'
  <2>. SUFFICES ASSUME IInv, [Next]_vars PROVE IInv'
    OBVIOUS
  <2>1. CASE Tick
    BY <2>1, TickKeeps
  <2>2. ASSUME NEW t \in Threads, Decide(t) PROVE IInv'
    BY <2>2, DecideKeeps
  <2>3. ASSUME NEW t \in Threads, NEW u \in Users, NEW f \in Forms, Ask(t, u, f) PROVE IInv'
    BY <2>3, AskKeeps
  <2>4. CASE UNCHANGED vars
    BY <2>4 DEF vars, IInv, TypeOK, StallBounded
  <2>. QED
    BY <2>1, <2>2, <2>3, <2>4 DEF Next
<1>. QED
  BY <1>1, InitIInv, PTL DEF Spec

\* Every variable keeps its type; in particular a refused call is always told a
\* time, never an entry past the end of the promises.
THEOREM TypeCorrect == Spec => []TypeOK
BY Invariance, PTL DEF IInv

\* For any limit, window and number of threads, Limit + 1 calls of a user span at
\* least the window less the longest stall between the clock and the lock.
THEOREM RateIsLimited == Spec => []RateLimited
<1>1. IInv => RateLimited
  BY DEF IInv, SpreadOut, RateLimited
<1>. QED
  BY <1>1, Invariance, PTL

-----------------------------------------------------------------------------
(* Promises.  Where the queue of promises is as long as the limit, the next *)
(* slot is a window after the one that is Limit places before it, whatever  *)
(* has left the queue at its front since, and in whatever order stalled     *)
(* threads got the lock.                                                    *)

SomeRounds(d) == \E k \in Nat \ {0} : d = k * Limit

Apart(queue) ==
  \A i, j \in 1..Len(queue) : SomeRounds(j - i) => queue[j] >= queue[i] + Window

SlotsAt(queue, s) == {i \in 1..Len(queue) : queue[i] = s}
FormsAt(due, s) == {f \in Forms : due[f] = s}

\* A slot still to come is promised as often as there are forms that wait for it.
Matched(queue, due, time) ==
  \A s \in Nat : s > time =>
    /\ IsFiniteSet(FormsAt(due, s))
    /\ Cardinality(SlotsAt(queue, s)) = Cardinality(FormsAt(due, s))

PromiseInv ==
  \A u \in Users : Apart(promised[u]) /\ Matched(promised[u], waiting[u], clock)

LEMMA RoundsAreLong ==
  ASSUME NEW d \in Int, SomeRounds(d)
  PROVE  d >= Limit /\ (d # Limit => SomeRounds(d - Limit))
<1>. DEFINE L == Limit
<1>1. L \in Nat /\ L >= 1
  BY LimitAssumption
<1>2. PICK k \in Nat \ {0} : d = k * L
  BY DEF SomeRounds
<1>. HIDE DEF L
<1>3. k = 1 \/ k - 1 \in Nat \ {0}
  BY <1>2
<1>4. k * L = (k - 1) * L + L
  BY <1>1, <1>2
<1>5. k = 1 => d = L
  BY <1>1, <1>2
<1>6. ASSUME NEW r \in Nat PROVE r * L \in Nat
  BY <1>1, <1>6
<1>7. k - 1 \in Nat
  BY <1>2
<1>8. (k - 1) * L \in Nat
  BY <1>6, <1>7
<1>9. d >= L /\ d - L = (k - 1) * L
  BY <1>1, <1>2, <1>4, <1>8
<1>. QED
  BY <1>3, <1>5, <1>9 DEF SomeRounds, L

LEMMA LeastNat ==
  ASSUME NEW S \in SUBSET Nat, S # {}
  PROVE  \E n \in S : \A m \in S : n <= m
<1>1. PICK n \in S : \A m \in S : ~ (<<m, n>> \in OpToRel(<, Nat))
  BY WFMin, NatLessThanWellFounded
<1>2. ASSUME NEW m \in S PROVE n <= m
  <2>1. m \in Nat /\ n \in Nat /\ ~(m < n)
    BY <1>1 DEF OpToRel
  <2>. QED
    BY <2>1
<1>. QED
  BY <1>2

\* Where in its round a place is.
InRound(i) == CHOOSE r \in 0..(Limit - 1) : \E q \in Nat : i = q * Limit + r

LEMMA InRoundProperties ==
  ASSUME NEW i \in Nat
  PROVE  InRound(i) \in 0..(Limit - 1) /\ \E q \in Nat : i = q * Limit + InRound(i)
<1>. DEFINE L == Limit
            Rests == {r \in Nat : \E q \in Nat : i = q * L + r}
<1>1. L \in Nat /\ L >= 1
  BY LimitAssumption
<1>. HIDE DEF L
<1>2. i = 0 * L + i
  BY <1>1
<1>3. i \in Rests
  BY <1>2
<1>. HIDE DEF Rests
<1>4. PICK r \in Rests : \A s \in Rests : r <= s
  BY <1>3, LeastNat DEF Rests
<1>5. r \in Nat
  BY DEF Rests
<1>6. PICK q \in Nat : i = q * L + r
  BY DEF Rests
<1>7. r < L
  <2>. SUFFICES ASSUME r >= L PROVE FALSE
    BY <1>1, <1>5
  <2>1. r - L \in Nat /\ ~(r <= r - L)
    BY <1>1, <1>5
  <2>2. i = (q + 1) * L + (r - L) /\ q + 1 \in Nat
    BY <1>1, <1>5, <1>6
  <2>3. r - L \in Rests
    BY <2>1, <2>2 DEF Rests
  <2>. QED
    BY <1>4, <2>1, <2>3
<1>8. r \in 0..(L - 1) /\ \E p \in Nat : i = p * L + r
  BY <1>1, <1>5, <1>6, <1>7
<1>. QED
  BY <1>8 DEF InRound, L

\* Two places that are alike in their rounds are some rounds apart.
LEMMA SameInRound ==
  ASSUME NEW i \in Nat, NEW j \in Nat, i < j, InRound(i) = InRound(j)
  PROVE  SomeRounds(j - i)
<1>. DEFINE L == Limit
            r == InRound(i)
<1>1. L \in Nat /\ L >= 1
  BY LimitAssumption
<1>2. r \in 0..(L - 1)
  BY InRoundProperties
<1>3. PICK a \in Nat : i = a * L + r
  BY InRoundProperties
<1>4. PICK b \in Nat : j = b * L + r
  BY InRoundProperties
<1>. HIDE DEF L, r
<1>5. r \in Nat
  BY <1>1, <1>2
<1>6. j - i = (b - a) * L
  BY <1>1, <1>3, <1>4, <1>5
<1>7. b > a
  <2>. SUFFICES ASSUME a >= b PROVE FALSE
    OBVIOUS
  <2>. DEFINE d == a - b
  <2>1. d \in Nat
    OBVIOUS
  <2>2. (b - a) * L = 0 - d * L
    BY <1>1
  <2>. HIDE DEF d
  <2>3. d * L \in Nat
    BY <1>1, <2>1
  <2>. QED
    BY <1>6, <2>2, <2>3
<1>8. b - a \in Nat \ {0}
  BY <1>7
<1>. QED
  BY <1>6, <1>8 DEF SomeRounds, L

\* No window holds more than Limit slots of a queue that is apart.
LEMMA ApartFitsWindow ==
  ASSUME NEW queue \in Seq(Nat), Apart(queue), NEW start \in Nat
  PROVE  Cardinality({i \in 1..Len(queue) : start <= queue[i] /\ queue[i] < start + Window}) <= Limit
<1>. DEFINE S == {i \in 1..Len(queue) : start <= queue[i] /\ queue[i] < start + Window}
            T == 0..(Limit - 1)
            f == [i \in S |-> InRound(i)]
<1>1. Limit \in Nat /\ Limit >= 1 /\ Window \in Nat /\ Len(queue) \in Nat
  BY LimitAssumption
<1>2. IsFiniteSet(S)
  <2>1. IsFiniteSet(1..Len(queue)) /\ S \in SUBSET (1..Len(queue))
    <3>1. 1 \in Int /\ Len(queue) \in Int
      BY <1>1
    <3>. QED
      BY <3>1, FS_Interval
  <2>. QED
    BY <2>1, FS_Subset
<1>3. IsFiniteSet(T) /\ Cardinality(T) = Limit
  <2>1. 0 \in Int /\ Limit - 1 \in Int /\ ~(0 > Limit - 1) /\ (Limit - 1) - 0 + 1 = Limit
    BY <1>1
  <2>. QED
    BY <2>1, FS_Interval
<1>4. f \in [S -> T]
  <2>1. ASSUME NEW i \in Nat PROVE InRound(i) \in T
    BY <2>1, InRoundProperties
  <2>2. \A i \in S : i \in Nat
    BY <1>1
  <2>. QED
    BY <2>1, <2>2
<1>5. SUFFICES ASSUME ~(Cardinality(S) <= Limit) PROVE FALSE
  OBVIOUS
<1>6. Cardinality(S) \in Nat
  BY <1>2, FS_CardinalityType
<1>7. Cardinality(T) < Cardinality(S)
  BY <1>1, <1>3, <1>5, <1>6
<1>. HIDE DEF S, T, f
<1>8a. \E x, y \in S : x # y /\ f[x] = f[y]
  BY ONLY <1>2, <1>3, <1>4, <1>7, FS_PigeonHole
<1>8. PICK x \in S, y \in S : x # y /\ f[x] = f[y]
  BY ONLY <1>8a
<1>9. ASSUME NEW i \in S, NEW j \in S, i < j, InRound(i) = InRound(j) PROVE FALSE
  <2>1. /\ i \in 1..Len(queue) /\ j \in 1..Len(queue)
        /\ start <= queue[i] /\ queue[j] < start + Window
    BY DEF S
  <2>4. i \in Nat /\ j \in Nat /\ queue[i] \in Nat /\ queue[j] \in Nat
    BY <1>1, <2>1
  <2>2. SomeRounds(j - i)
    BY <1>9, <2>4, SameInRound
  <2>3. queue[j] >= queue[i] + Window
    BY <2>1, <2>2 DEF Apart
  <2>. QED
    BY <1>1, <2>1, <2>3, <2>4
<1>10. InRound(x) = InRound(y) /\ x \in Nat /\ y \in Nat
  <2>1. x \in Nat /\ y \in Nat
    BY <1>1 DEF S
  <2>2. f[x] = InRound(x) /\ f[y] = InRound(y)
    BY DEF f
  <2>. QED
    BY <1>8, <2>1, <2>2
<1>11. x < y \/ y < x
  BY <1>8, <1>10
<1>. QED
  BY <1>9, <1>10, <1>11

LEMMA ApartDropped ==
  ASSUME NEW queue \in Seq(Nat), NEW n \in 0..Len(queue), Apart(queue)
  PROVE  Apart(Without(queue, n))
<1>1. /\ Len(Without(queue, n)) = Len(queue) - n
      /\ \A i \in 1..(Len(queue) - n) : Without(queue, n)[i] = queue[n + i]
  BY WithoutProperties
<1>. SUFFICES ASSUME NEW i \in 1..(Len(queue) - n), NEW j \in 1..(Len(queue) - n), SomeRounds(j - i)
              PROVE  queue[n + j] >= queue[n + i] + Window
  BY <1>1 DEF Apart
<1>2. n + i \in 1..Len(queue) /\ n + j \in 1..Len(queue) /\ (n + j) - (n + i) = j - i
  OBVIOUS
<1>3. SomeRounds((n + j) - (n + i))
  BY <1>2
<1>. QED
  BY <1>2, <1>3 DEF Apart

LEMMA ApartRefused ==
  ASSUME NEW counted \in Seq(Nat), NEW told \in Seq(Nat), Len(counted) = Limit, Apart(told)
  PROVE  Apart(Append(told, FreesAt(counted, told)))
<1>. DEFINE slot == FreesAt(counted, told)
            longer == Append(told, slot)
            n == Len(told)
<1>1. Limit \in Nat /\ Limit >= 1 /\ Window \in Nat /\ n \in Nat
  BY LimitAssumption
<1>2. slot \in Nat
  BY <1>1, FreesAtIsATime
<1>3. n >= Limit => slot = told[n - Limit + 1] + Window
  BY <1>1 DEF FreesAt
<1>. HIDE DEF slot
<1>4. /\ Len(longer) = n + 1 /\ longer[n + 1] = slot
      /\ \A i \in 1..n : longer[i] = told[i]
  BY <1>2
<1>. SUFFICES Apart(longer)
  BY DEF slot
<1>. HIDE DEF longer, n
<1>. SUFFICES ASSUME NEW i \in 1..(n + 1), NEW j \in 1..(n + 1), SomeRounds(j - i)
              PROVE  longer[j] >= longer[i] + Window
  BY <1>4 DEF Apart
<1>5. i \in Nat /\ j \in Nat /\ j - i >= Limit /\ (j - i # Limit => SomeRounds(j - i - Limit))
  <2>1. i \in Nat /\ j \in Nat /\ j - i \in Int
    BY <1>1
  <2>. QED
    BY <2>1, RoundsAreLong
<1>6. i \in 1..n
  BY <1>1, <1>5
<1>7. CASE j # n + 1
  <2>1. j \in 1..n
    BY <1>1, <1>7
  <2>. QED
    BY <1>4, <1>6, <2>1 DEF Apart, n
<1>8. CASE j = n + 1
  <2>. DEFINE h == n - Limit + 1
  <2>1. n >= Limit /\ h \in 1..n /\ i <= h
    BY <1>1, <1>5, <1>8
  <2>2. longer[j] = told[h] + Window
    BY <1>3, <1>4, <1>8, <2>1
  <2>3. told[h] \in Nat /\ told[i] \in Nat
    BY <1>6, <2>1 DEF n
  <2>4. CASE i = h
    BY <1>1, <1>4, <1>6, <2>2, <2>3, <2>4
  <2>5. CASE i # h
    <3>1. SomeRounds(h - i)
      <4>1. h - i = j - i - Limit /\ j - i # Limit
        BY <1>1, <1>5, <1>8, <2>5
      <4>. QED
        BY <1>5, <4>1
    <3>2. told[h] >= told[i] + Window
      BY <1>6, <2>1, <3>1 DEF Apart, n
    <3>. QED
      <4>1. longer[i] = told[i]
        BY <1>4, <1>6
      <4>. HIDE DEF h
      <4>. QED
        BY <1>1, <2>2, <2>3, <3>2, <4>1
  <2>. QED
    BY <2>4, <2>5
<1>. QED
  BY <1>7, <1>8

\* A slot that has not passed is not at the front of the queue that is dropped.
LEMMA SlotsDropped ==
  ASSUME NEW queue \in Seq(Nat), NEW now \in Nat, NEW n \in 0..Len(queue),
         LeadingUpTo(queue, now, n), NEW s \in Nat, s > now
  PROVE  Cardinality(SlotsAt(Without(queue, n), s)) = Cardinality(SlotsAt(queue, s))
<1>. DEFINE rest == Without(queue, n)
            shift == [i \in SlotsAt(rest, s) |-> n + i]
<1>1. Len(queue) \in Nat /\ n \in Nat /\ n <= Len(queue)
  OBVIOUS
<1>2. Len(rest) = Len(queue) - n /\ \A i \in 1..(Len(queue) - n) : rest[i] = queue[n + i]
  BY WithoutProperties
<1>3. \A i \in 1..n : queue[i] \in Nat /\ queue[i] <= now
  BY DEF LeadingUpTo
<1>. HIDE DEF rest
<1>4. \A i \in SlotsAt(queue, s) : i \in Int /\ i > n /\ i <= Len(queue)
  <2>. SUFFICES ASSUME NEW i \in SlotsAt(queue, s), ~(i > n) PROVE FALSE
    BY <1>1 DEF SlotsAt
  <2>1. i \in 1..n /\ queue[i] = s
    BY <1>1 DEF SlotsAt
  <2>. QED
    BY <1>3, <2>1
<1>5. \A i \in SlotsAt(rest, s) : i \in Nat /\ n + i \in SlotsAt(queue, s)
  BY <1>1, <1>2 DEF SlotsAt
<1>6. ASSUME NEW j \in SlotsAt(queue, s)
      PROVE  j - n \in SlotsAt(rest, s) /\ shift[j - n] = j
  <2>1. j \in Int /\ j > n /\ j <= Len(queue) /\ queue[j] = s
    BY <1>4 DEF SlotsAt
  <2>2. j - n \in 1..(Len(queue) - n) /\ n + (j - n) = j
    BY <1>1, <2>1
  <2>3. j - n \in SlotsAt(rest, s)
    BY <1>2, <2>1, <2>2 DEF SlotsAt
  <2>. QED
    BY <2>2, <2>3
<1>7. shift \in [SlotsAt(rest, s) -> SlotsAt(queue, s)]
  BY <1>5
<1>8. \A i, j \in SlotsAt(rest, s) : shift[i] = shift[j] => i = j
  BY <1>1, <1>5
<1>9. shift \in Bijection(SlotsAt(rest, s), SlotsAt(queue, s))
  <2>1. shift \in Injection(SlotsAt(rest, s), SlotsAt(queue, s))
    BY <1>7, <1>8 DEF Injection, IsInjective
  <2>2. shift \in Surjection(SlotsAt(rest, s), SlotsAt(queue, s))
    BY <1>6, <1>7 DEF Surjection
  <2>. QED
    BY <2>1, <2>2 DEF Bijection
<1>10. IsFiniteSet(SlotsAt(rest, s))
  <2>1. Len(rest) \in Int /\ 1 \in Int
    BY <1>1, <1>2
  <2>2. IsFiniteSet(1..Len(rest))
    BY <2>1, FS_Interval
  <2>3. SlotsAt(rest, s) \in SUBSET (1..Len(rest))
    BY DEF SlotsAt
  <2>. QED
    BY <2>2, <2>3, FS_Subset
<1>11. ExistsBijection(SlotsAt(rest, s), SlotsAt(queue, s))
  BY <1>9 DEF ExistsBijection
<1>. HIDE DEF shift
<1>12. Cardinality(SlotsAt(rest, s)) = Cardinality(SlotsAt(queue, s))
  BY <1>10, <1>11, FS_Bijection
<1>. QED
  BY <1>12 DEF rest

\* A slot that is promised once more.
LEMMA SlotsPromised ==
  ASSUME NEW queue \in Seq(Nat), NEW slot \in Nat, NEW s \in Nat
  PROVE  Cardinality(SlotsAt(Append(queue, slot), s)) =
           IF slot = s THEN Cardinality(SlotsAt(queue, s)) + 1 ELSE Cardinality(SlotsAt(queue, s))
<1>. DEFINE n == Len(queue)
            longer == Append(queue, slot)
<1>1. /\ n \in Nat /\ Len(longer) = n + 1 /\ longer[n + 1] = slot
      /\ \A i \in 1..n : longer[i] = queue[i]
  OBVIOUS
<1>2. IsFiniteSet(SlotsAt(queue, s)) /\ n + 1 \notin SlotsAt(queue, s)
  <2>1. n \in Int /\ 1 \in Int /\ n + 1 \notin 1..n
    BY <1>1
  <2>2. IsFiniteSet(1..n)
    BY <2>1, FS_Interval
  <2>3. SlotsAt(queue, s) \in SUBSET (1..n)
    BY DEF SlotsAt
  <2>. QED
    BY <2>1, <2>2, <2>3, FS_Subset
<1>. HIDE DEF longer, n
<1>3. CASE slot = s
  <2>1. SlotsAt(longer, s) = SlotsAt(queue, s) \cup {n + 1}
    BY <1>1, <1>3 DEF SlotsAt, n
  <2>2. Cardinality(SlotsAt(queue, s) \cup {n + 1}) = Cardinality(SlotsAt(queue, s)) + 1
    BY <1>2, FS_AddElement
  <2>. QED
    BY <1>3, <2>1, <2>2 DEF longer
<1>4. CASE slot # s
  <2>1. SlotsAt(longer, s) = SlotsAt(queue, s)
    BY <1>1, <1>4 DEF SlotsAt, n
  <2>. QED
    BY <1>4, <2>1 DEF longer
<1>. QED
  BY <1>3, <1>4

\* Entries of slots that have passed may go.
LEMMA MatchedDropped ==
  ASSUME NEW queue \in Seq(Nat), NEW due \in [Forms -> Nat], NEW new \in [Forms -> Nat],
         NEW time \in Nat, NEW now \in Nat, now <= time, NEW n \in 0..Len(queue),
         LeadingUpTo(queue, now, n), Matched(queue, due, time),
         \A f \in Forms : new[f] = due[f] \/ (new[f] <= time /\ due[f] <= time)
  PROVE  Matched(Without(queue, n), new, time)
<1>. SUFFICES ASSUME NEW s \in Nat, s > time
              PROVE  /\ IsFiniteSet(FormsAt(new, s))
                     /\ Cardinality(SlotsAt(Without(queue, n), s)) = Cardinality(FormsAt(new, s))
  BY DEF Matched
<1>1. s > now
  OBVIOUS
<1>2. Cardinality(SlotsAt(Without(queue, n), s)) = Cardinality(SlotsAt(queue, s))
  BY <1>1, SlotsDropped
<1>3. FormsAt(new, s) = FormsAt(due, s)
  BY DEF FormsAt
<1>. QED
  BY <1>2, <1>3 DEF Matched

\* A refused form had no slot to come, and gets the one that is promised.
LEMMA MatchedRefused ==
  ASSUME NEW queue \in Seq(Nat), NEW due \in [Forms -> Nat], NEW new \in [Forms -> Nat],
         NEW time \in Nat, NEW slot \in Nat, NEW f \in Forms, due[f] <= time, new[f] = slot,
         \A g \in Forms : g # f => new[g] = due[g], Matched(queue, due, time)
  PROVE  Matched(Append(queue, slot), new, time)
<1>. SUFFICES ASSUME NEW s \in Nat, s > time
              PROVE  /\ IsFiniteSet(FormsAt(new, s))
                     /\ Cardinality(SlotsAt(Append(queue, slot), s)) = Cardinality(FormsAt(new, s))
  BY DEF Matched
<1>1. /\ IsFiniteSet(FormsAt(due, s)) /\ f \notin FormsAt(due, s)
      /\ Cardinality(SlotsAt(queue, s)) = Cardinality(FormsAt(due, s))
  BY DEF Matched, FormsAt
<1>2. CASE slot = s
  <2>1. FormsAt(new, s) = FormsAt(due, s) \cup {f}
    BY <1>2 DEF FormsAt
  <2>2. /\ IsFiniteSet(FormsAt(due, s) \cup {f})
        /\ Cardinality(FormsAt(due, s) \cup {f}) = Cardinality(FormsAt(due, s)) + 1
    BY <1>1, FS_AddElement
  <2>. QED
    BY <1>1, <1>2, <2>1, <2>2, SlotsPromised
<1>3. CASE slot # s
  <2>1. FormsAt(new, s) = FormsAt(due, s)
    BY <1>1, <1>3 DEF FormsAt
  <2>. QED
    BY <1>1, <1>3, <2>1, SlotsPromised
<1>. QED
  BY <1>2, <1>3

LEMMA InitPromiseInv == Init => PromiseInv
<1>. SUFFICES ASSUME Init, NEW u \in Users
              PROVE  Apart(promised[u]) /\ Matched(promised[u], waiting[u], clock)
  BY DEF PromiseInv
<1>1. promised[u] = <<>> /\ Len(<<>>) = 0 /\ 1..0 = {} /\ waiting[u] = [f \in Forms |-> 0] /\ clock = 1
  BY DEF Init
<1>2. Apart(promised[u])
  BY <1>1 DEF Apart
<1>3. ASSUME NEW s \in Nat, s > 1
      PROVE  SlotsAt(promised[u], s) = {} /\ FormsAt(waiting[u], s) = {}
  BY <1>1, <1>3 DEF SlotsAt, FormsAt
<1>4. Matched(promised[u], waiting[u], clock)
  BY <1>1, <1>3, FS_EmptySet DEF Matched
<1>. QED
  BY <1>2, <1>4

\* What a decision leaves of the promises to its user, and what it adds.
LEMMA DecideKeepsPromises ==
  ASSUME IInv, PromiseInv, NEW t \in Threads, Decide(t)
  PROVE  PromiseInv'
<1>. DEFINE u == thread[t].user
            f == thread[t].form
            now == thread[t].now
<1>1. u \in Users /\ f \in Forms /\ now \in Nat /\ now <= clock
  <2>1. thread[t] \in Asking
    BY DEF Decide, IInv, TypeOK
  <2>. QED
    BY <2>1 DEF Asking, Decide, IInv, StallBounded
<1>2. PICK gone \in 0..Len(calls[u]), past \in 0..Len(promised[u]) :
        /\ LeadingUpTo(calls[u], now - Window, gone)
        /\ LeadingUpTo(promised[u], now, past)
        /\ \/ Hold(u, f, now, Without(calls[u], gone), Without(promised[u], past))
           \/ Admit(u, f, now, Without(calls[u], gone), Without(promised[u], past))
           \/ Refuse(u, f, now, Without(calls[u], gone), Without(promised[u], past))
  BY DEF Decide
<1>. DEFINE counted == Without(calls[u], gone)
            told == Without(promised[u], past)
<1>3. clock' = clock
  BY DEF Decide
<1>4. /\ clock \in Nat /\ Limit \in Nat
      /\ calls \in [Users -> Seq(Nat)] /\ promised \in [Users -> Seq(Nat)]
      /\ waiting \in [Users -> [Forms -> Nat]]
  BY LimitAssumption DEF IInv, TypeOK
<1>5. calls[u] \in Seq(Nat) /\ promised[u] \in Seq(Nat) /\ waiting[u] \in [Forms -> Nat]
  BY <1>1, <1>4
<1>6. Apart(promised[u]) /\ Matched(promised[u], waiting[u], clock)
  BY <1>1 DEF PromiseInv
<1>7. counted \in Seq(Nat) /\ told \in Seq(Nat) /\ Apart(told) /\ Len(counted) <= Limit
  <2>1. Len(calls[u]) <= Limit /\ Len(counted) = Len(calls[u]) - gone /\ counted \in Seq(Nat)
    BY <1>1, <1>2, <1>5, WithoutProperties DEF IInv, EndsHistory
  <2>2. told \in Seq(Nat)
    BY <1>2, <1>5, WithoutProperties
  <2>3. Apart(told)
    <3>. HIDE DEF u, f, now
    <3>. QED
      BY <1>2, <1>5, <1>6, ApartDropped
  <2>4. Len(calls[u]) \in Nat /\ gone \in Nat
    BY <1>2, <1>5
  <2>. QED
    BY <1>4, <2>1, <2>2, <2>3, <2>4
<1>. HIDE DEF u, f, now
<1>8. ASSUME NEW new \in [Forms -> Nat],
             \A g \in Forms : new[g] = waiting[u][g] \/ (new[g] <= clock /\ waiting[u][g] <= clock)
      PROVE  Matched(told, new, clock)
  BY <1>1, <1>2, <1>4, <1>5, <1>6, <1>8, MatchedDropped
<1>9. waiting[u][f] \in Nat /\ (~KeepsPlace(u, f, now) => waiting[u][f] <= clock)
  <2>1. waiting[u][f] \in Nat
    BY <1>1, <1>5
  <2>. QED
    BY <1>1, <1>4, <2>1 DEF KeepsPlace
<1>. HIDE DEF counted, told
<1>10. CASE Hold(u, f, now, counted, told)
  <2>1. promised' = [promised EXCEPT ![u] = told] /\ waiting' = waiting
    BY <1>10 DEF Hold
  <2>2. Matched(told, waiting[u], clock)
    BY <1>5, <1>8
  <2>. QED
    BY <1>1, <1>3, <1>4, <1>7, <2>1, <2>2 DEF PromiseInv
<1>11. CASE Admit(u, f, now, counted, told)
  <2>. DEFINE new == [waiting[u] EXCEPT ![f] = 0]
  <2>1. promised' = [promised EXCEPT ![u] = told] /\ waiting' = [waiting EXCEPT ![u] = new]
        /\ ~KeepsPlace(u, f, now)
    BY <1>11 DEF Admit
  <2>2. /\ new \in [Forms -> Nat]
        /\ \A g \in Forms : new[g] = waiting[u][g] \/ (new[g] <= clock /\ waiting[u][g] <= clock)
    BY <1>1, <1>4, <1>5, <1>9, <2>1
  <2>3. Matched(told, new, clock)
    BY <1>8, <2>2
  <2>. HIDE DEF new
  <2>. QED
    BY <1>1, <1>3, <1>4, <1>7, <2>1, <2>3 DEF PromiseInv
<1>12. CASE Refuse(u, f, now, counted, told)
  <2>. DEFINE slot == FreesAt(counted, told)
              live(due) == IF due > now THEN due ELSE 0
              left == [g \in Forms |-> live(waiting[u][g])]
              new == [g \in Forms |-> IF g = f THEN slot ELSE live(waiting[u][g])]
  <2>1. /\ ~KeepsPlace(u, f, now) /\ ~HasRoom(counted)
        /\ promised' = [promised EXCEPT ![u] = Append(told, slot)]
        /\ waiting' = [v \in Users |-> [g \in Forms |->
             IF v = u /\ g = f THEN slot ELSE live(waiting[v][g])]]
    BY <1>12 DEF Refuse
  <2>2. Len(counted) = Limit
    <3>1. ~(Len(counted) < Limit) /\ Len(counted) \in Nat
      BY <1>7, <2>1 DEF HasRoom
    <3>. QED
      BY <1>4, <1>7, <3>1
  <2>3. slot \in Nat
    BY <1>4, <1>7, <2>2, FreesAtIsATime
  <2>4. Apart(Append(told, slot))
    BY <1>7, <2>2, ApartRefused
  <2>. HIDE DEF slot
  <2>5. /\ left \in [Forms -> Nat]
        /\ \A g \in Forms : left[g] = waiting[u][g] \/ (left[g] <= clock /\ waiting[u][g] <= clock)
    <3>1. \A g \in Forms : waiting[u][g] \in Nat
      BY <1>5
    <3>. QED
      BY <1>1, <1>4, <3>1
  <2>6. Matched(told, left, clock)
    BY <1>8, <2>5
  <2>7. left[f] <= clock
    BY <1>1, <1>4, <1>9, <2>1
  <2>8. new \in [Forms -> Nat] /\ new[f] = slot /\ \A g \in Forms : g # f => new[g] = left[g]
    BY <1>1, <2>3, <2>5
  <2>9. waiting'[u] = new
    BY <1>1, <2>1
  <2>10. ASSUME NEW v \in Users, v # u
         PROVE  Apart(promised'[v]) /\ Matched(promised'[v], waiting'[v], clock)
    <3>1. promised'[v] = promised[v] /\ Apart(promised[v]) /\ Matched(promised[v], waiting[v], clock)
      BY <1>4, <2>1, <2>10 DEF PromiseInv
    <3>2. waiting'[v] = [g \in Forms |-> live(waiting[v][g])]
      BY <2>1, <2>10
    <3>3. \A g \in Forms : waiting[v][g] \in Nat
      BY <1>4
    <3>4. ASSUME NEW s \in Nat, s > clock PROVE FormsAt(waiting'[v], s) = FormsAt(waiting[v], s)
      BY <1>1, <1>4, <3>2, <3>3, <3>4 DEF FormsAt
    <3>. QED
      BY <3>1, <3>4 DEF Matched
  <2>. HIDE DEF live, left, new
  <2>11. Matched(Append(told, slot), new, clock)
    BY <1>1, <1>4, <1>7, <2>3, <2>5, <2>6, <2>7, <2>8, MatchedRefused
  <2>12. promised'[u] = Append(told, slot)
    BY <1>1, <1>4, <2>1
  <2>. QED
    BY <1>3, <2>4, <2>9, <2>10, <2>11, <2>12 DEF PromiseInv
<1>13. \/ Hold(u, f, now, counted, told)
       \/ Admit(u, f, now, counted, told)
       \/ Refuse(u, f, now, counted, told)
  BY <1>2 DEF counted, told
<1>. QED
  BY <1>10, <1>11, <1>12, <1>13

\* For any limit, window and stall the slots that are promised are Limit to a
\* window, and each one to come belongs to one form that waits for it.
THEOREM PromiseInvariance == Spec => []PromiseInv
<1>1. IInv /\ PromiseInv /\ [Next]_vars => PromiseInv'
  <2>. SUFFICES ASSUME IInv, PromiseInv, [Next]_vars PROVE PromiseInv'
    OBVIOUS
  <2>1. CASE Tick
    <3>1. clock \in Nat /\ clock' = clock + 1 /\ UNCHANGED <<promised, waiting>>
      BY <2>1 DEF Tick, IInv, TypeOK
    <3>. QED
      BY <3>1 DEF PromiseInv, Matched
  <2>2. ASSUME NEW t \in Threads, Decide(t) PROVE PromiseInv'
    BY <2>2, DecideKeepsPromises
  <2>3. ASSUME NEW t \in Threads, NEW u \in Users, NEW f \in Forms, Ask(t, u, f) PROVE PromiseInv'
    BY <2>3 DEF Ask, PromiseInv
  <2>4. CASE UNCHANGED vars
    BY <2>4 DEF vars, PromiseInv
  <2>. QED
    BY <2>1, <2>2, <2>3, <2>4 DEF Next
<1>. QED
  BY <1>1, InitPromiseInv, Invariance, PTL DEF Spec

\* The places that refused forms are given: no window has more slots promised than
\* the limit, and a slot to come is promised once for every form that waits for it
\* (api/google_quota.py, acquire_or_wait).
THEOREM PlacesAreSpreadHolds == Spec => []PlacesAreSpread
<1>1. ASSUME TypeOK, PromiseInv PROVE PlacesAreSpread
  <2>0. clock \in Nat /\ clock \in 1..MaxTime /\ promised \in [Users -> Seq(Nat)] /\ waiting \in [Users -> [Forms -> Nat]]
    BY <1>1 DEF TypeOK
  <2>1. PromisesFitWindow
    <3>. SUFFICES ASSUME NEW u \in Users, NEW start \in clock..(MaxTime + Window)
                  PROVE  Cardinality({i \in 1..Len(promised[u]) :
                           start <= promised[u][i] /\ promised[u][i] < start + Window}) <= Limit
      BY DEF PromisesFitWindow
    <3>1. start \in Nat
      BY <2>0, ClockAssumption, LimitAssumption
    <3>2. promised[u] \in Seq(Nat) /\ Apart(promised[u])
      BY <1>1, <2>0 DEF PromiseInv
    <3>. QED
      BY ONLY <3>1, <3>2, ApartFitsWindow
  <2>2. OnePlaceEach
    <3>. SUFFICES ASSUME NEW u \in Users,
                         NEW s \in {promised[u][i] : i \in 1..Len(promised[u])}
                                     \cup {waiting[u][f] : f \in Forms},
                         s > clock
                  PROVE  Cardinality(SlotsAt(promised[u], s)) = Cardinality(FormsAt(waiting[u], s))
      BY DEF OnePlaceEach, SlotsAt, FormsAt
    <3>1. s \in Nat
      BY <2>0
    <3>. QED
      BY <1>1, <3>1 DEF PromiseInv, Matched
  <2>. QED
    BY <2>1, <2>2 DEF PlacesAreSpread
<1>. QED
  BY <1>1, TypeCorrect, PromiseInvariance, PTL
=============================================================================
