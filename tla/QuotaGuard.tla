----------------------------- MODULE QuotaGuard -----------------------------
(***************************************************************************)
(* RollingWindowGuard (api/google_quota.py): at most Limit calls of a user *)
(* within any Window, and a place in line for every form that is refused.  *)
(* The threads of the catalog stream ask it (_admit in                     *)
(* api/routes/google_forms.py), so acquire_or_wait is two steps: the clock *)
(* is read before the lock is taken, and the rest runs under the lock with *)
(* a time that may be old by then.  Forms ask whenever they like: on time, *)
(* late, again from a second page, or never again.                         *)
(***************************************************************************)
EXTENDS Integers, Sequences, FiniteSets

CONSTANTS
  Users,     \* the keys of the guard
  Forms,     \* the items; the program always names one
  Threads,   \* threads that may be inside acquire_or_wait
  Idle,      \* a thread outside of it
  Limit,     \* calls admitted per window
  Window,    \* length of the window, in ticks of the clock
  MaxStall,  \* bound: ticks between reading the clock and holding the lock
  MaxTime    \* bound: ticks of the clock

ASSUME LimitAssumption == Limit \in Nat \ {0} /\ Window \in Nat \ {0}
ASSUME ClockAssumption == MaxStall \in Nat /\ MaxTime \in Nat \ {0}
ASSUME IdleAssumption == Idle \notin [user : Users, form : Forms, now : Nat]

VARIABLES
  clock,     \* time.monotonic()
  calls,     \* calls[u]: the times of the counted calls, as recorded
  promised,  \* promised[u]: the times refused calls were told to come back
  waiting,   \* waiting[u][f]: the slot f waits for, 0 without an entry
  thread,    \* thread[t]: the call it is in, Idle outside
  admitted   \* history: the times at which calls of u really were admitted

vars == <<clock, calls, promised, waiting, thread, admitted>>

Asking == [user : Users, form : Forms, now : Nat]

TypeOK ==
  /\ clock \in 1..MaxTime
  /\ calls \in [Users -> Seq(Nat)]
  /\ promised \in [Users -> Seq(Nat)]
  /\ waiting \in [Users -> [Forms -> Nat]]
  /\ thread \in [Threads -> Asking \cup {Idle}]
  /\ admitted \in [Users -> Seq(Nat)]

Init ==
  /\ clock = 1
  /\ calls = [u \in Users |-> <<>>]
  /\ promised = [u \in Users |-> <<>>]
  /\ waiting = [u \in Users |-> [f \in Forms |-> 0]]
  /\ thread = [t \in Threads |-> Idle]
  /\ admitted = [u \in Users |-> <<>>]

\* Time passes; a thread that has read the clock gets the lock within MaxStall.
Tick ==
  /\ clock < MaxTime
  /\ \A t \in Threads : thread[t] # Idle => clock < thread[t].now + MaxStall
  /\ clock' = clock + 1
  /\ UNCHANGED <<calls, promised, waiting, thread, admitted>>

Ask(t, u, f) ==
  /\ thread[t] = Idle
  /\ thread' = [thread EXCEPT ![t] = [user |-> u, form |-> f, now |-> clock]]
  /\ UNCHANGED <<clock, calls, promised, waiting, admitted>>

-----------------------------------------------------------------------------
(* Under the lock.  The two while loops drop a leading part of a queue.     *)

\* n is how many times lead the queue that are not after t.
LeadingUpTo(queue, t, n) ==
  /\ n \in 0..Len(queue)
  /\ \A i \in 1..n : queue[i] <= t
  /\ n < Len(queue) => queue[n + 1] > t

Without(queue, n) == SubSeq(queue, n + 1, Len(queue))

\* Mutation: the place in line is given up when the form asks again.
KeepsNoPlace(u, f, now) == FALSE
KeepsPlace(u, f, now) == waiting[u][f] > now

\* Mutation: one call too many.
HasRoomForOneMore(counted) == Len(counted) <= Limit
HasRoom(counted) == Len(counted) < Limit

\* Mutation: every refused call is told when the oldest call leaves the window.
FirstFreesAt(counted, told) == counted[1] + Window

\* The free slots, in order: as the counted calls leave the window, then as the
\* calls promised to earlier refusals leave it in their turn.
FreesAt(counted, told) ==
  LET slot == Len(told) IN
  IF slot < Len(counted) THEN counted[slot + 1] + Window
                         ELSE told[slot - Len(counted) + 1] + Window

Hold(u, f, now, counted, told) ==
  /\ KeepsPlace(u, f, now)
  /\ calls' = [calls EXCEPT ![u] = counted]
  /\ promised' = [promised EXCEPT ![u] = told]
  /\ UNCHANGED <<waiting, admitted>>

Admit(u, f, now, counted, told) ==
  /\ ~KeepsPlace(u, f, now)
  /\ HasRoom(counted)
  /\ calls' = [calls EXCEPT ![u] = Append(counted, now)]
  /\ promised' = [promised EXCEPT ![u] = told]
  /\ waiting' = [waiting EXCEPT ![u][f] = 0]
  /\ admitted' = [admitted EXCEPT ![u] = Append(@, clock)]

\* The entries of every user whose slot has passed are dropped as well.
Refuse(u, f, now, counted, told) ==
  LET slot == FreesAt(counted, told)
      live(due) == IF due > now THEN due ELSE 0
  IN /\ ~KeepsPlace(u, f, now)
     /\ ~HasRoom(counted)
     /\ calls' = [calls EXCEPT ![u] = counted]
     /\ promised' = [promised EXCEPT ![u] = Append(told, slot)]
     /\ waiting' = [v \in Users |-> [g \in Forms |->
          IF v = u /\ g = f THEN slot ELSE live(waiting[v][g])]]
     /\ UNCHANGED admitted

Decide(t) ==
  /\ thread[t] # Idle
  /\ LET u == thread[t].user
         f == thread[t].form
         now == thread[t].now
     IN \E gone \in 0..Len(calls[u]), past \in 0..Len(promised[u]) :
          LET counted == Without(calls[u], gone)
              told == Without(promised[u], past)
          IN /\ LeadingUpTo(calls[u], now - Window, gone)
             /\ LeadingUpTo(promised[u], now, past)
             /\ \/ Hold(u, f, now, counted, told)
                \/ Admit(u, f, now, counted, told)
                \/ Refuse(u, f, now, counted, told)
  /\ thread' = [thread EXCEPT ![t] = Idle]
  /\ UNCHANGED clock

Next ==
  \/ Tick
  \/ \E t \in Threads : Decide(t) \/ \E u \in Users, f \in Forms : Ask(t, u, f)

Spec == Init /\ [][Next]_vars

-----------------------------------------------------------------------------
(* Properties.                                                              *)

\* The promise of the class: Limit + 1 calls of a user are never admitted
\* within one window.  A thread that stalls before it gets the lock is counted
\* at the time it read, so the window really kept is shorter by that stall.
RateLimited ==
  \A u \in Users : \A i \in 1..(Len(admitted[u]) - Limit) :
    admitted[u][i + Limit] - admitted[u][i] >= Window - MaxStall

\* Refused calls are spread out, however late or often forms ask: no window
\* has more than Limit slots promised, so they are not all told one time.
PromisesFitWindow ==
  \A u \in Users : \A start \in clock..(MaxTime + Window) :
    Cardinality({i \in 1..Len(promised[u]) :
                   start <= promised[u][i] /\ promised[u][i] < start + Window}) <= Limit

\* "A second place in line would push everyone after it back": a slot still to
\* come is promised once for every form that waits for it, and to no other.
OnePlaceEach ==
  \A u \in Users :
    \A s \in {promised[u][i] : i \in 1..Len(promised[u])} \cup {waiting[u][f] : f \in Forms} :
      s > clock =>
        Cardinality({i \in 1..Len(promised[u]) : promised[u][i] = s})
          = Cardinality({f \in Forms : waiting[u][f] = s})

\* The places that refused forms are given: however late, early or often forms come
\* back, no window has more than Limit of them, and nobody has two.  It is not that
\* a form that comes back on time is admitted: a call that asks first may take the
\* room that has become free, since the guard admits without a look at the places
\* it has given, and the form is then given another.
PlacesAreSpread == PromisesFitWindow /\ OnePlaceEach
=============================================================================
