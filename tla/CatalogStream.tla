---------------------------- MODULE CatalogStream ----------------------------
(***************************************************************************)
(* load_catalog (core/catalog_stream.py): one generator that starts the    *)
(* loads of a catalog in a thread pool and yields a line per result.  The  *)
(* generator is one process, every load that runs is another, time passes, *)
(* and the reader may close the stream at any yield.  What a load returns  *)
(* is an input: the data, a slot of the quota guard (RetryLaterError), a   *)
(* 429 or no answer from Google, another error, or a lost grant (fatal).   *)
(***************************************************************************)
EXTENDS Integers, Sequences, FiniteSets

CONSTANTS
  Forms,        \* form_ids, without repetitions (_bounded_form_ids)
  FormOrder,    \* the order they were asked in
  Workers,      \* size of the pool
  Deadline,     \* deadline_seconds, in ticks of the clock
  Heartbeat,    \* HEARTBEAT_SECONDS
  RetryAfter,   \* GOOGLE_RATE_LIMIT_RETRY_SECONDS
  GuardSlots,   \* the waits the quota guard may ask for
  MaxTime       \* bound: ticks of the clock

ASSUME FormAssumption ==
  /\ FormOrder \in Seq(Forms)
  /\ \A f \in Forms : \E i \in 1..Len(FormOrder) : FormOrder[i] = f
  /\ \A i, j \in 1..Len(FormOrder) : FormOrder[i] = FormOrder[j] => i = j
ASSUME TimeAssumption ==
  /\ Workers \in Nat \ {0} /\ Deadline \in Nat /\ MaxTime \in Nat
  /\ Heartbeat \in Nat \ {0} /\ RetryAfter \in Nat /\ GuardSlots \subseteq Nat

GoogleRateLimitAttempts == 3
GoogleTimeoutAttempts == 2

Kinds == {"summary", "stats"}
Results == {"ok", "slot", "rate_limited", "unanswered", "failed", "fatal"}
Statuses == {"ok", "rate_limited", "timeout", "api_error"}
Ended == {"done", "error", "closed"}

VARIABLES
  clock,
  at,        \* the generator: "loop", "wait", "sleep", "drain", "expire" or Ended
  wake,      \* when its wait or sleep times out, 0 outside of them
  details,   \* forms whose details are not started
  counts,    \* loads ready to run once no details are left to start
  held,      \* loads held back until they are due, by due time and arrival
  running,   \* loads in the pool, with the result once there is one
  drained,   \* results the last wait returned and the loop still has to handle
  late,      \* at the deadline: the loads still to be reported as timeouts
  reported,  \* history: reported[k][f] is the statuses yielded for that load
  asked      \* history: calls of Google made for each load

vars == <<clock, at, wake, details, counts, held, running, drained, late,
          reported, asked>>

Loads == [kind : Kinds, form : Forms]
Tasks == [kind : Kinds, form : Forms, attempts : 0..2]
HeldTasks == [due : Nat, task : Tasks]
Futures == [task : Tasks, result : Results \cup {"none"}]

TypeOK ==
  /\ clock \in 0..MaxTime
  /\ at \in {"loop", "wait", "sleep", "drain", "expire"} \cup Ended
  /\ wake \in Nat
  /\ details \in Seq(Forms) /\ counts \in Seq(Tasks) /\ held \in Seq(HeldTasks)
  /\ running \subseteq Futures /\ Cardinality(running) <= Workers
  /\ drained \subseteq running /\ late \subseteq Loads
  /\ reported \in [Kinds -> [Forms -> Seq(Statuses)]]
  /\ asked \in [Kinds -> [Forms -> Nat]]

Init ==
  /\ clock = 0 /\ at = "loop" /\ wake = 0
  /\ details = FormOrder /\ counts = <<>> /\ held = <<>>
  /\ running = {} /\ drained = {} /\ late = {}
  /\ reported = [k \in Kinds |-> [f \in Forms |-> <<>>]]
  /\ asked = [k \in Kinds |-> [f \in Forms |-> 0]]

-----------------------------------------------------------------------------
(* The environment.                                                         *)

\* Time after the end of the stream is not modelled.
Tick ==
  /\ at \notin Ended
  /\ clock < MaxTime
  /\ clock' = clock + 1
  /\ UNCHANGED <<at, wake, details, counts, held, running, drained, late,
                 reported, asked>>

\* A load returns or raises, in its own thread.  Only the guard's refusal
\* happens before Google is called.
Finish(future, result) ==
  LET task == future.task IN
  /\ at \notin Ended
  /\ future.result = "none"
  /\ running' = (running \ {future}) \cup {[future EXCEPT !.result = result]}
  /\ asked' = [asked EXCEPT ![task.kind][task.form] = @ + (IF result = "slot" THEN 0 ELSE 1)]
  /\ UNCHANGED <<clock, at, wake, details, counts, held, drained, late, reported>>

\* The reader closes the stream; loads in flight finish unheard.
Close ==
  /\ at \notin Ended
  /\ at' = "closed"
  /\ UNCHANGED <<clock, wake, details, counts, held, running, drained, late,
                 reported, asked>>

-----------------------------------------------------------------------------
(* The generator.                                                           *)

First(queue, n) == SubSeq(queue, 1, n)
After(queue, n) == SubSeq(queue, n + 1, Len(queue))
Least(a, b) == IF a <= b THEN a ELSE b
LoadOf(task) == [kind |-> task.kind, form |-> task.form]

\* Mutation: what the quota holds back is forgotten at the deadline.
PendingUnheld ==
  {[kind |-> "summary", form |-> details[i]] : i \in 1..Len(details)}
    \cup {LoadOf(counts[i]) : i \in 1..Len(counts)}
    \cup {LoadOf(future.task) : future \in running}

Pending ==
  {[kind |-> "summary", form |-> details[i]] : i \in 1..Len(details)}
    \cup {LoadOf(counts[i]) : i \in 1..Len(counts)}
    \cup {LoadOf(held[i].task) : i \in 1..Len(held)}
    \cup {LoadOf(future.task) : future \in running}

WorkLeft == details # <<>> \/ counts # <<>> \/ held # <<>> \/ running # {}

Complete ==
  /\ at = "loop" /\ ~WorkLeft
  /\ at' = "done"
  /\ UNCHANGED <<clock, wake, details, counts, held, running, drained, late,
                 reported, asked>>

\* _timeouts collects everything pending before it yields the first line.
Expire ==
  /\ at = "loop" /\ WorkLeft /\ clock >= Deadline
  /\ at' = "expire"
  /\ late' = Pending
  /\ UNCHANGED <<clock, wake, details, counts, held, running, drained,
                 reported, asked>>

ReportLate(load) ==
  /\ at = "expire" /\ load \in late
  /\ late' = late \ {load}
  /\ reported' = [reported EXCEPT ![load.kind][load.form] = Append(@, "timeout")]
  /\ UNCHANGED <<clock, at, wake, details, counts, held, running, drained, asked>>

CompleteLate ==
  /\ at = "expire" /\ late = {}
  /\ at' = "done"
  /\ UNCHANGED <<clock, wake, details, counts, held, running, drained, late,
                 reported, asked>>

\* Mutation: the wait ends with a result only.
WakesWithResult(stillHeld) == MaxTime + 1

\* When a wait or a sleep that starts now times out.
WakesAt(stillHeld) ==
  LET soon == Least(clock + Heartbeat, Deadline) IN
  IF stillHeld = <<>> THEN soon ELSE Least(stillHeld[1].due, soon)

FreeWorkers == Workers - Cardinality(running)

\* One pass of the loop up to its wait or sleep: what is due at the head of the
\* heap becomes ready, and free workers take details first, then what is ready.
Dispatch ==
  \E k \in 0..Len(held) :
    LET ready == counts \o [i \in 1..k |-> held[i].task]
        n == Least(FreeWorkers, Len(details))
        m == Least(FreeWorkers - n, Len(ready))
        started == {[kind |-> "summary", form |-> details[i], attempts |-> 0] : i \in 1..n}
                     \cup {ready[i] : i \in 1..m}
    IN /\ at = "loop" /\ WorkLeft /\ clock < Deadline
       /\ \A i \in 1..k : held[i].due <= clock
       /\ k < Len(held) => held[k + 1].due > clock
       /\ held' = After(held, k)
       /\ details' = After(details, n)
       /\ counts' = After(ready, m)
       /\ running' = running \cup {[task |-> task, result |-> "none"] : task \in started}
       /\ at' = IF running' = {} THEN "sleep" ELSE "wait"
       /\ wake' = WakesAt(held')
       /\ UNCHANGED <<clock, drained, late, reported, asked>>

\* The sleep or the wait is over without a result; a "waiting" line was yielded.
WakeUp ==
  /\ \/ at = "sleep"
     \/ at = "wait" /\ \A future \in running : future.result = "none"
  /\ clock >= wake
  /\ at' = "loop"
  /\ wake' = 0
  /\ UNCHANGED <<clock, details, counts, held, running, drained, late,
                 reported, asked>>

\* wait returns everything that has finished by then.
Collect ==
  LET finished == {future \in running : future.result # "none"} IN
  /\ at = "wait" /\ finished # {}
  /\ drained' = finished
  /\ at' = "drain"
  /\ wake' = 0
  /\ UNCHANGED <<clock, details, counts, held, running, late,
                 reported, asked>>

\* heappush: the heap is ordered by due time, then by arrival.
HoldBack(task, due) ==
  LET n == Cardinality({i \in 1..Len(held) : held[i].due <= due}) IN
  held' = First(held, n) \o <<[due |-> due, task |-> task]>> \o After(held, n)

Again(task) == [task EXCEPT !.attempts = @ + 1]

Yield(task, status) ==
  reported' = [reported EXCEPT ![task.kind][task.form] = Append(@, status)]

\* Mutation: a form whose details failed is counted as well.
CountsAlways(task, status) ==
  IF task.kind = "summary" /\ status # "rate_limited"
    THEN Append(counts, [kind |-> "stats", form |-> task.form, attempts |-> 0])
    ELSE counts

CountsNext(task, status) ==
  IF task.kind = "summary" /\ status = "ok"
    THEN Append(counts, [kind |-> "stats", form |-> task.form, attempts |-> 0])
    ELSE counts

\* Mutation: a call is asked again once too often.
AsksFourTimes(task) == task.attempts < GoogleRateLimitAttempts
AsksAfterRateLimit(task) == task.attempts + 1 < GoogleRateLimitAttempts
AsksAfterTimeout(task) == task.attempts + 1 < GoogleTimeoutAttempts

\* The status a result is reported with, "none" when the load is held back.
StatusOf(task, result) ==
  CASE result = "ok" -> "ok"
    [] result = "rate_limited" -> IF AsksAfterRateLimit(task) THEN "none" ELSE "rate_limited"
    [] result = "unanswered" -> IF AsksAfterTimeout(task) THEN "none" ELSE "timeout"
    [] result = "failed" -> "api_error"
    [] OTHER -> "none"

Handle(future) ==
  LET task == future.task
      result == future.result
      status == StatusOf(task, result)
  IN /\ at = "drain" /\ future \in drained /\ result # "fatal"
     /\ running' = running \ {future}
     /\ drained' = drained \ {future}
     /\ at' = IF drained' = {} THEN "loop" ELSE "drain"
     /\ \/ status # "none" /\ Yield(task, status) /\ held' = held
        \/ status = "none" /\ reported' = reported
           /\ \/ result = "slot" /\ \E s \in GuardSlots : HoldBack(task, clock + s)
              \/ result = "rate_limited" /\ HoldBack(Again(task), clock + RetryAfter)
              \/ result = "unanswered" /\ HoldBack(Again(task), clock)
     /\ counts' = CountsNext(task, status)
     /\ UNCHANGED <<clock, wake, details, late, asked>>

HandleFatal(future) ==
  /\ at = "drain" /\ future \in drained /\ future.result = "fatal"
  /\ running' = running \ {future}
  /\ drained' = drained \ {future}
  /\ at' = "error"
  /\ UNCHANGED <<clock, wake, details, counts, held, late, reported, asked>>

-----------------------------------------------------------------------------

Generator ==
  \/ Complete \/ Expire \/ CompleteLate \/ Dispatch \/ WakeUp \/ Collect
  \/ \E load \in late : ReportLate(load)
  \/ \E future \in drained : Handle(future) \/ HandleFatal(future)

Next ==
  \/ Tick \/ Close \/ Generator
  \/ \E future \in running, result \in Results : Finish(future, result)

Spec == Init /\ [][Next]_vars

(***************************************************************************)
(* The clock goes on, and the server goes on asking the generator for its  *)
(* next line.  Nothing is assumed of the loads: a call may hang for ever.  *)
(***************************************************************************)
FairSpec == Spec /\ WF_vars(Tick) /\ WF_vars(Generator)

-----------------------------------------------------------------------------
(* Properties.                                                              *)

\* Until the stream ends every load is in exactly one place: waiting, held, in
\* the pool, or reported once.  None is lost between two queues, none is
\* started twice, and the count of a form exists only after its details.
Places(k, f) ==
  Cardinality({i \in 1..Len(details) : k = "summary" /\ details[i] = f})
  + Cardinality({i \in 1..Len(counts) : LoadOf(counts[i]) = [kind |-> k, form |-> f]})
  + Cardinality({i \in 1..Len(held) : LoadOf(held[i].task) = [kind |-> k, form |-> f]})
  + Cardinality({future \in running : LoadOf(future.task) = [kind |-> k, form |-> f]})
  + Len(reported[k][f])

EveryLoadHasOnePlace ==
  at \in {"loop", "wait", "sleep", "drain"} => \A f \in Forms :
    /\ Places("summary", f) = 1
    /\ Places("stats", f) = IF reported["summary"][f] = <<"ok">> THEN 1 ELSE 0

\* Retries after 429s and after unanswered calls share one counter: no mixture
\* of the two asks Google more than three times for one load.
GoogleAskedAtMostThrice == \A k \in Kinds, f \in Forms : asked[k][f] <= 3

\* No load is lost, doubled or asked for without end.
LoadsAreKept == TypeOK /\ EveryLoadHasOnePlace /\ GoogleAskedAtMostThrice

\* The stream ends even when no call is ever answered and nobody closes it.
AlwaysEnds == <>(at \in Ended)

\* What the reader sees follows CatalogProgress.
Progress == INSTANCE CatalogProgress
  WITH summary <- reported["summary"], stats <- reported["stats"],
       end <- CASE at = "done" -> "done" [] at \in {"error", "closed"} -> "cut" [] OTHER -> "open"

ImplementsProgress == Progress!Spec
=============================================================================
