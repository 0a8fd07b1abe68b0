------------------------ MODULE CatalogStreamProofs ------------------------
(***************************************************************************)
(* Proofs about CatalogStream, for any number of forms and workers and any *)
(* times: no load is lost, doubled or asked for without end, and what the  *)
(* reader sees follows CatalogProgress.  A load waits in one of three      *)
(* queues or is in the pool, never in two of them; what is nowhere was     *)
(* reported, once; and what Google was asked is what the load has counted. *)
(***************************************************************************)
EXTENDS CatalogStream, FiniteSetTheorems, SequenceTheorems, TLAPS

\* The loads in details d, counts c, held h and running r, four places of a state.
InDetails(d) == {[kind |-> "summary", form |-> d[i]] : i \in 1..Len(d)}
InCounts(c) == {LoadOf(c[i]) : i \in 1..Len(c)}
InHeld(h) == {LoadOf(h[i].task) : i \in 1..Len(h)}
InPool(r) == {LoadOf(future.task) : future \in r}
InPlace(d, c, h, r) == InDetails(d) \cup InCounts(c) \cup InHeld(h) \cup InPool(r)

Typed(d, c, h, r) ==
  d \in Seq(Forms) /\ c \in Seq(Tasks) /\ h \in Seq(HeldTasks) /\ r \subseteq Futures

\* No place holds a load twice, and no two places hold the same.
Apart(d, c, h, r) ==
  /\ \A i, j \in 1..Len(d) : d[i] = d[j] => i = j
  /\ \A i, j \in 1..Len(c) : LoadOf(c[i]) = LoadOf(c[j]) => i = j
  /\ \A i, j \in 1..Len(h) : LoadOf(h[i].task) = LoadOf(h[j].task) => i = j
  /\ \A x, y \in r : LoadOf(x.task) = LoadOf(y.task) => x = y
  /\ InDetails(d) \cap InCounts(c) = {} /\ InDetails(d) \cap InHeld(h) = {}
  /\ InDetails(d) \cap InPool(r) = {} /\ InCounts(c) \cap InHeld(h) = {}
  /\ InCounts(c) \cap InPool(r) = {} /\ InHeld(h) \cap InPool(r) = {}

\* Google was asked as often as the load has counted, and once more when the
\* load has come back with what Google said.
AskedFor(task, n) == asked[task.kind][task.form] = task.attempts + n
Heard(future) == IF future.result \in {"none", "slot"} THEN 0 ELSE 1

Counted(d, c, h, r) ==
  /\ \A i \in 1..Len(d) : asked["summary"][d[i]] = 0
  /\ \A i \in 1..Len(c) : AskedFor(c[i], 0)
  /\ \A i \in 1..Len(h) : AskedFor(h[i].task, 0)
  /\ \A future \in r : AskedFor(future.task, Heard(future))

Well(d, c, h, r) == Typed(d, c, h, r) /\ Apart(d, c, h, r) /\ Counted(d, c, h, r)

PoolIsBounded == IsFiniteSet(running) /\ Cardinality(running) <= Workers

\* What the reader has still to hear of.
Owed == IF at = "expire" THEN late ELSE Pending
Load(k, f) == [kind |-> k, form |-> f]

ReportsMatch ==
  at \notin Ended => \A f \in Forms :
    /\ Load("summary", f) \in Owed <=> reported["summary"][f] = <<>>
    /\ Load("stats", f) \in Owed <=>
         reported["summary"][f] = <<"ok">> /\ reported["stats"][f] = <<>>
    /\ reported["stats"][f] # <<>> \/ Load("stats", f) \in Pending =>
         reported["summary"][f] = <<"ok">>
    /\ reported["summary"][f] # <<"ok">> => asked["stats"][f] = 0
    /\ \A k \in Kinds : Len(reported[k][f]) <= 1

StreamInv ==
  /\ TypeOK
  /\ PoolIsBounded
  /\ Well(details, counts, held, running)
  /\ \A future \in drained : future.result # "none"
  /\ ReportsMatch
  /\ GoogleAskedAtMostThrice

-----------------------------------------------------------------------------
(* Queues.                                                                  *)

LEMMA PartsOfQueue ==
  ASSUME NEW S, NEW s \in Seq(S), NEW n \in 0..Len(s)
  PROVE  /\ First(s, n) \in Seq(S) /\ Len(First(s, n)) = n
         /\ \A i \in 1..n : First(s, n)[i] = s[i]
         /\ After(s, n) \in Seq(S) /\ Len(After(s, n)) = Len(s) - n
         /\ \A i \in 1..(Len(s) - n) : After(s, n)[i] = s[n + i]
  BY DEF First, After

LEMMA JoinedQueues ==
  ASSUME NEW S, NEW a \in Seq(S), NEW b \in Seq(S)
  PROVE  /\ a \o b \in Seq(S) /\ Len(a \o b) = Len(a) + Len(b)
         /\ \A i \in 1..Len(a) : (a \o b)[i] = a[i]
         /\ \A i \in 1..Len(b) : (a \o b)[Len(a) + i] = b[i]
  OBVIOUS

Inserted(s, x, n) == First(s, n) \o <<x>> \o After(s, n)

LEMMA InsertedQueue ==
  ASSUME NEW s \in Seq(HeldTasks), NEW x \in HeldTasks, NEW n \in 0..Len(s)
  PROVE  /\ Inserted(s, x, n) \in Seq(HeldTasks) /\ Len(Inserted(s, x, n)) = Len(s) + 1
         /\ \A i \in 1..n : Inserted(s, x, n)[i] = s[i]
         /\ Inserted(s, x, n)[n + 1] = x
         /\ \A i \in (n + 1)..Len(s) : Inserted(s, x, n)[i + 1] = s[i]
<1>. DEFINE s2 == Inserted(s, x, n)
            a == First(s, n)
            b == After(s, n)
            e == a \o <<x>>
<1>1. /\ a \in Seq(HeldTasks) /\ Len(a) = n /\ \A i \in 1..n : a[i] = s[i]
      /\ b \in Seq(HeldTasks) /\ Len(b) = Len(s) - n /\ \A i \in 1..(Len(s) - n) : b[i] = s[n + i]
  BY PartsOfQueue
<1>2. s2 = e \o b
  BY DEF Inserted
<1>. HIDE DEF a, b, s2
<1>3. e \in Seq(HeldTasks) /\ Len(e) = n + 1 /\ e[n + 1] = x /\ \A i \in 1..n : e[i] = a[i]
  <2>. DEFINE one == <<x>>
  <2>1. one \in Seq(HeldTasks) /\ Len(one) = 1 /\ one[1] = x
    OBVIOUS
  <2>2. e = a \o one
    OBVIOUS
  <2>. HIDE DEF one, e
  <2>3. /\ a \o one \in Seq(HeldTasks) /\ Len(a \o one) = Len(a) + Len(one)
        /\ \A i \in 1..Len(a) : (a \o one)[i] = a[i]
        /\ \A i \in 1..Len(one) : (a \o one)[Len(a) + i] = one[i]
    <3>1. a \in Seq(HeldTasks) /\ one \in Seq(HeldTasks)
      BY <1>1, <2>1
    <3>. QED
      BY <3>1, JoinedQueues
  <2>. QED
    BY <1>1, <2>1, <2>2, <2>3
<1>. HIDE DEF e
<1>4. /\ s2 \in Seq(HeldTasks) /\ Len(s2) = Len(s) + 1
      /\ \A i \in 1..Len(e) : s2[i] = e[i]
      /\ \A i \in 1..Len(b) : s2[Len(e) + i] = b[i]
  <2>1. Len(e) + Len(b) = Len(s) + 1
    BY <1>1, <1>3
  <2>2. /\ e \o b \in Seq(HeldTasks) /\ Len(e \o b) = Len(e) + Len(b)
        /\ \A i \in 1..Len(e) : (e \o b)[i] = e[i]
        /\ \A i \in 1..Len(b) : (e \o b)[Len(e) + i] = b[i]
    <3>1. e \in Seq(HeldTasks) /\ b \in Seq(HeldTasks)
      BY <1>1, <1>3
    <3>. QED
      BY <3>1, JoinedQueues
  <2>. QED
    BY <1>2, <2>1, <2>2
<1>5. ASSUME NEW i \in (n + 1)..Len(s) PROVE s2[i + 1] = s[i]
  <2>1. i - n \in 1..Len(b) /\ Len(e) + (i - n) = i + 1 /\ n + (i - n) = i
    BY <1>1, <1>3
  <2>2. s2[Len(e) + (i - n)] = b[i - n]
    BY <1>4, <2>1
  <2>3. b[i - n] = s[n + (i - n)]
    BY <1>1, <2>1
  <2>. QED
    BY <2>1, <2>2, <2>3
<1>6. ASSUME NEW i \in 1..n PROVE s2[i] = s[i]
  <2>1. i \in 1..Len(e)
    BY <1>3
  <2>. QED
    BY <1>1, <1>3, <1>4, <2>1
<1>7. s2[n + 1] = x
  <2>1. n + 1 \in 1..Len(e)
    BY <1>3
  <2>. QED
    BY <1>3, <1>4, <2>1
<1>. QED
  BY <1>4, <1>5, <1>6, <1>7 DEF s2

\* What a pass of the loop moves: what is due, details to start, what is ready.
WithDue(c, h, k) == c \o [i \in 1..k |-> h[i].task]
FirstDetails(d, n) == {[kind |-> "summary", form |-> d[i], attempts |-> 0] : i \in 1..n}
FirstReady(c, m) == {c[i] : i \in 1..m}
LoadsOf(tasks) == {LoadOf(t) : t \in tasks}

\* What is due moves from the heap to what is ready.
LEMMA MoveDue ==
  ASSUME NEW d, NEW c, NEW h, NEW r, Well(d, c, h, r), NEW k \in 0..Len(h), NEW c2,
         c2 = WithDue(c, h, k)
  PROVE  /\ Well(d, c2, After(h, k), r)
         /\ InPlace(d, c2, After(h, k), r) = InPlace(d, c, h, r)
<1>. DEFINE h2 == After(h, k)
            moved == {LoadOf(h[i].task) : i \in 1..k}
<1>1. /\ d \in Seq(Forms) /\ c \in Seq(Tasks) /\ h \in Seq(HeldTasks) /\ r \subseteq Futures
      /\ Apart(d, c, h, r) /\ Counted(d, c, h, r)
  BY DEF Well, Typed
<1>2. /\ h2 \in Seq(HeldTasks) /\ Len(h2) = Len(h) - k
      /\ \A i \in 1..(Len(h) - k) : h2[i] = h[k + i]
  BY <1>1, PartsOfQueue
<1>3. /\ [i \in 1..k |-> h[i].task] \in Seq(Tasks) /\ Len([i \in 1..k |-> h[i].task]) = k
  <2>1. \A i \in 1..Len(h) : h[i] \in HeldTasks
    BY <1>1
  <2>2. \A i \in 1..k : h[i].task \in Tasks
    BY <1>1, <2>1 DEF HeldTasks
  <2>. QED
    BY <2>2
<1>4. /\ c2 \in Seq(Tasks) /\ Len(c2) = Len(c) + k
      /\ \A i \in 1..Len(c) : c2[i] = c[i]
      /\ \A i \in 1..k : c2[Len(c) + i] = h[i].task
  BY <1>1, <1>3 DEF WithDue
<1>. HIDE DEF h2
<1>5. InCounts(c2) = InCounts(c) \cup moved
  <2>1. ASSUME NEW i \in 1..Len(c2) PROVE LoadOf(c2[i]) \in InCounts(c) \cup moved
    <3>1. CASE i \in 1..Len(c)
      BY <1>4, <3>1 DEF InCounts
    <3>2. CASE i \notin 1..Len(c)
      <4>1. i - Len(c) \in 1..k /\ i = Len(c) + (i - Len(c))
        BY <1>1, <1>4, <3>2
      <4>. QED
        BY <1>4, <4>1
    <3>. QED
      BY <3>1, <3>2
  <2>2. ASSUME NEW i \in 1..Len(c) PROVE LoadOf(c[i]) \in InCounts(c2)
    BY <1>1, <1>4 DEF InCounts
  <2>3. ASSUME NEW i \in 1..k PROVE LoadOf(h[i].task) \in InCounts(c2)
    <3>1. Len(c) + i \in 1..Len(c2)
      BY <1>1, <1>4
    <3>. QED
      BY <1>4, <3>1 DEF InCounts
  <2>. QED
    BY <2>1, <2>2, <2>3 DEF InCounts
<1>6. InHeld(h) = InHeld(h2) \cup moved
  <2>1. ASSUME NEW i \in 1..Len(h) PROVE LoadOf(h[i].task) \in InHeld(h2) \cup moved
    <3>1. CASE i \notin 1..k
      <4>1. i - k \in 1..Len(h2) /\ h2[i - k] = h[i]
        BY <1>1, <1>2, <3>1
      <4>. QED
        BY <4>1 DEF InHeld
    <3>. QED
      BY <3>1
  <2>2. ASSUME NEW i \in 1..Len(h2) PROVE LoadOf(h2[i].task) \in InHeld(h)
    <3>1. k + i \in 1..Len(h) /\ h2[i] = h[k + i]
      BY <1>1, <1>2
    <3>. QED
      BY <3>1 DEF InHeld
  <2>3. moved \subseteq InHeld(h)
    BY <1>1 DEF InHeld
  <2>. QED
    BY <2>1, <2>2, <2>3 DEF InHeld
<1>7. InHeld(h2) \cap moved = {}
  <2>. SUFFICES ASSUME NEW i \in 1..Len(h2), NEW j \in 1..k, LoadOf(h2[i].task) = LoadOf(h[j].task)
                PROVE  FALSE
    BY DEF InHeld
  <2>1. k + i \in 1..Len(h) /\ h2[i] = h[k + i] /\ j \in 1..Len(h) /\ k + i # j
    <3>1. Len(h) \in Nat /\ Len(h2) = Len(h) - k
      BY <1>1, <1>2
    <3>2. i \in 1..(Len(h) - k)
      BY <3>1
    <3>3. k + i \in 1..Len(h) /\ j \in 1..Len(h) /\ k + i # j
      BY <3>1, <3>2
    <3>. QED
      BY <1>2, <3>2, <3>3
  <2>. QED
    BY <1>1, <2>1 DEF Apart
<1>8. \A i, j \in 1..Len(h2) : LoadOf(h2[i].task) = LoadOf(h2[j].task) => i = j
  <2>. SUFFICES ASSUME NEW i \in 1..Len(h2), NEW j \in 1..Len(h2), LoadOf(h2[i].task) = LoadOf(h2[j].task)
                PROVE  i = j
    OBVIOUS
  <2>1. k + i \in 1..Len(h) /\ h2[i] = h[k + i] /\ k + j \in 1..Len(h) /\ h2[j] = h[k + j]
    BY <1>1, <1>2
  <2>2. k + i = k + j
    BY <1>1, <2>1 DEF Apart
  <2>. QED
    BY <2>2
<1>9. \A i, j \in 1..Len(c2) : LoadOf(c2[i]) = LoadOf(c2[j]) => i = j
  <2>1. ASSUME NEW i \in 1..Len(c2)
        PROVE  \/ i \in 1..Len(c) /\ c2[i] = c[i]
               \/ i - Len(c) \in 1..k /\ c2[i] = h[i - Len(c)].task
    <3>1. CASE i \in 1..Len(c)
      BY <1>4, <3>1
    <3>2. CASE i \notin 1..Len(c)
      <4>1. i - Len(c) \in 1..k /\ i = Len(c) + (i - Len(c))
        BY <1>1, <1>4, <3>2
      <4>. QED
        BY <1>4, <4>1
    <3>. QED
      BY <3>1, <3>2
  <2>. SUFFICES ASSUME NEW i \in 1..Len(c2), NEW j \in 1..Len(c2), LoadOf(c2[i]) = LoadOf(c2[j])
                PROVE  i = j
    OBVIOUS
  <2>2. ASSUME NEW a \in 1..Len(c), NEW b \in 1..k PROVE LoadOf(c[a]) # LoadOf(h[b].task)
    <3>1. LoadOf(c[a]) \in InCounts(c) /\ LoadOf(h[b].task) \in InHeld(h)
      BY <1>1 DEF InCounts, InHeld
    <3>. QED
      BY <1>1, <3>1 DEF Apart
  <2>3. CASE i \in 1..Len(c) /\ c2[i] = c[i]
    BY <1>1, <2>1, <2>2, <2>3 DEF Apart
  <2>4. CASE i - Len(c) \in 1..k /\ c2[i] = h[i - Len(c)].task
    <3>1. j - Len(c) \in 1..k /\ c2[j] = h[j - Len(c)].task
      BY <2>1, <2>2, <2>4
    <3>2. i - Len(c) = j - Len(c)
      <4>1. \A a, b \in 1..Len(h) : LoadOf(h[a].task) = LoadOf(h[b].task) => a = b
        BY <1>1 DEF Apart
      <4>2. i - Len(c) \in 1..Len(h) /\ j - Len(c) \in 1..Len(h)
        BY <1>1, <2>4, <3>1
      <4>. QED
        BY <2>4, <3>1, <4>1, <4>2
    <3>. QED
      BY <1>1, <3>2
  <2>. QED
    BY <2>1, <2>3, <2>4
<1>10. Apart(d, c2, h2, r)
  BY <1>1, <1>5, <1>6, <1>7, <1>8, <1>9 DEF Apart
<1>11. Counted(d, c2, h2, r)
  <2>1. ASSUME NEW i \in 1..Len(h2) PROVE AskedFor(h2[i].task, 0)
    <3>1. k + i \in 1..Len(h) /\ h2[i] = h[k + i]
      BY <1>1, <1>2
    <3>. QED
      BY <1>1, <3>1 DEF Counted
  <2>2. ASSUME NEW i \in 1..Len(c2) PROVE AskedFor(c2[i], 0)
    <3>1. CASE i \in 1..Len(c)
      BY <1>1, <1>4, <3>1 DEF Counted
    <3>2. CASE i \notin 1..Len(c)
      <4>1. i - Len(c) \in 1..k /\ i = Len(c) + (i - Len(c))
        BY <1>1, <1>4, <3>2
      <4>2. c2[i] = h[i - Len(c)].task /\ i - Len(c) \in 1..Len(h)
        BY <1>1, <1>4, <4>1
      <4>. QED
        BY <1>1, <4>2 DEF Counted
    <3>. QED
      BY <3>1, <3>2
  <2>. QED
    BY <1>1, <2>1, <2>2 DEF Counted
<1>. QED
  BY <1>1, <1>2, <1>4, <1>5, <1>6, <1>10, <1>11 DEF Well, Typed, InPlace, h2

\* Tasks whose loads are in no place, each once, may start.
Fresh(tasks, d, c, h, r) ==
  /\ tasks \subseteq Tasks
  /\ \A s, t \in tasks : LoadOf(s) = LoadOf(t) => s = t
  /\ \A t \in tasks : LoadOf(t) \notin InPlace(d, c, h, r) /\ AskedFor(t, 0)

Started(tasks) == {[task |-> task, result |-> "none"] : task \in tasks}

LEMMA StartTasks ==
  ASSUME NEW d, NEW c, NEW h, NEW r, Well(d, c, h, r), NEW tasks, Fresh(tasks, d, c, h, r)
  PROVE  /\ Well(d, c, h, r \cup Started(tasks))
         /\ InPlace(d, c, h, r \cup Started(tasks)) =
              InPlace(d, c, h, r) \cup LoadsOf(tasks)
<1>. DEFINE new == Started(tasks)
<1>0. \A x \in new : \E t \in tasks : x = [task |-> t, result |-> "none"]
  BY DEF Started
<1>1. /\ new \subseteq Futures
      /\ \A x \in new : x.task \in tasks /\ x.result = "none" /\ x = [task |-> x.task, result |-> "none"]
      /\ \A t \in tasks : \E x \in new : x.task = t
  <2>1. new \subseteq Futures
    BY <1>0 DEF Futures, Fresh
  <2>2. \A t \in tasks : [task |-> t, result |-> "none"] \in new
    BY DEF Started
  <2>3. ASSUME NEW t \in tasks PROVE \E x \in new : x.task = t
    <3>1. [task |-> t, result |-> "none"].task = t
      OBVIOUS
    <3>. QED
      BY <2>2, <3>1
  <2>. QED
    BY <1>0, <2>1, <2>3
<1>. HIDE DEF new
<1>2. InPool(r \cup new) = InPool(r) \cup {LoadOf(t) : t \in tasks}
  BY <1>1 DEF InPool
<1>3. \A x, y \in r \cup new : LoadOf(x.task) = LoadOf(y.task) => x = y
  <2>1. \A x \in r, y \in new : LoadOf(x.task) # LoadOf(y.task)
    BY <1>1 DEF Fresh, InPlace, InPool
  <2>2. \A x, y \in new : LoadOf(x.task) = LoadOf(y.task) => x = y
    BY <1>1 DEF Fresh
  <2>3. \A x, y \in r : LoadOf(x.task) = LoadOf(y.task) => x = y
    BY DEF Well, Apart
  <2>. QED
    BY <2>1, <2>2, <2>3
<1>4. Apart(d, c, h, r \cup new)
  <2>1. \A t \in tasks : LoadOf(t) \notin InDetails(d) /\ LoadOf(t) \notin InCounts(c) /\ LoadOf(t) \notin InHeld(h)
    BY DEF Fresh, InPlace
  <2>2. Apart(d, c, h, r)
    BY DEF Well
  <2>3. /\ InDetails(d) \cap InPool(r \cup new) = {}
        /\ InCounts(c) \cap InPool(r \cup new) = {}
        /\ InHeld(h) \cap InPool(r \cup new) = {}
    <3>. DEFINE loads == {LoadOf(t) : t \in tasks}
    <3>1. loads \cap InDetails(d) = {} /\ loads \cap InCounts(c) = {} /\ loads \cap InHeld(h) = {}
      BY <2>1
    <3>2. /\ InDetails(d) \cap InPool(r) = {} /\ InCounts(c) \cap InPool(r) = {}
          /\ InHeld(h) \cap InPool(r) = {}
      BY <2>2 DEF Apart
    <3>3. InPool(r \cup new) = InPool(r) \cup loads
      BY <1>2
    <3>. HIDE DEF loads, new
    <3>. QED
      BY <3>1, <3>2, <3>3
  <2>. QED
    BY <1>3, <2>2, <2>3 DEF Apart
<1>5. Counted(d, c, h, r \cup new)
  BY <1>1 DEF Well, Counted, Fresh, Heard
<1>. QED
  BY <1>1, <1>2, <1>4, <1>5 DEF Well, Typed, InPlace, new, LoadsOf

LEMMA TakeDetails ==
  ASSUME NEW d, NEW c, NEW h, NEW r, Well(d, c, h, r), NEW n \in 0..Len(d), NEW tasks,
         tasks = FirstDetails(d, n)
  PROVE  /\ Well(After(d, n), c, h, r)
         /\ Fresh(tasks, After(d, n), c, h, r)
         /\ InPlace(d, c, h, r) = InPlace(After(d, n), c, h, r) \cup LoadsOf(tasks)
<1>. DEFINE d2 == After(d, n)
<1>1. /\ d \in Seq(Forms) /\ c \in Seq(Tasks) /\ h \in Seq(HeldTasks) /\ r \subseteq Futures
      /\ Apart(d, c, h, r) /\ Counted(d, c, h, r)
  BY DEF Well, Typed
<1>2. /\ d2 \in Seq(Forms) /\ Len(d2) = Len(d) - n
      /\ \A i \in 1..(Len(d) - n) : d2[i] = d[n + i]
  BY <1>1, PartsOfQueue
<1>. HIDE DEF d2
<1>3. \A i \in 1..Len(d2) : n + i \in 1..Len(d) /\ d2[i] = d[n + i]
  BY <1>1, <1>2
<1>0. tasks = {[kind |-> "summary", form |-> d[i], attempts |-> 0] : i \in 1..n}
  BY DEF FirstDetails
<1>4. \A t \in tasks : \E i \in 1..n : t = [kind |-> "summary", form |-> d[i], attempts |-> 0]
  BY <1>0
<1>5. \A i \in 1..n : d[i] \in Forms /\ i \in 1..Len(d)
  BY <1>1
<1>6. InDetails(d) = InDetails(d2) \cup {LoadOf(t) : t \in tasks}
  <2>1. ASSUME NEW i \in 1..Len(d), i \notin 1..n PROVE d[i] \in {d2[j] : j \in 1..Len(d2)}
    <3>1. i - n \in 1..Len(d2) /\ d2[i - n] = d[i]
      BY <1>1, <1>2, <2>1
    <3>. QED
      BY <3>1
  <2>2. {LoadOf(t) : t \in tasks} = {[kind |-> "summary", form |-> d[i]] : i \in 1..n}
    <3>1. \A i \in 1..n : LoadOf([kind |-> "summary", form |-> d[i], attempts |-> 0])
                              = [kind |-> "summary", form |-> d[i]]
      BY DEF LoadOf
    <3>2. \A t \in tasks : \E i \in 1..n : LoadOf(t) = [kind |-> "summary", form |-> d[i]]
      BY <1>4, <3>1
    <3>3. \A i \in 1..n : [kind |-> "summary", form |-> d[i], attempts |-> 0] \in tasks
      BY <1>0
    <3>4. \A i \in 1..n : \E t \in tasks : LoadOf(t) = [kind |-> "summary", form |-> d[i]]
      BY <3>1, <3>3
    <3>. QED
      BY <3>2, <3>4
  <2>. QED
    BY <1>3, <1>5, <2>1, <2>2 DEF InDetails
<1>7. \A i, j \in 1..Len(d) : d[i] = d[j] => i = j
  BY <1>1 DEF Apart
<1>8. \A i, j \in 1..Len(d2) : d2[i] = d2[j] => i = j
  <2>. SUFFICES ASSUME NEW i \in 1..Len(d2), NEW j \in 1..Len(d2), d2[i] = d2[j] PROVE i = j
    OBVIOUS
  <2>1. n + i = n + j
    BY <1>3, <1>7
  <2>. QED
    BY <2>1
<1>9. \A t \in tasks : LoadOf(t) \notin InDetails(d2)
  <2>. SUFFICES ASSUME NEW t \in tasks, NEW j \in 1..Len(d2),
                       LoadOf(t) = [kind |-> "summary", form |-> d2[j]]
                PROVE  FALSE
    BY DEF InDetails
  <2>1. PICK i \in 1..n : t = [kind |-> "summary", form |-> d[i], attempts |-> 0]
    BY <1>4
  <2>2. d[i] = d2[j]
    BY <2>1 DEF LoadOf
  <2>3. n + j \in 1..Len(d) /\ d2[j] = d[n + j] /\ i \in 1..Len(d) /\ i # n + j
    BY <1>3, <1>5
  <2>. QED
    BY <1>7, <2>2, <2>3
<1>10. Apart(d2, c, h, r)
  BY <1>1, <1>6, <1>8 DEF Apart
<1>11. Counted(d2, c, h, r)
  BY <1>1, <1>3 DEF Counted
<1>12. Fresh(tasks, d2, c, h, r)
  <2>1. tasks \subseteq Tasks
    BY <1>4, <1>5 DEF Tasks, Kinds
  <2>2. \A s, t \in tasks : LoadOf(s) = LoadOf(t) => s = t
    BY <1>4 DEF LoadOf
  <2>3. \A t \in tasks : LoadOf(t) \notin InPlace(d2, c, h, r)
    BY <1>1, <1>6, <1>9 DEF Apart, InPlace
  <2>4. \A t \in tasks : AskedFor(t, 0)
    BY <1>1, <1>4, <1>5 DEF Counted, AskedFor
  <2>. QED
    BY <2>1, <2>2, <2>3, <2>4 DEF Fresh
<1>. QED
  BY <1>1, <1>2, <1>6, <1>10, <1>11, <1>12 DEF Well, Typed, InPlace, d2, LoadsOf

LEMMA TakeReady ==
  ASSUME NEW d, NEW c, NEW h, NEW r, Well(d, c, h, r), NEW m \in 0..Len(c), NEW tasks,
         tasks = FirstReady(c, m)
  PROVE  /\ Well(d, After(c, m), h, r)
         /\ Fresh(tasks, d, After(c, m), h, r)
         /\ InPlace(d, c, h, r) = InPlace(d, After(c, m), h, r) \cup LoadsOf(tasks)
<1>. DEFINE c2 == After(c, m)
<1>1. /\ d \in Seq(Forms) /\ c \in Seq(Tasks) /\ h \in Seq(HeldTasks) /\ r \subseteq Futures
      /\ Apart(d, c, h, r) /\ Counted(d, c, h, r)
  BY DEF Well, Typed
<1>2. /\ c2 \in Seq(Tasks) /\ Len(c2) = Len(c) - m
      /\ \A i \in 1..(Len(c) - m) : c2[i] = c[m + i]
  BY <1>1, PartsOfQueue
<1>. HIDE DEF c2
<1>3. \A i \in 1..Len(c2) : m + i \in 1..Len(c) /\ c2[i] = c[m + i]
  BY <1>1, <1>2
<1>4. tasks = {c[i] : i \in 1..m}
  BY DEF FirstReady
<1>5. \A i \in 1..m : c[i] \in Tasks /\ i \in 1..Len(c)
  BY <1>1
<1>6. InCounts(c) = InCounts(c2) \cup {LoadOf(t) : t \in tasks}
  <2>1. ASSUME NEW i \in 1..Len(c), i \notin 1..m PROVE LoadOf(c[i]) \in InCounts(c2)
    <3>1. i - m \in 1..Len(c2) /\ c2[i - m] = c[i]
      BY <1>1, <1>2, <2>1
    <3>. QED
      BY <3>1 DEF InCounts
  <2>. QED
    BY <1>3, <1>4, <1>5, <2>1 DEF InCounts
<1>7. \A i, j \in 1..Len(c) : LoadOf(c[i]) = LoadOf(c[j]) => i = j
  BY <1>1 DEF Apart
<1>8. \A i, j \in 1..Len(c2) : LoadOf(c2[i]) = LoadOf(c2[j]) => i = j
  <2>. SUFFICES ASSUME NEW i \in 1..Len(c2), NEW j \in 1..Len(c2), LoadOf(c2[i]) = LoadOf(c2[j]) PROVE i = j
    OBVIOUS
  <2>1. m + i = m + j
    BY <1>3, <1>7
  <2>. QED
    BY <2>1
<1>9. \A t \in tasks : LoadOf(t) \notin InCounts(c2)
  <2>. SUFFICES ASSUME NEW i \in 1..m, NEW j \in 1..Len(c2), LoadOf(c[i]) = LoadOf(c2[j]) PROVE FALSE
    BY <1>4 DEF InCounts
  <2>. QED
    BY <1>3, <1>5, <1>7
<1>10. Apart(d, c2, h, r)
  BY <1>1, <1>6, <1>8 DEF Apart
<1>11. Counted(d, c2, h, r)
  BY <1>1, <1>3 DEF Counted
<1>12. Fresh(tasks, d, c2, h, r)
  <2>1. tasks \subseteq Tasks
    BY <1>4, <1>5
  <2>2. \A s, t \in tasks : LoadOf(s) = LoadOf(t) => s = t
    BY <1>4, <1>5, <1>7
  <2>3. \A t \in tasks : LoadOf(t) \notin InPlace(d, c2, h, r)
    BY <1>1, <1>6, <1>9 DEF Apart, InPlace
  <2>4. \A t \in tasks : AskedFor(t, 0)
    BY <1>1, <1>4, <1>5 DEF Counted
  <2>. QED
    BY <2>1, <2>2, <2>3, <2>4 DEF Fresh
<1>. QED
  BY <1>1, <1>2, <1>6, <1>10, <1>11, <1>12 DEF Well, Typed, InPlace, c2, LoadsOf

LEMMA LeavePool ==
  ASSUME NEW d, NEW c, NEW h, NEW r, Well(d, c, h, r), NEW x \in r
  PROVE  /\ Well(d, c, h, r \ {x})
         /\ LoadOf(x.task) \notin InPlace(d, c, h, r \ {x})
         /\ InPlace(d, c, h, r) = InPlace(d, c, h, r \ {x}) \cup {LoadOf(x.task)}
<1>1. Apart(d, c, h, r) /\ Counted(d, c, h, r) /\ Typed(d, c, h, r)
  BY DEF Well
<1>2. InPool(r) = InPool(r \ {x}) \cup {LoadOf(x.task)}
  BY DEF InPool
<1>3. LoadOf(x.task) \notin InPool(r \ {x})
  BY <1>1 DEF InPool, Apart
<1>4. LoadOf(x.task) \notin InDetails(d) \cup InCounts(c) \cup InHeld(h)
  BY <1>1, <1>2 DEF Apart
<1>5. Apart(d, c, h, r \ {x})
  BY <1>1, <1>2 DEF Apart
<1>6. Counted(d, c, h, r \ {x}) /\ Typed(d, c, h, r \ {x})
  BY <1>1 DEF Counted, Typed
<1>. QED
  BY <1>2, <1>3, <1>4, <1>5, <1>6 DEF Well, InPlace

LEMMA JoinCounts ==
  ASSUME NEW d, NEW c, NEW h, NEW r, Well(d, c, h, r),
         NEW t \in Tasks, LoadOf(t) \notin InPlace(d, c, h, r), AskedFor(t, 0)
  PROVE  /\ Well(d, Append(c, t), h, r)
         /\ InPlace(d, Append(c, t), h, r) = InPlace(d, c, h, r) \cup {LoadOf(t)}
<1>. DEFINE c2 == Append(c, t)
<1>1. Apart(d, c, h, r) /\ Counted(d, c, h, r) /\ Typed(d, c, h, r) /\ c \in Seq(Tasks)
  BY DEF Well, Typed
<1>2. /\ c2 \in Seq(Tasks) /\ Len(c2) = Len(c) + 1 /\ c2[Len(c) + 1] = t
      /\ \A i \in 1..Len(c) : c2[i] = c[i]
      /\ 1..Len(c2) = 1..Len(c) \cup {Len(c) + 1}
  BY <1>1
<1>. HIDE DEF c2
<1>3. InCounts(c2) = InCounts(c) \cup {LoadOf(t)}
  BY <1>2 DEF InCounts
<1>4. /\ LoadOf(t) \notin InDetails(d) /\ LoadOf(t) \notin InCounts(c)
      /\ LoadOf(t) \notin InHeld(h) /\ LoadOf(t) \notin InPool(r)
  BY DEF InPlace
<1>5. \A i, j \in 1..Len(c2) : LoadOf(c2[i]) = LoadOf(c2[j]) => i = j
  BY <1>1, <1>2, <1>4 DEF Apart, InCounts
<1>6. Apart(d, c2, h, r)
  <2>1. InDetails(d) \cap InCounts(c2) = {} /\ InCounts(c2) \cap InHeld(h) = {} /\ InCounts(c2) \cap InPool(r) = {}
    BY <1>1, <1>3, <1>4 DEF Apart
  <2>. QED
    BY <1>1, <1>5, <2>1 DEF Apart
<1>7. Counted(d, c2, h, r)
  BY <1>1, <1>2 DEF Counted
<1>. QED
  BY <1>1, <1>2, <1>3, <1>6, <1>7 DEF Well, Typed, InPlace, c2

LEMMA JoinHeld ==
  ASSUME NEW d, NEW c, NEW h, NEW r, Well(d, c, h, r),
         NEW t \in Tasks, LoadOf(t) \notin InPlace(d, c, h, r), AskedFor(t, 0),
         NEW due \in Nat, NEW n \in 0..Len(h), NEW h2,
         h2 = Inserted(h, [due |-> due, task |-> t], n)
  PROVE  /\ Well(d, c, h2, r)
         /\ InPlace(d, c, h2, r) = InPlace(d, c, h, r) \cup {LoadOf(t)}
<1>. DEFINE item == [due |-> due, task |-> t]
<1>1. Apart(d, c, h, r) /\ Counted(d, c, h, r) /\ Typed(d, c, h, r) /\ h \in Seq(HeldTasks)
  BY DEF Well, Typed
<1>2. item \in HeldTasks /\ item.task = t
  BY DEF HeldTasks
<1>. HIDE DEF item
<1>3. h2 = Inserted(h, item, n)
  BY DEF item
<1>4. /\ h2 \in Seq(HeldTasks) /\ Len(h2) = Len(h) + 1
      /\ \A i \in 1..n : h2[i] = h[i]
      /\ h2[n + 1] = item
      /\ \A i \in (n + 1)..Len(h) : h2[i + 1] = h[i]
  <2>1. h \in Seq(HeldTasks)
    BY <1>1
  <2>2. item \in HeldTasks
    BY <1>2
  <2>. QED
    <3>1. /\ Inserted(h, item, n) \in Seq(HeldTasks) /\ Len(Inserted(h, item, n)) = Len(h) + 1
          /\ \A i \in 1..n : Inserted(h, item, n)[i] = h[i]
          /\ Inserted(h, item, n)[n + 1] = item
          /\ \A i \in (n + 1)..Len(h) : Inserted(h, item, n)[i + 1] = h[i]
      BY <2>1, <2>2, InsertedQueue
    <3>. QED
      BY <1>3, <3>1
\* Where an item of the longer queue comes from, and where one of the shorter goes.
<1>. DEFINE old(i) == IF i <= n THEN i ELSE i - 1
            new(i) == IF i <= n THEN i ELSE i + 1
<1>6. n + 1 \in 1..Len(h2) /\ Len(h) \in Nat
  BY <1>1, <1>4
<1>7. ASSUME NEW i \in 1..Len(h2), i # n + 1
      PROVE  old(i) \in 1..Len(h) /\ h2[i] = h[old(i)] /\ i = new(old(i))
  <2>1. CASE i <= n
    <3>1. i \in 1..n
      BY <2>1
    <3>. QED
      BY <1>4, <1>6, <2>1, <3>1
  <2>2. CASE i > n
    <3>1. i - 1 \in (n + 1)..Len(h) /\ (i - 1) + 1 = i /\ i - 1 \in 1..Len(h) /\ ~(i - 1 <= n)
      BY <1>4, <1>6, <1>7, <2>2
    <3>2. h2[(i - 1) + 1] = h[i - 1]
      BY <1>4, <3>1
    <3>. QED
      BY <2>2, <3>1, <3>2
  <2>. QED
    BY <1>6, <2>1, <2>2
<1>8. ASSUME NEW j \in 1..Len(h) PROVE new(j) \in 1..Len(h2) /\ h2[new(j)] = h[j]
  <2>1. CASE j <= n
    <3>1. j \in 1..n /\ j \in 1..Len(h2)
      BY <1>4, <1>6, <2>1
    <3>. QED
      BY <1>4, <2>1, <3>1
  <2>2. CASE j > n
    <3>1. j \in (n + 1)..Len(h) /\ j + 1 \in 1..Len(h2) /\ ~(j <= n)
      BY <1>4, <1>6, <2>2
    <3>2. h2[j + 1] = h[j]
      BY <1>4, <3>1
    <3>. QED
      BY <3>1, <3>2
  <2>. QED
    BY <1>6, <2>1, <2>2
<1>. HIDE DEF old, new
<1>9. InHeld(h2) = InHeld(h) \cup {LoadOf(t)}
  <2>1. ASSUME NEW i \in 1..Len(h2) PROVE LoadOf(h2[i].task) \in InHeld(h) \cup {LoadOf(t)}
    <3>1. CASE i = n + 1
      BY <1>2, <1>4, <3>1
    <3>2. CASE i # n + 1
      BY <1>7, <3>2 DEF InHeld
    <3>. QED
      BY <3>1, <3>2
  <2>2. InHeld(h) \subseteq InHeld(h2)
    BY <1>8 DEF InHeld
  <2>3. LoadOf(t) \in InHeld(h2)
    BY <1>2, <1>4, <1>6 DEF InHeld
  <2>. QED
    BY <2>1, <2>2, <2>3 DEF InHeld
<1>10. /\ LoadOf(t) \notin InDetails(d) /\ LoadOf(t) \notin InCounts(c)
       /\ LoadOf(t) \notin InHeld(h) /\ LoadOf(t) \notin InPool(r)
  BY DEF InPlace
<1>11. \A i, j \in 1..Len(h2) : LoadOf(h2[i].task) = LoadOf(h2[j].task) => i = j
  <2>1. \A i, j \in 1..Len(h) : LoadOf(h[i].task) = LoadOf(h[j].task) => i = j
    BY <1>1 DEF Apart
  <2>2. \A i \in 1..Len(h) : LoadOf(h[i].task) # LoadOf(t)
    BY <1>10 DEF InHeld
  <2>. SUFFICES ASSUME NEW i \in 1..Len(h2), NEW j \in 1..Len(h2), LoadOf(h2[i].task) = LoadOf(h2[j].task)
                PROVE  i = j
    OBVIOUS
  <2>3. CASE i = n + 1 \/ j = n + 1
    BY <1>2, <1>4, <1>7, <2>2, <2>3
  <2>4. CASE i # n + 1 /\ j # n + 1
    <3>1. old(i) = old(j)
      BY <1>7, <2>1, <2>4
    <3>. QED
      BY <1>7, <2>4, <3>1
  <2>. QED
    BY <2>3, <2>4
<1>12. Apart(d, c, h2, r)
  <2>1. InDetails(d) \cap InHeld(h2) = {} /\ InCounts(c) \cap InHeld(h2) = {} /\ InHeld(h2) \cap InPool(r) = {}
    BY <1>1, <1>9, <1>10 DEF Apart
  <2>. QED
    BY <1>1, <1>11, <2>1 DEF Apart
<1>13. Counted(d, c, h2, r)
  <2>1. \A i \in 1..Len(h) : AskedFor(h[i].task, 0)
    BY <1>1 DEF Counted
  <2>2. \A i \in 1..Len(h2) : AskedFor(h2[i].task, 0)
    BY <1>2, <1>4, <1>7, <2>1
  <2>. QED
    BY <1>1, <2>2 DEF Counted
<1>. QED
  BY <1>1, <1>4, <1>9, <1>12, <1>13 DEF Well, Typed, InPlace

-----------------------------------------------------------------------------
LEMMA InitStreamInv == Init => StreamInv
<1>. SUFFICES ASSUME Init PROVE StreamInv
  OBVIOUS
<1>. USE FormAssumption, TimeAssumption
<1>1. IsFiniteSet(running) /\ Cardinality(running) = 0
  BY FS_EmptySet DEF Init
<1>2. TypeOK
  BY <1>1 DEF Init, TypeOK, Ended
<1>3. Well(details, counts, held, running)
  <2>1. Typed(details, counts, held, running)
    BY DEF Init, Typed
  <2>2. InCounts(counts) = {} /\ InHeld(held) = {} /\ InPool(running) = {}
    BY DEF Init, InCounts, InHeld, InPool
  <2>3. Apart(details, counts, held, running)
    BY <2>2 DEF Init, Apart
  <2>4. \A i \in 1..Len(details) : details[i] \in Forms
    BY DEF Init
  <2>5. Counted(details, counts, held, running)
    BY <2>4 DEF Init, Counted, Kinds
  <2>. QED
    BY <2>1, <2>3, <2>5 DEF Well
<1>4. Pending = {Load("summary", f) : f \in Forms}
  <2>1. {details[i] : i \in 1..Len(details)} = Forms
    BY DEF Init
  <2>2. Pending = {[kind |-> "summary", form |-> details[i]] : i \in 1..Len(details)}
    BY DEF Init, Pending
  <2>. QED
    BY <2>1, <2>2 DEF Load
<1>5. ReportsMatch
  <2>1. \A f \in Forms : Load("summary", f) \in Pending /\ Load("stats", f) \notin Pending
    BY <1>4 DEF Load
  <2>. QED
    BY <2>1 DEF Init, ReportsMatch, Owed, Kinds
<1>6. GoogleAskedAtMostThrice
  BY DEF Init, GoogleAskedAtMostThrice
<1>. QED
  BY <1>1, <1>2, <1>3, <1>5, <1>6 DEF Init, StreamInv, PoolIsBounded

-----------------------------------------------------------------------------
(* Steps.                                                                   *)

LEMMA PendingIsInPlace == Pending = InPlace(details, counts, held, running)
  BY DEF Pending, InPlace, InDetails, InCounts, InHeld, InPool

LEMMA PlacesAreTyped ==
  ASSUME TypeOK
  PROVE  Typed(details, counts, held, running) /\ Pending \subseteq Loads
<1>1. Typed(details, counts, held, running)
  BY DEF TypeOK, Typed
<1>2. /\ \A i \in 1..Len(details) : details[i] \in Forms
      /\ \A i \in 1..Len(counts) : counts[i] \in Tasks
      /\ \A i \in 1..Len(held) : held[i] \in HeldTasks
  BY DEF TypeOK
<1>3. /\ \A task \in Tasks : LoadOf(task) \in Loads
      /\ \A item \in HeldTasks : item.task \in Tasks
      /\ \A future \in running : future.task \in Tasks
      /\ \A f \in Forms : [kind |-> "summary", form |-> f] \in Loads
  BY DEF TypeOK, Tasks, HeldTasks, Futures, Loads, LoadOf, Kinds
<1>. QED
  BY <1>1, <1>2, <1>3 DEF Pending

\* No queue, no count and no report changes.
LEMMA QuietKeeps ==
  ASSUME StreamInv, TypeOK', UNCHANGED <<details, counts, held, running, asked, reported>>,
         \A future \in drained' : future.result # "none",
         at' \in Ended \/ (at \notin Ended /\ Owed' = Owed)
  PROVE  StreamInv'
<1>1. Well(details, counts, held, running)' /\ Pending' = Pending
  BY DEF StreamInv, Well, Counted, AskedFor, Pending
<1>2. ReportsMatch'
  BY <1>1 DEF StreamInv, ReportsMatch
<1>. QED
  BY <1>1, <1>2 DEF StreamInv, PoolIsBounded, GoogleAskedAtMostThrice

\* A report for what was owed, and the count that comes of it.
LEMMA ReportKeeps ==
  ASSUME StreamInv, at \notin Ended, at' \notin Ended,
         NEW k \in Kinds, NEW f \in Forms, NEW status \in Statuses, Load(k, f) \in Owed,
         reported' = [reported EXCEPT ![k][f] = Append(@, status)], asked' = asked,
         NEW next, next = IF k = "summary" /\ status = "ok" THEN {Load("stats", f)} ELSE {},
         Owed' = (Owed \ {Load(k, f)}) \cup next, Pending' \subseteq Pending \cup next
  PROVE  ReportsMatch' /\ reported' \in [Kinds -> [Forms -> Seq(Statuses)]]
<1>1. reported \in [Kinds -> [Forms -> Seq(Statuses)]] /\ reported[k] \in [Forms -> Seq(Statuses)]
  BY DEF StreamInv, TypeOK
<1>2. reported[k][f] = <<>>
  BY DEF StreamInv, ReportsMatch, Kinds
<1>3. reported'[k][f] = <<status>> /\ <<status>> \in Seq(Statuses)
  BY <1>1, <1>2
<1>4. \A j \in Kinds, g \in Forms : j # k \/ g # f => reported'[j][g] = reported[j][g]
  BY <1>1
<1>5. reported' \in [Kinds -> [Forms -> Seq(Statuses)]]
  BY <1>1
<1>6. \A i, j, g, h : Load(i, g) = Load(j, h) => i = j /\ g = h
  BY DEF Load
<1>. SUFFICES ASSUME NEW g \in Forms
              PROVE  /\ Load("summary", g) \in Owed' <=> reported'["summary"][g] = <<>>
                     /\ Load("stats", g) \in Owed' <=>
                          reported'["summary"][g] = <<"ok">> /\ reported'["stats"][g] = <<>>
                     /\ reported'["stats"][g] # <<>> \/ Load("stats", g) \in Pending' =>
                          reported'["summary"][g] = <<"ok">>
                     /\ reported'["summary"][g] # <<"ok">> => asked["stats"][g] = 0
                     /\ \A j \in Kinds : Len(reported'[j][g]) <= 1
  BY <1>5 DEF ReportsMatch, Load
<1>7. /\ Load("summary", g) \in Owed <=> reported["summary"][g] = <<>>
      /\ Load("stats", g) \in Owed <=>
           reported["summary"][g] = <<"ok">> /\ reported["stats"][g] = <<>>
      /\ reported["stats"][g] # <<>> \/ Load("stats", g) \in Pending =>
           reported["summary"][g] = <<"ok">>
      /\ reported["summary"][g] # <<"ok">> => asked["stats"][g] = 0
      /\ \A j \in Kinds : Len(reported[j][g]) <= 1
  BY DEF StreamInv, ReportsMatch
<1>8. <<status>> # <<>> /\ Len(<<status>>) = 1 /\ (<<status>> = <<"ok">> <=> status = "ok")
  OBVIOUS
<1>9. "summary" \in Kinds /\ "stats" \in Kinds
  BY DEF Kinds
<1>10. CASE g # f
  <2>1. /\ Load("summary", g) \in Owed' <=> Load("summary", g) \in Owed
        /\ Load("stats", g) \in Owed' <=> Load("stats", g) \in Owed
        /\ Load("stats", g) \in Pending' => Load("stats", g) \in Pending
    BY <1>6, <1>10
  <2>. QED
    BY <1>4, <1>7, <1>9, <1>10, <2>1
<1>11. CASE g = f /\ k = "summary"
  <2>1. /\ Load("summary", g) \notin Owed'
        /\ status = "ok" => Load("stats", g) \in Owed'
        /\ status # "ok" => (Load("stats", g) \in Owed' <=> Load("stats", g) \in Owed)
        /\ status # "ok" => (Load("stats", g) \in Pending' => Load("stats", g) \in Pending)
    BY <1>6, <1>11
  <2>2. reported'["summary"][g] = <<status>> /\ reported'["stats"][g] = reported["stats"][g]
    BY <1>3, <1>4, <1>9, <1>11
  <2>3. reported["summary"][g] = <<>> /\ <<>> # <<"ok">>
    BY <1>2, <1>11
  <2>4. reported["stats"][g] = <<>> /\ Load("stats", g) \notin Owed /\ Load("stats", g) \notin Pending
    BY <1>7, <2>3
  <2>5. \A j \in Kinds : Len(reported'[j][g]) <= 1
    BY <1>3, <1>4, <1>7, <1>8, <1>11
  <2>. QED
    BY <1>7, <1>8, <2>1, <2>2, <2>3, <2>4, <2>5
<1>12. CASE g = f /\ k = "stats"
  <2>1. /\ Load("summary", g) \in Owed' <=> Load("summary", g) \in Owed
        /\ Load("stats", g) \notin Owed'
        /\ Load("stats", g) \in Pending' => Load("stats", g) \in Pending
    BY <1>6, <1>12
  <2>2. reported'["stats"][g] = <<status>> /\ reported'["summary"][g] = reported["summary"][g]
    BY <1>3, <1>4, <1>9, <1>12
  <2>3. Load("stats", g) \in Owed
    BY <1>12
  <2>5. \A j \in Kinds : Len(reported'[j][g]) <= 1
    BY <1>3, <1>4, <1>7, <1>8, <1>12
  <2>. QED
    BY <1>7, <1>8, <2>1, <2>2, <2>3, <2>5
<1>. QED
  BY <1>10, <1>11, <1>12 DEF Kinds

\* The steps of the clock, of the reader and of the generator that move no load.
LEMMA QuietSteps ==
  ASSUME StreamInv,
         Tick \/ Close \/ Complete \/ CompleteLate \/ Expire \/ WakeUp \/ Collect \/ UNCHANGED vars
  PROVE  StreamInv'
<1>. USE DEF StreamInv
<1>1. CASE Tick
  <2>1. /\ clock \in 0..MaxTime /\ clock' = clock + 1 /\ clock < MaxTime /\ at \notin Ended
        /\ UNCHANGED <<at, wake, details, counts, held, running, drained, late, reported, asked>>
    BY <1>1 DEF Tick, TypeOK
  <2>2. clock' \in 0..MaxTime
    BY <2>1, TimeAssumption
  <2>3. TypeOK'
    BY <2>1, <2>2 DEF TypeOK
  <2>4. Owed' = Owed
    BY <2>1 DEF Owed, Pending
  <2>. QED
    BY <2>1, <2>3, <2>4, QuietKeeps
<1>2. CASE Close \/ Complete \/ CompleteLate
  <2>1. TypeOK' /\ at' \in Ended
    BY <1>2 DEF Close, Complete, CompleteLate, TypeOK, Ended
  <2>. QED
    BY <1>2, <2>1, QuietKeeps DEF Close, Complete, CompleteLate
<1>3. CASE Expire
  <2>1. TypeOK' /\ at \notin Ended /\ Owed' = Owed
    BY <1>3, PlacesAreTyped DEF Expire, TypeOK, Owed, Ended
  <2>. QED
    BY <1>3, <2>1, QuietKeeps DEF Expire
<1>4. CASE WakeUp
  <2>1. TypeOK' /\ at \notin Ended /\ Owed' = Owed
    BY <1>4 DEF WakeUp, TypeOK, Owed, Ended, Pending
  <2>. QED
    BY <1>4, <2>1, QuietKeeps DEF WakeUp
<1>5. CASE Collect
  <2>1. TypeOK' /\ at \notin Ended /\ Owed' = Owed
    BY <1>5 DEF Collect, TypeOK, Owed, Ended, Pending
  <2>. QED
    BY <1>5, <2>1, QuietKeeps DEF Collect
<1>6. CASE UNCHANGED vars
  <2>1. TypeOK' /\ Owed' = Owed
    BY <1>6 DEF vars, TypeOK, Owed, Pending
  <2>2. ReportsMatch'
    BY <1>6 DEF vars, ReportsMatch, Owed, Pending
  <2>. QED
    BY <1>6, <2>1, <2>2 DEF vars, Well, Counted, AskedFor, PoolIsBounded, GoogleAskedAtMostThrice
<1>. QED
  BY <1>1, <1>2, <1>3, <1>4, <1>5, <1>6

LEMMA ReportLateKeeps ==
  ASSUME StreamInv, NEW load \in late, ReportLate(load)
  PROVE  StreamInv'
<1>1. TypeOK /\ at = "expire" /\ at' = at /\ Pending' = Pending /\ asked' = asked
  BY DEF StreamInv, ReportLate, Pending
<1>2. load.kind \in Kinds /\ load.form \in Forms /\ load = Load(load.kind, load.form)
  BY <1>1 DEF TypeOK, Loads, Load
<1>3. Owed = late /\ Owed' = late \ {load}
  BY <1>1 DEF Owed, ReportLate
<1>4. ReportsMatch' /\ reported' \in [Kinds -> [Forms -> Seq(Statuses)]]
  <2>1. "timeout" \in Statuses /\ at \notin Ended
    BY <1>1 DEF Statuses, Ended
  <2>2. reported' = [reported EXCEPT ![load.kind][load.form] = Append(@, "timeout")]
    BY DEF ReportLate
  <2>. DEFINE next == IF load.kind = "summary" /\ "timeout" = "ok"
                        THEN {Load("stats", load.form)} ELSE {}
  <2>3. next = {}
    OBVIOUS
  <2>4. Owed' = (Owed \ {Load(load.kind, load.form)}) \cup next /\ Pending' \subseteq Pending \cup next
    BY <1>1, <1>2, <1>3, <2>3
  <2>5. Load(load.kind, load.form) \in Owed /\ at' \notin Ended
    BY <1>1, <1>2, <1>3, <2>1
  <2>. HIDE DEF next
  <2>6. next = IF load.kind = "summary" /\ "timeout" = "ok" THEN {Load("stats", load.form)} ELSE {}
    BY DEF next
  <2>. QED
    BY <1>1, <1>2, <2>1, <2>2, <2>4, <2>5, <2>6, ReportKeeps
<1>5. TypeOK'
  BY <1>1, <1>4 DEF TypeOK, ReportLate
<1>6. Well(details, counts, held, running)'
  BY DEF StreamInv, ReportLate, Well, Counted, AskedFor
<1>. QED
  BY <1>4, <1>5, <1>6 DEF StreamInv, ReportLate, PoolIsBounded, GoogleAskedAtMostThrice

\* A load comes back: it stays in the pool, and was asked for once more.
LEMMA FinishKeeps ==
  ASSUME StreamInv, NEW future \in running, NEW result \in Results, Finish(future, result)
  PROVE  StreamInv'
<1>. DEFINE new == [future EXCEPT !.result = result]
            task == future.task
            k == task.kind
            f == task.form
<1>1. /\ TypeOK /\ future \in Futures /\ future.result = "none" /\ future \notin drained
      /\ Well(details, counts, held, running)
  BY DEF StreamInv, TypeOK, Finish
<1>2. /\ new \in Futures /\ new.task = task /\ new.result = result
      /\ task \in Tasks /\ k \in Kinds /\ f \in Forms /\ task.attempts \in 0..2
  BY <1>1 DEF Futures, Tasks
<1>3. /\ running' = (running \ {future}) \cup {new}
      /\ asked' = [asked EXCEPT ![k][f] = @ + (IF result = "slot" THEN 0 ELSE 1)]
      /\ UNCHANGED <<clock, at, wake, details, counts, held, drained, late, reported>>
  BY DEF Finish
<1>. HIDE DEF new
<1>4. /\ AskedFor(task, 0)
      /\ asked[k][f] = task.attempts
      /\ asked' \in [Kinds -> [Forms -> Nat]]
      /\ asked'[k][f] = task.attempts + Heard(new)
      /\ \A j \in Kinds, g \in Forms : j # k \/ g # f => asked'[j][g] = asked[j][g]
  <2>1. asked \in [Kinds -> [Forms -> Nat]] /\ asked[k] \in [Forms -> Nat] /\ asked[k][f] \in Nat
    BY <1>1, <1>2 DEF TypeOK
  <2>2. AskedFor(task, Heard(future)) /\ Heard(future) = 0
    BY <1>1 DEF Well, Counted, Heard
  <2>3. Heard(new) = IF result = "slot" THEN 0 ELSE 1
    BY <1>2 DEF Heard, Results
  <2>4. asked[k][f] = task.attempts
    BY <1>2, <2>2 DEF AskedFor
  <2>5. asked'[k][f] = asked[k][f] + (IF result = "slot" THEN 0 ELSE 1)
    BY <1>2, <1>3, <2>1
  <2>6. \A j \in Kinds, g \in Forms : j # k \/ g # f => asked'[j][g] = asked[j][g]
    BY <1>2, <1>3, <2>1
  <2>7. asked' \in [Kinds -> [Forms -> Nat]]
    BY <1>2, <1>3, <2>1
  <2>. QED
    BY <2>2, <2>3, <2>4, <2>5, <2>6, <2>7
\* What is true of the pool without the load is true of the pool with it again.
<1>5. /\ Well(details, counts, held, running \ {future})
      /\ LoadOf(task) \notin InPlace(details, counts, held, running \ {future})
      /\ Pending = InPlace(details, counts, held, running \ {future}) \cup {LoadOf(task)}
  BY <1>1, LeavePool, PendingIsInPlace
<1>. DEFINE rest == running \ {future}
<1>. HIDE DEF rest
<1>6. Apart(details, counts, held, rest) /\ Typed(details, counts, held, rest)
      /\ Counted(details, counts, held, rest)
  BY <1>5 DEF Well, rest
<1>7. running' = rest \cup {new} /\ InPool(running') = InPool(rest) \cup {LoadOf(task)}
  BY <1>2, <1>3 DEF InPool, rest
<1>8. /\ LoadOf(task) \notin InDetails(details) /\ LoadOf(task) \notin InCounts(counts)
      /\ LoadOf(task) \notin InHeld(held) /\ LoadOf(task) \notin InPool(rest)
  BY <1>5 DEF InPlace, rest
<1>9. Apart(details, counts, held, running)'
  <2>. DEFINE pool == rest \cup {new}
  <2>1. \A x, y \in pool : LoadOf(x.task) = LoadOf(y.task) => x = y
    BY <1>2, <1>6, <1>8 DEF Apart, InPool
  <2>2. InDetails(details) \cap InPool(pool) = {} /\ InCounts(counts) \cap InPool(pool) = {}
        /\ InHeld(held) \cap InPool(pool) = {}
    <3>1. InDetails(details) \cap InPool(rest) = {} /\ InCounts(counts) \cap InPool(rest) = {}
          /\ InHeld(held) \cap InPool(rest) = {}
      BY <1>6 DEF Apart
    <3>2. InPool(pool) = InPool(rest) \cup {LoadOf(task)}
      BY <1>3, <1>7 DEF rest
    <3>. HIDE DEF pool, task
    <3>. QED
      BY <1>8, <3>1, <3>2
  <2>. HIDE DEF pool
  <2>3. Apart(details, counts, held, pool)
    BY <1>6, <2>1, <2>2 DEF Apart
  <2>4. details' = details /\ counts' = counts /\ held' = held /\ running' = pool
    BY <1>3, <1>7 DEF pool
  <2>. QED
    BY <2>3, <2>4
<1>10. Counted(details, counts, held, running)'
  <2>. DEFINE asksFor(t, n) == asked'[t.kind][t.form] = t.attempts + n
  <2>1. ASSUME NEW t \in Tasks, LoadOf(t) # LoadOf(task), NEW n, AskedFor(t, n) PROVE asksFor(t, n)
    <3>1. t.kind # k \/ t.form # f
      BY <2>1 DEF LoadOf
    <3>2. t.kind \in Kinds /\ t.form \in Forms
      BY <2>1 DEF Tasks
    <3>. QED
      BY <1>4, <2>1, <3>1, <3>2 DEF AskedFor
  <2>2. ASSUME NEW i \in 1..Len(details) PROVE asked'["summary"][details[i]] = 0
    <3>1. [kind |-> "summary", form |-> details[i]] # LoadOf(task) /\ details[i] \in Forms
      BY <1>6, <1>8 DEF InDetails, Typed
    <3>2. "summary" # k \/ details[i] # f
      BY <3>1 DEF LoadOf
    <3>. QED
      BY <1>4, <1>6, <3>1, <3>2 DEF Counted, Kinds
  <2>6. asksFor(new.task, Heard(new))
    BY <1>2, <1>4
  <2>. HIDE DEF asksFor
  <2>3. ASSUME NEW i \in 1..Len(counts) PROVE asksFor(counts[i], 0)
    <3>1. counts[i] \in Tasks /\ LoadOf(counts[i]) # LoadOf(task)
      BY <1>6, <1>8 DEF InCounts, Typed
    <3>. QED
      BY <1>6, <2>1, <3>1 DEF Counted
  <2>4. ASSUME NEW i \in 1..Len(held) PROVE asksFor(held[i].task, 0)
    <3>1. held[i] \in HeldTasks /\ LoadOf(held[i].task) # LoadOf(task)
      BY <1>6, <1>8 DEF InHeld, Typed
    <3>2. held[i].task \in Tasks
      BY <3>1 DEF HeldTasks
    <3>. QED
      BY <1>6, <2>1, <3>1, <3>2 DEF Counted
  <2>5. ASSUME NEW x \in rest PROVE asksFor(x.task, Heard(x))
    <3>1. x.task \in Tasks /\ LoadOf(x.task) # LoadOf(task)
      BY <1>6, <1>8 DEF InPool, Typed, Futures
    <3>2. AskedFor(x.task, Heard(x))
      BY <1>6 DEF Counted
    <3>. QED
      BY <2>1, <3>1, <3>2
  <2>7. \A x \in running' : asksFor(x.task, Heard(x))
    BY <1>7, <2>5, <2>6
  <2>8. details' = details /\ counts' = counts /\ held' = held
    BY <1>3
  <2>. QED
    BY <2>2, <2>3, <2>4, <2>7, <2>8 DEF Counted, AskedFor, Heard, asksFor
<1>11. Well(details, counts, held, running)'
  BY <1>2, <1>3, <1>6, <1>7, <1>9, <1>10 DEF Well, Typed
<1>12. Pending' = Pending /\ Owed' = Owed
  <2>1. Pending = InPlace(details, counts, held, rest) \cup {LoadOf(task)}
    BY <1>5 DEF rest
  <2>2. Pending' = InPlace(details, counts, held, rest) \cup {LoadOf(task)}
    BY <1>3, <1>7, PendingIsInPlace DEF InPlace, Pending, InDetails, InCounts, InHeld, InPool
  <2>. QED
    BY <1>3, <2>1, <2>2 DEF Owed
<1>13. IsFiniteSet(running') /\ Cardinality(running') <= Cardinality(running)
  <2>1. IsFiniteSet(running) /\ Cardinality(running) \in Nat
    BY FS_CardinalityType DEF StreamInv, PoolIsBounded
  <2>2. IsFiniteSet(rest) /\ Cardinality(rest) = Cardinality(running) - 1
    BY <2>1, FS_RemoveElement DEF rest
  <2>3. /\ IsFiniteSet(rest \cup {new})
        /\ Cardinality(rest \cup {new}) = IF new \in rest THEN Cardinality(rest) ELSE Cardinality(rest) + 1
    BY <2>2, FS_AddElement
  <2>. QED
    BY <1>7, <2>1, <2>2, <2>3
<1>14. PoolIsBounded'
  <2>1. Cardinality(running) \in Nat /\ Cardinality(running') \in Nat /\ Cardinality(running) <= Workers
    BY <1>13, FS_CardinalityType DEF StreamInv, PoolIsBounded
  <2>. QED
    BY <1>13, <2>1, TimeAssumption DEF PoolIsBounded
<1>15. TypeOK'
  BY <1>1, <1>2, <1>3, <1>4, <1>14 DEF TypeOK, PoolIsBounded
<1>16. ReportsMatch'
  <2>1. ASSUME NEW g \in Forms, at \notin Ended, reported["summary"][g] # <<"ok">>
        PROVE  asked'["stats"][g] = 0
    <3>1. Load("stats", g) \notin Pending /\ asked["stats"][g] = 0
      BY <2>1 DEF StreamInv, ReportsMatch
    <3>2. Load("stats", g) # LoadOf(task)
      BY <1>5, <3>1
    <3>3. "stats" # k \/ g # f
      BY <3>2 DEF LoadOf, Load
    <3>. QED
      BY <1>4, <3>1, <3>3 DEF Kinds
  <2>. QED
    BY <1>3, <1>12, <2>1 DEF StreamInv, ReportsMatch, Load
<1>17. GoogleAskedAtMostThrice'
  <2>1. asked'[k][f] <= 3
    BY <1>2, <1>4 DEF Heard
  <2>. QED
    BY <1>4, <2>1 DEF StreamInv, GoogleAskedAtMostThrice
<1>. QED
  BY <1>3, <1>11, <1>14, <1>15, <1>16, <1>17 DEF StreamInv

\* What is known of four places is known of the queues and the pool that become them.
LEMMA PlacesNext ==
  ASSUME NEW d, NEW c, NEW h, NEW r, Well(d, c, h, r),
         details' = d, counts' = c, held' = h, running' = r, asked' = asked
  PROVE  Well(details, counts, held, running)' /\ Pending' = InPlace(d, c, h, r)
<1>1. Typed(d, c, h, r) /\ Apart(d, c, h, r) /\ Counted(d, c, h, r)
  BY DEF Well
<1>2. Typed(details, counts, held, running)' /\ Apart(details, counts, held, running)'
  BY <1>1
<1>3. Counted(details, counts, held, running)'
  BY <1>1 DEF Counted, AskedFor, Heard
<1>4. Pending' = InPlace(d, c, h, r)
  BY DEF Pending, InPlace, InDetails, InCounts, InHeld, InPool
<1>. QED
  BY <1>2, <1>3, <1>4 DEF Well

\* A lost grant takes its load out of the pool and ends the stream.
LEMMA HandleFatalKeeps ==
  ASSUME StreamInv, NEW future \in drained, HandleFatal(future)
  PROVE  StreamInv'
<1>1. /\ TypeOK /\ PoolIsBounded /\ Well(details, counts, held, running) /\ future \in running
      /\ \A x \in drained : x.result # "none"
  BY DEF StreamInv, TypeOK
<1>2. /\ running' = running \ {future} /\ drained' = drained \ {future} /\ at' = "error"
      /\ UNCHANGED <<clock, wake, details, counts, held, late, reported, asked>>
  BY DEF HandleFatal
<1>3. Well(details, counts, held, running \ {future})
  BY <1>1, LeavePool
<1>4. Well(details, counts, held, running)'
  BY <1>2, <1>3, PlacesNext
<1>5. PoolIsBounded'
  <2>1. IsFiniteSet(running') /\ Cardinality(running') <= Cardinality(running)
    <3>1. IsFiniteSet(running) /\ running' \in SUBSET running
      BY <1>1, <1>2 DEF PoolIsBounded
    <3>. QED
      BY <3>1, FS_Subset
  <2>2. Cardinality(running) \in Nat /\ Cardinality(running') \in Nat
    BY <1>1, <2>1, FS_CardinalityType DEF PoolIsBounded
  <2>. QED
    BY <1>1, <2>1, <2>2, TimeAssumption DEF PoolIsBounded
<1>6. TypeOK'
  BY <1>1, <1>2, <1>5 DEF TypeOK, PoolIsBounded, Ended
<1>7. ReportsMatch' /\ GoogleAskedAtMostThrice'
  BY <1>2 DEF StreamInv, ReportsMatch, Ended, GoogleAskedAtMostThrice
<1>. QED
  BY <1>1, <1>2, <1>4, <1>5, <1>6, <1>7 DEF StreamInv

\* What a function lists from 1 to n are no more than n things.
LEMMA ListedAtMost ==
  ASSUME NEW n \in Nat, NEW S, NEW list \in [1..n -> S], \A x \in S : \E i \in 1..n : list[i] = x
  PROVE  IsFiniteSet(S) /\ Cardinality(S) \in Nat /\ Cardinality(S) <= n
<1>1. list \in Surjection(1..n, S)
  BY DEF Surjection
<1>2. IsFiniteSet(1..n) /\ Cardinality(1..n) = n
  BY FS_Interval
<1>3. IsFiniteSet(S) /\ Cardinality(S) <= n
  BY <1>1, <1>2, FS_Surjection
<1>. QED
  BY <1>3, FS_CardinalityType

LEMMA StartedAtMost ==
  ASSUME NEW n \in Nat, NEW tasks, NEW list \in [1..n -> tasks],
         \A t \in tasks : \E i \in 1..n : list[i] = t
  PROVE  /\ IsFiniteSet(Started(tasks))
         /\ Cardinality(Started(tasks)) \in Nat /\ Cardinality(Started(tasks)) <= n
<1>. DEFINE list2 == [i \in 1..n |-> [task |-> list[i], result |-> "none"]]
<1>1. list2 \in [1..n -> Started(tasks)]
  BY DEF Started
<1>2. \A x \in Started(tasks) : \E i \in 1..n : list2[i] = x
  <2>. SUFFICES ASSUME NEW t \in tasks PROVE \E i \in 1..n : list2[i] = [task |-> t, result |-> "none"]
    BY DEF Started
  <2>1. PICK i \in 1..n : list[i] = t
    OBVIOUS
  <2>. QED
    BY <2>1
<1>. HIDE DEF list2
<1>. QED
  BY <1>1, <1>2, ListedAtMost

\* A pass of the loop moves loads, and neither loses nor makes one.
LEMMA DispatchKeeps ==
  ASSUME StreamInv, Dispatch
  PROVE  StreamInv'
<1>1. /\ TypeOK /\ PoolIsBounded /\ Well(details, counts, held, running)
      /\ \A x \in drained : x.result # "none"
  BY DEF StreamInv
<1>2. PICK k \in 0..Len(held) :
        LET ready == counts \o [i \in 1..k |-> held[i].task]
            n == Least(FreeWorkers, Len(details))
            m == Least(FreeWorkers - n, Len(ready))
            started == {[kind |-> "summary", form |-> details[i], attempts |-> 0] : i \in 1..n}
                         \cup {ready[i] : i \in 1..m}
        IN /\ at = "loop"
           /\ held' = After(held, k)
           /\ details' = After(details, n)
           /\ counts' = After(ready, m)
           /\ running' = running \cup {[task |-> task, result |-> "none"] : task \in started}
           /\ at' = IF running' = {} THEN "sleep" ELSE "wait"
           /\ wake' = WakesAt(held')
           /\ UNCHANGED <<clock, drained, late, reported, asked>>
  BY DEF Dispatch
<1>. DEFINE ready == WithDue(counts, held, k)
            n == Least(FreeWorkers, Len(details))
            m == Least(FreeWorkers - n, Len(ready))
            first == FirstDetails(details, n)
            second == FirstReady(ready, m)
            h2 == After(held, k)
            d2 == After(details, n)
            c2 == After(ready, m)
            r1 == running \cup Started(first)
            r2 == r1 \cup Started(second)
<1>3. /\ held' = h2 /\ details' = d2 /\ counts' = c2 /\ running' = r2
      /\ at = "loop" /\ at' \in {"sleep", "wait"} /\ wake' = WakesAt(held')
      /\ UNCHANGED <<clock, drained, late, reported, asked>>
  BY <1>2 DEF Started, WithDue, FirstDetails, FirstReady
<1>4. /\ Well(details, ready, h2, running)
      /\ InPlace(details, ready, h2, running) = InPlace(details, counts, held, running)
  BY <1>1, MoveDue
<1>. HIDE DEF ready, h2
<1>5. /\ FreeWorkers \in Nat /\ n \in 0..Len(details) /\ m \in 0..Len(ready) /\ n \in Nat /\ m \in Nat
      /\ n + m <= FreeWorkers
  <2>1. Len(details) \in Nat /\ Len(ready) \in Nat
    BY <1>1, <1>4 DEF Well, Typed
  <2>2. FreeWorkers \in Nat
    BY <1>1, FS_CardinalityType, TimeAssumption DEF PoolIsBounded, FreeWorkers
  <2>3. n \in Nat /\ n <= FreeWorkers /\ n <= Len(details)
    BY <2>1, <2>2 DEF Least
  <2>. HIDE DEF n
  <2>4. m \in Nat /\ m <= FreeWorkers - n /\ m <= Len(ready)
    BY <2>1, <2>2, <2>3 DEF Least
  <2>. HIDE DEF m
  <2>. QED
    BY <2>1, <2>2, <2>3, <2>4
<1>. HIDE DEF n, m
<1>6. /\ Well(d2, ready, h2, running) /\ Fresh(first, d2, ready, h2, running)
      /\ InPlace(details, ready, h2, running) =
           InPlace(d2, ready, h2, running) \cup LoadsOf(first)
  BY <1>4, <1>5, TakeDetails
<1>. HIDE DEF d2
<1>7. /\ IsFiniteSet(Started(first)) /\ Cardinality(Started(first)) \in Nat
      /\ Cardinality(Started(first)) <= n
      /\ IsFiniteSet(Started(second)) /\ Cardinality(Started(second)) \in Nat
      /\ Cardinality(Started(second)) <= m
  <2>. DEFINE list1 == [i \in 1..n |-> [kind |-> "summary", form |-> details[i], attempts |-> 0]]
              list2 == [i \in 1..m |-> ready[i]]
  <2>1. list1 \in [1..n -> first] /\ \A t \in first : \E i \in 1..n : list1[i] = t
    BY DEF FirstDetails
  <2>2. list2 \in [1..m -> second] /\ \A t \in second : \E i \in 1..m : list2[i] = t
    BY DEF FirstReady
  <2>. HIDE DEF list1, list2, first, second
  <2>. QED
    BY <1>5, <2>1, <2>2, StartedAtMost
<1>. HIDE DEF first
<1>8. /\ Well(d2, ready, h2, r1)
      /\ InPlace(d2, ready, h2, r1) =
           InPlace(d2, ready, h2, running) \cup LoadsOf(first)
  <2>1. Well(d2, ready, h2, running) /\ Fresh(first, d2, ready, h2, running)
    BY <1>6
  <2>. QED
    BY ONLY <2>1, StartTasks
<1>. HIDE DEF r1
<1>9. /\ Well(d2, c2, h2, r1) /\ Fresh(second, d2, c2, h2, r1)
      /\ InPlace(d2, ready, h2, r1) =
           InPlace(d2, c2, h2, r1) \cup LoadsOf(second)
  BY <1>5, <1>8, TakeReady
<1>. HIDE DEF c2, second
<1>10. /\ Well(d2, c2, h2, r2)
       /\ InPlace(d2, c2, h2, r2) =
            InPlace(d2, c2, h2, r1) \cup LoadsOf(second)
  BY <1>9, StartTasks
<1>. HIDE DEF r2
<1>11. Well(details, counts, held, running)' /\ Pending' = InPlace(d2, c2, h2, r2)
  BY <1>3, <1>10, PlacesNext
<1>12. Pending' = Pending
  BY <1>4, <1>6, <1>8, <1>9, <1>10, <1>11, PendingIsInPlace
<1>13. PoolIsBounded'
  <2>1. IsFiniteSet(running) /\ Cardinality(running) \in Nat
    BY <1>1, FS_CardinalityType DEF PoolIsBounded
  <2>2. IsFiniteSet(r1) /\ Cardinality(r1) \in Nat /\ Cardinality(r1) <= Cardinality(running) + n
    <3>1. /\ IsFiniteSet(r1)
          /\ Cardinality(r1) = Cardinality(running) + Cardinality(Started(first))
                                 - Cardinality(running \cap Started(first))
      BY <1>7, <2>1, FS_Union DEF r1
    <3>2. IsFiniteSet(running \cap Started(first))
      BY <1>7, FS_Subset
    <3>3. Cardinality(r1) \in Nat /\ Cardinality(running \cap Started(first)) \in Nat
      BY <3>1, <3>2, FS_CardinalityType
    <3>. QED
      BY <1>5, <1>7, <2>1, <3>1, <3>3
  <2>3. IsFiniteSet(r2) /\ Cardinality(r2) \in Nat /\ Cardinality(r2) <= Cardinality(r1) + m
    <3>1. /\ IsFiniteSet(r2)
          /\ Cardinality(r2) = Cardinality(r1) + Cardinality(Started(second))
                                 - Cardinality(r1 \cap Started(second))
      BY <1>7, <2>2, FS_Union DEF r2
    <3>2. IsFiniteSet(r1 \cap Started(second))
      BY <1>7, FS_Subset
    <3>3. Cardinality(r2) \in Nat /\ Cardinality(r1 \cap Started(second)) \in Nat
      BY <3>1, <3>2, FS_CardinalityType
    <3>. QED
      BY <1>5, <1>7, <2>2, <3>1, <3>3
  <2>4. Cardinality(r2) <= Workers
    BY <1>5, <2>1, <2>2, <2>3, TimeAssumption DEF FreeWorkers
  <2>. QED
    BY <1>3, <2>3, <2>4 DEF PoolIsBounded
<1>14. wake' \in Nat
  <2>1. clock \in Nat /\ clock + Heartbeat \in Nat /\ Deadline \in Nat
    BY <1>1, TimeAssumption DEF TypeOK
  <2>2. h2 \in Seq(HeldTasks) /\ wake' = WakesAt(h2)
    BY <1>3, <1>4 DEF Well, Typed, WakesAt
  <2>3. Least(clock + Heartbeat, Deadline) \in Nat
    BY <2>1 DEF Least
  <2>4. h2 # <<>> => h2[1] \in HeldTasks
    BY <2>2
  <2>5. h2 # <<>> => h2[1].due \in Nat
    BY <2>4 DEF HeldTasks
  <2>. QED
    BY <2>2, <2>3, <2>5 DEF WakesAt, Least
<1>15. TypeOK'
  <2>1. details' \in Seq(Forms) /\ counts' \in Seq(Tasks) /\ held' \in Seq(HeldTasks) /\ running' \subseteq Futures
    BY <1>3, <1>10 DEF Well, Typed
  <2>2. running \subseteq running'
    BY <1>3 DEF r1, r2
  <2>. QED
    BY <1>1, <1>3, <1>13, <1>14, <2>1, <2>2 DEF TypeOK, PoolIsBounded
<1>16. ReportsMatch'
  <2>1. at \notin Ended /\ Owed' = Owed
    BY <1>3, <1>12 DEF Ended, Owed
  <2>. QED
    BY <1>3, <1>12, <2>1 DEF StreamInv, ReportsMatch
<1>. QED
  BY <1>1, <1>3, <1>11, <1>13, <1>15, <1>16 DEF StreamInv, GoogleAskedAtMostThrice

\* The form's count may start: nothing of it is in place, reported or asked yet.
LEMMA CountIsNew ==
  ASSUME StreamInv, at \notin {"expire"} \cup Ended,
         NEW f \in Forms, Load("summary", f) \in Pending
  PROVE  /\ Load("stats", f) \notin Pending /\ asked["stats"][f] = 0
<1>1. Owed = Pending
  BY DEF Owed
<1>2. reported["summary"][f] = <<>> /\ <<>> # <<"ok">>
  BY <1>1 DEF StreamInv, ReportsMatch
<1>. QED
  BY <1>2 DEF StreamInv, ReportsMatch

\* A load that is held back again has counted what it asked of Google.
LEMMA HeldBackKeeps ==
  ASSUME NEW d, NEW c, NEW h, NEW r, Well(d, c, h, r),
         NEW task \in Tasks, NEW t, t.kind = task.kind, t.form = task.form, t \in Tasks,
         LoadOf(task) \notin InPlace(d, c, h, r), AskedFor(t, 0), NEW due \in Nat, NEW h2,
         h2 = Inserted(h, [due |-> due, task |-> t], Cardinality({i \in 1..Len(h) : h[i].due <= due}))
  PROVE  /\ Well(d, c, h2, r)
         /\ InPlace(d, c, h2, r) = InPlace(d, c, h, r) \cup {LoadOf(task)}
<1>. DEFINE before == {i \in 1..Len(h) : h[i].due <= due}
<1>1. Len(h) \in Nat
  BY DEF Well, Typed
<1>2. IsFiniteSet(1..Len(h)) /\ Cardinality(1..Len(h)) = Len(h)
  <2>1. 1 \in Int /\ Len(h) \in Int
    BY <1>1
  <2>2. IsFiniteSet(1..Len(h)) /\ Cardinality(1..Len(h)) = IF 1 > Len(h) THEN 0 ELSE Len(h) - 1 + 1
    BY <2>1, FS_Interval
  <2>. QED
    BY <1>1, <2>2
<1>3. before \in SUBSET (1..Len(h))
  OBVIOUS
<1>. HIDE DEF before
<1>4. Cardinality(before) \in 0..Len(h)
  <2>1. IsFiniteSet(before) /\ Cardinality(before) <= Cardinality(1..Len(h))
    BY <1>2, <1>3, FS_Subset
  <2>2. Cardinality(before) \in Nat
    BY <2>1, FS_CardinalityType
  <2>. QED
    BY <1>1, <1>2, <2>1, <2>2
<1>5. h2 = Inserted(h, [due |-> due, task |-> t], Cardinality(before))
  BY DEF before
<1>6. LoadOf(t) = LoadOf(task)
  BY DEF LoadOf
<1>7. PICK n \in 0..Len(h) : h2 = Inserted(h, [due |-> due, task |-> t], n)
  BY <1>4, <1>5
<1>8. /\ Well(d, c, h, r) /\ t \in Tasks /\ LoadOf(t) \notin InPlace(d, c, h, r)
      /\ AskedFor(t, 0) /\ due \in Nat
  BY <1>6
<1>9. /\ Well(d, c, h2, r)
      /\ InPlace(d, c, h2, r) = InPlace(d, c, h, r) \cup {LoadOf(t)}
  BY ONLY <1>7, <1>8, JoinHeld
<1>. QED
  BY <1>6, <1>9

LEMMA HandleKeeps ==
  ASSUME StreamInv, NEW future \in drained, Handle(future)
  PROVE  StreamInv'
<1>. DEFINE task == future.task
            result == future.result
            status == StatusOf(task, result)
            rest == running \ {future}
            k == task.kind
            f == task.form
<1>1. /\ TypeOK /\ PoolIsBounded /\ Well(details, counts, held, running)
      /\ future \in running /\ future \in Futures /\ result # "none"
      /\ \A x \in drained : x.result # "none"
  BY DEF StreamInv, TypeOK
<1>2. task \in Tasks /\ k \in Kinds /\ f \in Forms /\ task.attempts \in 0..2 /\ result \in Results
  BY <1>1 DEF Futures, Tasks
<1>3. /\ at = "drain" /\ result # "fatal"
      /\ running' = rest /\ drained' = drained \ {future} /\ at' \in {"loop", "drain"}
      /\ counts' = CountsNext(task, status)
      /\ UNCHANGED <<clock, wake, details, late, asked>>
  BY DEF Handle
<1>4. /\ status # "none" => Yield(task, status) /\ held' = held
      /\ status = "none" => reported' = reported
      /\ status = "none" =>
           \/ result = "slot" /\ \E s \in GuardSlots : HoldBack(task, clock + s)
           \/ result = "rate_limited" /\ HoldBack(Again(task), clock + RetryAfter)
           \/ result = "unanswered" /\ HoldBack(Again(task), clock)
  BY DEF Handle
<1>5. /\ Well(details, counts, held, rest)
      /\ LoadOf(task) \notin InPlace(details, counts, held, rest)
      /\ Pending = InPlace(details, counts, held, rest) \cup {LoadOf(task)}
  BY <1>1, LeavePool, PendingIsInPlace
<1>6. AskedFor(task, Heard(future)) /\ asked \in [Kinds -> [Forms -> Nat]]
  BY <1>1 DEF Well, Counted, TypeOK
<1>7. Owed = Pending /\ Owed' = Pending' /\ at \notin Ended /\ at' \notin Ended
  BY <1>3 DEF Owed, Ended
<1>8. LoadOf(task) = Load(k, f)
  BY DEF LoadOf, Load
<1>. DEFINE old == InPlace(details, counts, held, rest)
<1>. HIDE DEF rest, status, old
<1>9. ASSUME status # "none"
      PROVE  /\ Well(details, counts, held, running)' /\ ReportsMatch'
             /\ reported' \in [Kinds -> [Forms -> Seq(Statuses)]]
  <2>. DEFINE next == IF k = "summary" /\ status = "ok" THEN {Load("stats", f)} ELSE {}
  <2>1. status \in Statuses
    BY <1>2, <1>9 DEF StatusOf, Statuses, Results, status
  <2>2. /\ reported' = [reported EXCEPT ![k][f] = Append(@, status)]
        /\ held' = held /\ details' = details /\ running' = rest /\ asked' = asked
    BY <1>3, <1>4, <1>9 DEF Yield
  <2>3. Well(details, counts, held, running)' /\ Pending' = old \cup next
    <3>1. CASE k = "summary" /\ status = "ok"
      <4>. DEFINE count == [kind |-> "stats", form |-> f, attempts |-> 0]
      <4>1. counts' = Append(counts, count)
        BY <1>3, <3>1 DEF CountsNext
      <4>2. LoadOf(count) = Load("stats", f) /\ count \in Tasks
            /\ count.kind = "stats" /\ count.form = f /\ count.attempts = 0
        BY <1>2 DEF LoadOf, Load, Tasks, Kinds
      <4>. HIDE DEF count
      <4>3. Load("stats", f) \notin Pending /\ asked["stats"][f] = 0
        <5>1. Load("summary", f) \in Pending
          BY <1>5, <1>8, <3>1
        <5>2. at \notin {"expire"} \cup Ended
          BY <1>3 DEF Ended
        <5>. QED
          BY <1>2, <5>1, <5>2, CountIsNew
      <4>4. LoadOf(count) \notin old /\ AskedFor(count, 0)
        BY <1>5, <4>2, <4>3 DEF AskedFor, old
      <4>5. /\ Well(details, Append(counts, count), held, rest)
            /\ InPlace(details, Append(counts, count), held, rest) = old \cup {LoadOf(count)}
        BY <1>5, <4>2, <4>4, JoinCounts DEF old
      <4>6. Well(details, counts, held, running)'
            /\ Pending' = InPlace(details, Append(counts, count), held, rest)
        BY <2>2, <4>1, <4>5, PlacesNext
      <4>. QED
        BY <3>1, <4>2, <4>5, <4>6
    <3>2. CASE ~(k = "summary" /\ status = "ok")
      <4>1. counts' = counts
        BY <1>3, <3>2 DEF CountsNext
      <4>2. Well(details, counts, held, running)' /\ Pending' = InPlace(details, counts, held, rest)
        BY <1>5, <2>2, <4>1, PlacesNext
      <4>. QED
        BY <3>2, <4>2 DEF old
    <3>. QED
      BY <3>1, <3>2
  <2>. HIDE DEF next
  <2>4. next = IF k = "summary" /\ status = "ok" THEN {Load("stats", f)} ELSE {}
    BY DEF next
  <2>5. /\ Load(k, f) \in Owed /\ Pending' \subseteq Pending \cup next
        /\ Owed' = (Owed \ {Load(k, f)}) \cup next
    BY <1>5, <1>7, <1>8, <2>3 DEF old
  <2>6. ReportsMatch' /\ reported' \in [Kinds -> [Forms -> Seq(Statuses)]]
    BY <1>2, <1>7, <2>1, <2>2, <2>4, <2>5, ReportKeeps
  <2>. QED
    BY <2>3, <2>6
<1>10. ASSUME status = "none"
       PROVE  /\ Well(details, counts, held, running)' /\ ReportsMatch'
              /\ reported' \in [Kinds -> [Forms -> Seq(Statuses)]]
  <2>1. PICK t \in Tasks, due \in Nat : HoldBack(t, due) /\ t.kind = k /\ t.form = f /\ AskedFor(t, 0)
    <3>1. clock \in Nat /\ RetryAfter \in Nat /\ GuardSlots \subseteq Nat
      BY <1>1, TimeAssumption DEF TypeOK
    <3>2. CASE result = "slot" /\ \E s \in GuardSlots : HoldBack(task, clock + s)
      <4>1. PICK s \in GuardSlots : HoldBack(task, clock + s)
        BY <3>2
      <4>2. clock + s \in Nat /\ AskedFor(task, 0)
        BY <1>6, <3>1, <3>2 DEF Heard
      <4>. QED
        BY <1>2, <4>1, <4>2
    <3>3. ASSUME result \in {"rate_limited", "unanswered"}, task.attempts + 1 <= 2
          PROVE  /\ Again(task) \in Tasks /\ Again(task).kind = k /\ Again(task).form = f
                 /\ AskedFor(Again(task), 0)
      <4>1. /\ Again(task) \in Tasks /\ Again(task).kind = k /\ Again(task).form = f
            /\ Again(task).attempts = task.attempts + 1
        BY <1>2, <3>3 DEF Again, Tasks
      <4>2. asked[k][f] = task.attempts + 1
        BY <1>6, <3>3 DEF AskedFor, Heard
      <4>3. AskedFor(Again(task), 0)
        BY <1>2, <4>1, <4>2 DEF AskedFor
      <4>. QED
        BY <4>1, <4>3
    <3>4. CASE result = "rate_limited" /\ HoldBack(Again(task), clock + RetryAfter)
      <4>1. task.attempts + 1 <= 2
        BY <1>2, <1>10, <3>4 DEF status, StatusOf, AsksAfterRateLimit, GoogleRateLimitAttempts
      <4>2. clock + RetryAfter \in Nat
        BY <3>1
      <4>. QED
        BY <3>3, <3>4, <4>1, <4>2
    <3>5. CASE result = "unanswered" /\ HoldBack(Again(task), clock)
      <4>1. task.attempts + 1 <= 2
        BY <1>2, <1>10, <3>5 DEF status, StatusOf, AsksAfterTimeout, GoogleTimeoutAttempts
      <4>. QED
        BY <3>1, <3>3, <3>5, <4>1
    <3>. QED
      BY <1>4, <1>10, <3>2, <3>4, <3>5
  <2>2. held' = Inserted(held, [due |-> due, task |-> t],
                         Cardinality({i \in 1..Len(held) : held[i].due <= due}))
    BY <2>1 DEF HoldBack, Inserted
  <2>3. counts' = counts /\ reported' = reported
    BY <1>3, <1>4, <1>10 DEF CountsNext
  <2>4. /\ Well(details, counts, held', rest)
        /\ InPlace(details, counts, held', rest) = old \cup {LoadOf(task)}
    BY <1>2, <1>5, <2>1, <2>2, HeldBackKeeps DEF old
  <2>5. Well(details, counts, held, running)' /\ Pending' = Pending
    <3>1. PICK h : h = held'
      OBVIOUS
    <3>2. Well(details, counts, h, rest) /\ InPlace(details, counts, h, rest) = Pending
      BY <1>5, <2>4, <3>1 DEF old
    <3>. QED
      BY <1>3, <2>3, <3>1, <3>2, PlacesNext
  <2>6. ReportsMatch'
    BY <1>3, <1>7, <2>3, <2>5 DEF StreamInv, ReportsMatch
  <2>7. reported' \in [Kinds -> [Forms -> Seq(Statuses)]]
    BY <1>1, <2>3 DEF TypeOK
  <2>. QED
    BY <2>5, <2>6, <2>7
<1>11. /\ Well(details, counts, held, running)' /\ ReportsMatch'
       /\ reported' \in [Kinds -> [Forms -> Seq(Statuses)]]
  BY <1>9, <1>10
<1>12. PoolIsBounded'
  <2>1. IsFiniteSet(running') /\ Cardinality(running') <= Cardinality(running)
    <3>1. IsFiniteSet(running) /\ running' \in SUBSET running
      BY <1>1, <1>3 DEF PoolIsBounded, rest
    <3>. QED
      BY <3>1, FS_Subset
  <2>2. Cardinality(running) \in Nat /\ Cardinality(running') \in Nat
    BY <1>1, <2>1, FS_CardinalityType DEF PoolIsBounded
  <2>. QED
    BY <1>1, <2>1, <2>2, TimeAssumption DEF PoolIsBounded
<1>13. TypeOK'
  <2>1. details' \in Seq(Forms) /\ counts' \in Seq(Tasks) /\ held' \in Seq(HeldTasks) /\ running' \subseteq Futures
    BY <1>11 DEF Well, Typed
  <2>2. drained' \subseteq running'
    BY <1>1, <1>3 DEF TypeOK, rest
  <2>. QED
    BY <1>1, <1>3, <1>11, <1>12, <2>1, <2>2 DEF TypeOK, PoolIsBounded
<1>. QED
  BY <1>1, <1>3, <1>11, <1>12, <1>13 DEF StreamInv, GoogleAskedAtMostThrice

LEMMA StreamStep == StreamInv /\ [Next]_vars => StreamInv'
<1>. SUFFICES ASSUME StreamInv, [Next]_vars PROVE StreamInv'
  OBVIOUS
<1>1. CASE Tick \/ Close \/ Complete \/ CompleteLate \/ Expire \/ WakeUp \/ Collect \/ UNCHANGED vars
  BY <1>1, QuietSteps
<1>2. CASE Dispatch
  BY <1>2, DispatchKeeps
<1>3. ASSUME NEW load \in late, ReportLate(load) PROVE StreamInv'
  BY <1>3, ReportLateKeeps
<1>4. ASSUME NEW future \in drained, Handle(future) PROVE StreamInv'
  BY <1>4, HandleKeeps
<1>5. ASSUME NEW future \in drained, HandleFatal(future) PROVE StreamInv'
  BY <1>5, HandleFatalKeeps
<1>6. ASSUME NEW future \in running, NEW result \in Results, Finish(future, result) PROVE StreamInv'
  BY <1>6, FinishKeeps
<1>. QED
  BY <1>1, <1>2, <1>3, <1>4, <1>5, <1>6 DEF Next, Generator

\* What the steps of the stream keep together (core/catalog_stream.py load_catalog).
THEOREM StreamInvariance == Spec => []StreamInv
<1>. QED
  BY InitStreamInv, StreamStep, PTL DEF Spec

\* Queues, pool, clock and reports of the stream keep their types.
THEOREM TypeCorrect == Spec => []TypeOK
<1>1. StreamInv => TypeOK
  BY DEF StreamInv
<1>. QED
  BY <1>1, StreamInvariance, PTL

-----------------------------------------------------------------------------
(* Every load has one place.                                                *)

LEMMA OneOrNone ==
  ASSUME NEW S, \A x, y \in S : x = y
  PROVE  Cardinality(S) = IF S = {} THEN 0 ELSE 1
<1>1. CASE S = {}
  BY <1>1, FS_EmptySet
<1>2. CASE S # {}
  <2>1. PICK x : S = {x}
    BY <1>2
  <2>. QED
    BY <1>2, <2>1, FS_Singleton
<1>. QED
  BY <1>1, <1>2

LEMMA PlacesOfLoad ==
  ASSUME StreamInv, NEW k \in Kinds, NEW f \in Forms
  PROVE  Places(k, f) = (IF Load(k, f) \in Pending THEN 1 ELSE 0) + Len(reported[k][f])
<1>. DEFINE load == Load(k, f)
            inDetails == {i \in 1..Len(details) : k = "summary" /\ details[i] = f}
            inCounts == {i \in 1..Len(counts) : LoadOf(counts[i]) = [kind |-> k, form |-> f]}
            inHeld == {i \in 1..Len(held) : LoadOf(held[i].task) = [kind |-> k, form |-> f]}
            inPool == {future \in running : LoadOf(future.task) = [kind |-> k, form |-> f]}
<1>1. Apart(details, counts, held, running)
  BY DEF StreamInv, Well
<1>2. /\ \A x, y \in inDetails : x = y
      /\ \A x, y \in inCounts : x = y
      /\ \A x, y \in inHeld : x = y
      /\ \A x, y \in inPool : x = y
  BY <1>1 DEF Apart
<1>3. /\ inDetails # {} <=> load \in InDetails(details)
      /\ inCounts # {} <=> load \in InCounts(counts)
      /\ inHeld # {} <=> load \in InHeld(held)
      /\ inPool # {} <=> load \in InPool(running)
  <2>1. inDetails # {} <=> load \in InDetails(details)
    BY DEF InDetails, Load
  <2>2. inCounts # {} <=> load \in InCounts(counts)
    BY DEF InCounts, Load
  <2>3. inHeld # {} <=> load \in InHeld(held)
    BY DEF InHeld, Load
  <2>4. inPool # {} <=> load \in InPool(running)
    BY DEF InPool, Load
  <2>. QED
    BY <2>1, <2>2, <2>3, <2>4
<1>4. Places(k, f) = Cardinality(inDetails) + Cardinality(inCounts) + Cardinality(inHeld)
                       + Cardinality(inPool) + Len(reported[k][f])
  BY DEF Places
<1>5. Len(reported[k][f]) \in Nat
  <2>1. reported[k][f] \in Seq(Statuses)
    BY DEF StreamInv, TypeOK
  <2>. QED
    BY <2>1
<1>. HIDE DEF inDetails, inCounts, inHeld, inPool, load
<1>6. /\ Cardinality(inDetails) = IF load \in InDetails(details) THEN 1 ELSE 0
      /\ Cardinality(inCounts) = IF load \in InCounts(counts) THEN 1 ELSE 0
      /\ Cardinality(inHeld) = IF load \in InHeld(held) THEN 1 ELSE 0
      /\ Cardinality(inPool) = IF load \in InPool(running) THEN 1 ELSE 0
  BY <1>2, <1>3, OneOrNone
<1>7. load \in Pending <=> \/ load \in InDetails(details) \/ load \in InCounts(counts)
                           \/ load \in InHeld(held) \/ load \in InPool(running)
  BY PendingIsInPlace DEF InPlace
<1>8. /\ ~(load \in InDetails(details) /\ load \in InCounts(counts))
      /\ ~(load \in InDetails(details) /\ load \in InHeld(held))
      /\ ~(load \in InDetails(details) /\ load \in InPool(running))
      /\ ~(load \in InCounts(counts) /\ load \in InHeld(held))
      /\ ~(load \in InCounts(counts) /\ load \in InPool(running))
      /\ ~(load \in InHeld(held) /\ load \in InPool(running))
  BY <1>1 DEF Apart
<1>9. Cardinality(inDetails) + Cardinality(inCounts) + Cardinality(inHeld) + Cardinality(inPool)
        = IF load \in Pending THEN 1 ELSE 0
  BY <1>6, <1>7, <1>8
<1>10. Places(k, f) = (IF load \in Pending THEN 1 ELSE 0) + Len(reported[k][f])
  BY <1>4, <1>9
<1>. QED
  BY <1>10 DEF load

LEMMA InvKeepsLoads == StreamInv => LoadsAreKept
<1>. SUFFICES ASSUME StreamInv PROVE LoadsAreKept
  OBVIOUS
<1>1. ASSUME at \in {"loop", "wait", "sleep", "drain"}, NEW f \in Forms
      PROVE  /\ Places("summary", f) = 1
             /\ Places("stats", f) = IF reported["summary"][f] = <<"ok">> THEN 1 ELSE 0
  <2>1. at \notin Ended /\ Owed = Pending
    BY <1>1 DEF Ended, Owed
  <2>2. /\ Load("summary", f) \in Pending <=> reported["summary"][f] = <<>>
        /\ Load("stats", f) \in Pending <=>
             reported["summary"][f] = <<"ok">> /\ reported["stats"][f] = <<>>
        /\ reported["stats"][f] # <<>> => reported["summary"][f] = <<"ok">>
        /\ Len(reported["summary"][f]) <= 1 /\ Len(reported["stats"][f]) <= 1
    BY <2>1 DEF StreamInv, ReportsMatch, Kinds
  <2>3. reported["summary"][f] \in Seq(Statuses) /\ reported["stats"][f] \in Seq(Statuses)
    BY DEF StreamInv, TypeOK, Kinds
  <2>4. ASSUME NEW s \in Seq(Statuses), Len(s) <= 1 PROVE Len(s) = IF s = <<>> THEN 0 ELSE 1
    <3>1. CASE s = <<>>
      BY <3>1, EmptySeq
    <3>2. CASE s # <<>>
      <4>1. Len(s) \in Nat \ {0}
        BY <3>2, EmptySeq
      <4>2. PICK n \in Nat \ {0} : Len(s) = n
        BY <4>1
      <4>3. n <= 1
        BY <2>4, <4>2
      <4>4. Len(s) = 1
        BY <4>2, <4>3
      <4>. QED
        BY ONLY <3>2, <4>4
    <3>. QED
      BY <3>1, <3>2
  <2>5. /\ Len(reported["summary"][f]) = IF reported["summary"][f] = <<>> THEN 0 ELSE 1
        /\ Len(reported["stats"][f]) = IF reported["stats"][f] = <<>> THEN 0 ELSE 1
    BY <2>2, <2>3, <2>4
  <2>6. /\ Places("summary", f) =
             (IF Load("summary", f) \in Pending THEN 1 ELSE 0) + Len(reported["summary"][f])
        /\ Places("stats", f) =
             (IF Load("stats", f) \in Pending THEN 1 ELSE 0) + Len(reported["stats"][f])
    BY PlacesOfLoad DEF Kinds
  <2>. QED
    BY <2>2, <2>5, <2>6
<1>. QED
  BY <1>1 DEF StreamInv, LoadsAreKept, EveryLoadHasOnePlace

\* Whatever the reader, the guard and Google do, and for any number of forms and
\* workers: while the stream is open every load is in one queue, in the pool or
\* reported once, the count of a form exists only after details that are ok, and
\* no mixture of refusals asks Google more than three times for one load.
THEOREM LoadsAreKeptHolds == Spec => []LoadsAreKept
<1>. QED
  BY StreamInvariance, InvKeepsLoads, PTL

-----------------------------------------------------------------------------
(* What the reader sees: a yield is ReportSummary or ReportStats, the end   *)
(* is Done or Cut, and every other step is a stutter of CatalogProgress.    *)

StreamEnd == CASE at = "done" -> "done" [] at \in {"error", "closed"} -> "cut" [] OTHER -> "open"

LEMMA InitShowsProgress == Init => Progress!Init
  BY DEF Init, Progress!Init, Kinds

LEMMA StutterShowsProgress ==
  ASSUME reported' = reported, at' = at \/ (at \notin Ended /\ at' \notin Ended)
  PROVE  UNCHANGED Progress!vars
<1>1. StreamEnd' = StreamEnd
  BY DEF StreamEnd, Ended
<1>. QED
  BY <1>1 DEF Progress!vars, StreamEnd

LEMMA ReportShowsProgress ==
  ASSUME StreamInv, at \notin Ended, at' \notin Ended,
         NEW k \in Kinds, NEW f \in Forms, NEW status \in Statuses, Load(k, f) \in Owed,
         reported' = [reported EXCEPT ![k][f] = Append(@, status)]
  PROVE  Progress!Next
<1>1. reported \in [Kinds -> [Forms -> Seq(Statuses)]] /\ reported[k] \in [Forms -> Seq(Statuses)]
  BY DEF StreamInv, TypeOK
<1>2. StreamEnd = "open" /\ StreamEnd' = "open"
  BY DEF StreamEnd, Ended
<1>3. /\ reported[k][f] = <<>>
      /\ k = "stats" => reported["summary"][f] = <<"ok">>
  BY DEF StreamInv, ReportsMatch, Kinds
<1>4. reported'[k] = [reported[k] EXCEPT ![f] = <<status>>]
  <2>1. Append(reported[k][f], status) = <<status>>
    BY <1>3
  <2>. QED
    BY <1>1, <2>1
<1>5. \A j \in Kinds : j # k => reported'[j] = reported[j]
  BY <1>1
<1>6. CASE k = "summary"
  <2>1. Progress!ReportSummary(f, status)
    BY <1>2, <1>3, <1>4, <1>5, <1>6 DEF Progress!ReportSummary, StreamEnd, Kinds
  <2>. QED
    BY <2>1 DEF Progress!Next
<1>7. CASE k = "stats"
  <2>1. Progress!ReportStats(f, status)
    BY <1>2, <1>3, <1>4, <1>5, <1>7 DEF Progress!ReportStats, StreamEnd, Kinds
  <2>. QED
    BY <2>1 DEF Progress!Next
<1>. QED
  BY <1>6, <1>7 DEF Kinds

LEMMA DoneShowsProgress ==
  ASSUME StreamInv, Complete \/ CompleteLate
  PROVE  Progress!Next
<1>1. at \notin Ended /\ at' = "done" /\ reported' = reported
  BY DEF Complete, CompleteLate, Ended
<1>2. Owed = {}
  <2>1. CASE Complete
    <3>1. details = <<>> /\ counts = <<>> /\ held = <<>> /\ running = {} /\ at = "loop"
      BY <2>1 DEF Complete, WorkLeft
    <3>. QED
      BY <3>1 DEF Owed, Pending
  <2>2. CASE CompleteLate
    BY <2>2 DEF CompleteLate, Owed
  <2>. QED
    BY <2>1, <2>2
<1>3. \A f \in Forms : Progress!Complete(f)
  BY <1>1, <1>2 DEF StreamInv, ReportsMatch, Progress!Complete
<1>4. StreamEnd = "open" /\ StreamEnd' = "done"
  BY <1>1 DEF StreamEnd, Ended
<1>5. Progress!Done
  BY <1>1, <1>3, <1>4 DEF Progress!Done, StreamEnd
<1>. QED
  BY <1>5 DEF Progress!Next

LEMMA CutShowsProgress ==
  ASSUME at \notin Ended, at' \in {"error", "closed"}, reported' = reported
  PROVE  Progress!Next
<1>1. StreamEnd = "open" /\ StreamEnd' = "cut"
  BY DEF StreamEnd, Ended
<1>2. Progress!Cut
  BY <1>1 DEF Progress!Cut, StreamEnd
<1>. QED
  BY <1>2 DEF Progress!Next

LEMMA NextShowsProgress == StreamInv /\ [Next]_vars => [Progress!Next]_Progress!vars
<1>. SUFFICES ASSUME StreamInv, [Next]_vars PROVE [Progress!Next]_Progress!vars
  OBVIOUS
<1>1. CASE Tick \/ Expire \/ WakeUp \/ Collect \/ Dispatch \/ UNCHANGED vars
  <2>1. CASE Dispatch
    <3>1. reported' = reported /\ at = "loop" /\ at' \in {"sleep", "wait"}
      BY <2>1 DEF Dispatch
    <3>. QED
      BY <3>1, StutterShowsProgress DEF Ended
  <2>2. CASE Tick \/ Expire \/ WakeUp \/ Collect \/ UNCHANGED vars
    <3>1. reported' = reported /\ (at' = at \/ (at \notin Ended /\ at' \notin Ended))
      BY <2>2 DEF Tick, Expire, WakeUp, Collect, vars, Ended
    <3>. QED
      BY <3>1, StutterShowsProgress
  <2>. QED
    BY <1>1, <2>1, <2>2
<1>2. CASE Close
  BY <1>2, CutShowsProgress DEF Close
<1>3. CASE Complete \/ CompleteLate
  BY <1>3, DoneShowsProgress
<1>4. ASSUME NEW load \in late, ReportLate(load) PROVE Progress!Next
  <2>1. /\ at = "expire" /\ at' = "expire" /\ load \in Loads /\ Owed = late
        /\ reported' = [reported EXCEPT ![load.kind][load.form] = Append(@, "timeout")]
    BY <1>4 DEF ReportLate, StreamInv, TypeOK, Owed
  <2>2. load.kind \in Kinds /\ load.form \in Forms /\ load = Load(load.kind, load.form)
    BY <2>1 DEF Loads, Load
  <2>3. Load(load.kind, load.form) \in Owed /\ at \notin Ended /\ at' \notin Ended /\ "timeout" \in Statuses
    BY <2>1, <2>2 DEF Ended, Statuses
  <2>. QED
    BY <2>1, <2>2, <2>3, ReportShowsProgress
<1>5. ASSUME NEW future \in drained, Handle(future) PROVE [Progress!Next]_Progress!vars
  <2>. DEFINE task == future.task
              status == StatusOf(task, future.result)
  <2>1. /\ future \in running /\ future \in Futures /\ future.result # "none"
        /\ at = "drain" /\ at' \in {"loop", "drain"} /\ future.result # "fatal"
    BY <1>5 DEF StreamInv, TypeOK, Handle
  <2>2. at \notin Ended /\ at' \notin Ended
    BY <2>1 DEF Ended
  <2>3. \/ status # "none" /\ Yield(task, status)
        \/ reported' = reported
    BY <1>5 DEF Handle
  <2>4. CASE reported' = reported
    BY <2>2, <2>4, StutterShowsProgress
  <2>5. CASE status # "none" /\ Yield(task, status)
    <3>1. task.kind \in Kinds /\ task.form \in Forms /\ future.result \in Results
      BY <2>1 DEF Futures, Tasks
    <3>2. status \in Statuses
      BY <2>5, <3>1 DEF StatusOf, Statuses, Results
    <3>3. Load(task.kind, task.form) \in Owed
      BY <2>1 DEF Owed, Pending, Load, LoadOf
    <3>. HIDE DEF status
    <3>4. reported' = [reported EXCEPT ![task.kind][task.form] = Append(@, status)]
      BY <2>5 DEF Yield
    <3>. QED
      BY <2>2, <3>1, <3>2, <3>3, <3>4, ReportShowsProgress
  <2>. QED
    BY <2>3, <2>4, <2>5
<1>6. ASSUME NEW future \in drained, HandleFatal(future) PROVE Progress!Next
  BY <1>6, CutShowsProgress DEF HandleFatal, Ended
<1>7. ASSUME NEW future \in running, NEW result \in Results, Finish(future, result)
      PROVE  UNCHANGED Progress!vars
  <2>1. reported' = reported /\ at' = at
    BY <1>7 DEF Finish
  <2>. QED
    BY <2>1, StutterShowsProgress
<1>. QED
  BY <1>1, <1>2, <1>3, <1>4, <1>5, <1>6, <1>7 DEF Next, Generator

\* Whatever happens behind the stream, its reader sees a behaviour of
\* CatalogProgress: no line twice, no count without details that are ok, and
\* "done" only when every form has been reported.
THEOREM ImplementsProgressHolds == Spec => ImplementsProgress
<1>. QED
  BY InitShowsProgress, NextShowsProgress, StreamInvariance, PTL
     DEF Spec, ImplementsProgress, Progress!Spec
=============================================================================
