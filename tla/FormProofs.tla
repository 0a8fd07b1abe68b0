------------------------------ MODULE FormProofs ------------------------------
(***************************************************************************)
(* The page of a form's dynamics (Forecast), for a form of any answers,    *)
(* and the map of its sections (FormFlow), for a form of any sections.     *)
(* The waves are a fold over the answers, the fit to go by is one over the *)
(* fits, and the map has folds over the sections, a search in breadth and  *)
(* one in depth; what they give is found by induction over the numbers,    *)
(* with the numbers for which a fact holds as a set.                       *)
(***************************************************************************)
EXTENDS Forecast, FormFlow, FiniteSetTheorems, SequenceTheorems, WellFoundedInduction, TLAPS

\* A set of places has a first one.
LEMMA FirstPlace ==
  ASSUME NEW S \in SUBSET Nat, S # {}
  PROVE  Min(S) \in S /\ \A j \in S : Min(S) <= j
<1>1. PICK n \in S : \A m \in S : ~ (<<m, n>> \in OpToRel(<, Nat))
  BY WFMin, NatLessThanWellFounded
<1>2. ASSUME NEW m \in S PROVE n <= m
  <2>1. m \in Nat /\ n \in Nat /\ ~(m < n)
    BY <1>1 DEF OpToRel
  <2>. QED
    BY <2>1
<1>. QED
  BY <1>2 DEF Min

\* Induction over the numbers, with the numbers it holds of as a set.
LEMMA Induction ==
  ASSUME NEW S, 0 \in S, \A n \in Nat : n \in S => n + 1 \in S
  PROVE  \A n \in Nat : n \in S
<1>. SUFFICES ASSUME NEW n \in Nat, n \notin S PROVE FALSE
  OBVIOUS
<1>1. PICK least \in Nat \ S : \A m \in Nat \ S : least <= m
  BY FirstPlace
<1>2. least # 0 /\ least - 1 \in Nat
  OBVIOUS
<1>3. least - 1 \in S
  BY <1>1, <1>2
<1>. QED
  BY <1>2, <1>3

-----------------------------------------------------------------------------
(* Folds over places, and the waves that they find.                         *)

\* A set of places has a last one.
LEMMA LastPlace ==
  ASSUME NEW n \in Nat, NEW S \in SUBSET (1..n), S # {}
  PROVE  Max(S) \in S /\ \A j \in S : j <= Max(S)
<1>. DEFINE T == {m \in Nat : n - m \in S}
<1>1. T # {}
  <2>1. PICK j \in S : TRUE
    OBVIOUS
  <2>2. n - j \in Nat /\ n - (n - j) = j
    OBVIOUS
  <2>3. n - j \in T
    BY <2>1, <2>2
  <2>. QED
    BY <2>3
<1>2. PICK m \in T : \A k \in T : m <= k
  BY <1>1, FirstPlace
<1>3. \A j \in S : j <= n - m
  <2>. TAKE j \in S
  <2>1. n - j \in Nat /\ n - (n - j) = j
    OBVIOUS
  <2>2. n - j \in T
    BY <2>1
  <2>3. m <= n - j /\ m \in Nat
    BY <1>2, <2>2
  <2>. QED
    BY <2>1, <2>3
<1>4. n - m \in S /\ \A j \in S : n - m >= j
  BY <1>2, <1>3
<1>. QED
  BY <1>4 DEF Max

\* it folds the places 1 to n, as a function of the sets of places: a step takes
\* the last place of a set.
FoldsTo(it, V, base, n, Step) ==
  /\ it \in [SUBSET (1..n) -> V] /\ it[{}] = base
  /\ \A s \in SUBSET (1..n) : s # {} => it[s] = Step[Max(s)][it[s \ {Max(s)}]]

LEMMA FoldIsThere ==
  ASSUME NEW V, NEW base \in V, NEW n \in Nat, NEW Step \in [1..n -> [V -> V]]
  PROVE  \E it : FoldsTo(it, V, base, n, Step)
<1>. DEFINE Folds(it, m) ==
              /\ it \in [SUBSET (1..m) -> V] /\ it[{}] = base
              /\ \A s \in SUBSET (1..m) : s # {} => it[s] = Step[Max(s)][it[s \ {Max(s)}]]
            S == {m \in Nat : m <= n => \E it : Folds(it, m)}
<1>1. 0 \in S
  <2>1. \A s \in SUBSET (1..0) : s = {}
    OBVIOUS
  <2>2. Folds([s \in SUBSET (1..0) |-> base], 0)
    BY <2>1
  <2>. QED
    BY <2>2
<1>2. ASSUME NEW m \in Nat, m \in S PROVE m + 1 \in S
  <2>. SUFFICES ASSUME m + 1 <= n PROVE \E it : Folds(it, m + 1)
    <3>. HIDE DEF Folds
    <3>. QED
      OBVIOUS
  <2>1. m <= n /\ m + 1 \in 1..n
    OBVIOUS
  <2>2. PICK it : Folds(it, m)
    BY <1>2, <2>1
  <2>. DEFINE longer == [s \in SUBSET (1..(m + 1)) |->
                           IF m + 1 \in s THEN Step[m + 1][it[s \ {m + 1}]] ELSE it[s]]
  <2>3. \A s \in SUBSET (1..(m + 1)) : /\ s \ {m + 1} \in SUBSET (1..m)
                                       /\ m + 1 \notin s => s \in SUBSET (1..m)
    OBVIOUS
  <2>4. \A s \in SUBSET (1..m) : m + 1 \notin s /\ s \in SUBSET (1..(m + 1))
    OBVIOUS
  <2>5. longer \in [SUBSET (1..(m + 1)) -> V]
    <3>1. ASSUME NEW s \in SUBSET (1..(m + 1)), m + 1 \in s PROVE Step[m + 1][it[s \ {m + 1}]] \in V
      <4>1. it[s \ {m + 1}] \in V
        BY <2>2, <2>3
      <4>. QED
        BY <2>1, <4>1
    <3>2. ASSUME NEW s \in SUBSET (1..(m + 1)), m + 1 \notin s PROVE it[s] \in V
      BY <2>2, <2>3, <3>2
    <3>. QED
      BY <3>1, <3>2
  <2>6. \A s \in SUBSET (1..m) : longer[s] = it[s]
    BY <2>4
  <2>7. \A s \in SUBSET (1..(m + 1)) : m + 1 \in s => longer[s] = Step[m + 1][it[s \ {m + 1}]]
    OBVIOUS
  <2>. HIDE DEF longer
  <2>8. longer[{}] = base
    BY <2>2, <2>6
  <2>9. ASSUME NEW s \in SUBSET (1..(m + 1)), s # {} PROVE longer[s] = Step[Max(s)][longer[s \ {Max(s)}]]
    <3>1. Max(s) \in s /\ \A j \in s : j <= Max(s)
      <4>1. m + 1 \in Nat
        OBVIOUS
      <4>. QED
        BY <2>9, <4>1, LastPlace
    <3>2. CASE m + 1 \in s
      <4>1. Max(s) = m + 1
        <5>1. Max(s) \in 1..(m + 1) /\ m + 1 <= Max(s)
          BY <3>1, <3>2
        <5>. QED
          BY <5>1
      <4>2. longer[s \ {m + 1}] = it[s \ {m + 1}]
        BY <2>3, <2>6
      <4>. QED
        BY <2>7, <3>2, <4>1, <4>2
    <3>3. CASE m + 1 \notin s
      <4>1. s \in SUBSET (1..m) /\ s \ {Max(s)} \in SUBSET (1..m)
        BY <2>3, <3>3
      <4>2. it[s] = Step[Max(s)][it[s \ {Max(s)}]]
        BY <2>2, <2>9, <4>1
      <4>. QED
        BY <2>6, <4>1, <4>2
    <3>. QED
      BY <3>2, <3>3
  <2>. QED
    BY <2>5, <2>8, <2>9
<1>3. n \in S
  <2>. HIDE DEF S
  <2>. QED
    BY <1>1, <1>2, Induction
<1>4. PICK it : Folds(it, n)
  <2>. HIDE DEF Folds
  <2>. QED
    BY <1>3
<1>. QED
  BY <1>4 DEF FoldsTo

LEMMA LastOfAll ==
  ASSUME NEW k \in Nat \ {0}
  PROVE  Max(1..k) = k /\ (1..k) \ {k} = 1..(k - 1)
<1>1. 1..k \in SUBSET (1..k) /\ k \in 1..k
  OBVIOUS
<1>2. Max(1..k) \in 1..k /\ k <= Max(1..k)
  BY <1>1, LastPlace
<1>. QED
  BY <1>2

\* The waves as they are found, one answer after the other: r[k] are the starts
\* among the first k answers.
Finds(r, times, kind) ==
  /\ r \in [0..Len(times) -> Seq(Nat)]
  /\ r[0] = <<1>>
  /\ \A k \in 1..Len(times) :
       r[k] = IF k > 1 /\ Spike(times, k, times[Last(r[k - 1])], kind) THEN Append(r[k - 1], k) ELSE r[k - 1]
  /\ r[Len(times)] = WaveStarts(times, kind)

LEMMA WavesAreFound ==
  ASSUME NEW times \in Seq(Nat), NEW kind
  PROVE  \E r : Finds(r, times, kind)
<1>. DEFINE n == Len(times)
            V == Seq(Nat)
            Longer(i, starts) ==
              IF i > 1 /\ Spike(times, i, times[Last(starts)], kind) THEN Append(starts, i) ELSE starts
            Step == [i \in 1..n |-> [starts \in V |-> Longer(i, starts)]]
            ids == [i \in DOMAIN times |-> i]
            Body(g) == [s \in SUBSET DOMAIN ids |->
                          IF s = {} THEN <<1>> ELSE Longer(ids[Max(s)], g[s \ {Max(s)}])]
            found == CHOOSE g : g = Body(g)
<1>1. n \in Nat /\ DOMAIN ids = 1..n /\ \A i \in 1..n : ids[i] = i
  OBVIOUS
<1>2. \A i \in 1..n, starts \in V : Longer(i, starts) \in V
  OBVIOUS
<1>3. WaveStarts(times, kind) = found[DOMAIN ids]
  BY DEF WaveStarts, FoldLeft, MapThenFoldSet
<1>4. \E g : g = Body(g)
  <2>1. <<1>> \in V /\ Step \in [1..n -> [V -> V]]
    BY <1>2
  <2>. HIDE DEF V, Longer
  <2>2. PICK it : FoldsTo(it, V, <<1>>, n, Step)
    <3>. HIDE DEF Step, n
    <3>. QED
      BY <1>1, <2>1, FoldIsThere
  <2>3. ASSUME NEW s \in SUBSET (1..n), s # {} PROVE it[s] = Longer(ids[Max(s)], it[s \ {Max(s)}])
    <3>1. Max(s) \in 1..n /\ it[s \ {Max(s)}] \in V
      BY <1>1, <2>2, <2>3, LastPlace DEF FoldsTo
    <3>. QED
      BY <1>1, <2>2, <2>3, <3>1 DEF FoldsTo
  <2>4. it = Body(it)
    BY <1>1, <2>2, <2>3 DEF FoldsTo
  <2>. QED
    BY <2>4
<1>5. found = Body(found)
  BY <1>4
<1>. DEFINE r == [k \in 0..n |-> found[1..k]]
<1>. HIDE DEF found, Longer, V
<1>6. r[0] = <<1>>
  <2>1. 1..0 = {} /\ 0 \in 0..n
    BY <1>1
  <2>. QED
    BY <1>1, <1>5, <2>1
<1>7. ASSUME NEW k \in 1..n PROVE r[k] = Longer(k, r[k - 1])
  <2>1. k \in Nat \ {0} /\ 1..k \in SUBSET (1..n) /\ k \in 1..k /\ k \in 0..n /\ k - 1 \in 0..n
    BY <1>1
  <2>2. 1..k # {} /\ Max(1..k) = k /\ (1..k) \ {k} = 1..(k - 1)
    BY <2>1, LastOfAll
  <2>3. \A s \in SUBSET (1..n) : s # {} => found[s] = Longer(ids[Max(s)], found[s \ {Max(s)}])
    <3>. HIDE DEF ids
    <3>. QED
      BY <1>1, <1>5
  <2>. HIDE DEF ids
  <2>4. found[1..k] = Longer(ids[k], found[1..(k - 1)])
    BY <2>1, <2>2, <2>3
  <2>. QED
    BY <1>1, <2>1, <2>4
<1>8. \A k \in Nat : k \in {m \in Nat : m <= n => r[m] \in V}
  <2>. DEFINE S == {m \in Nat : m <= n => r[m] \in V}
  <2>1. 0 \in S
    <3>1. r[0] \in V
      BY <1>6 DEF V
    <3>. HIDE DEF r
    <3>. QED
      BY <3>1
  <2>2. ASSUME NEW m \in Nat, m \in S PROVE m + 1 \in S
    <3>. SUFFICES ASSUME m + 1 <= n PROVE r[m + 1] \in V
      OBVIOUS
    <3>1. m + 1 \in 1..n /\ (m + 1) - 1 = m /\ r[m] \in V
      BY <1>1, <2>2
    <3>. HIDE DEF r
    <3>. QED
      BY <1>2, <1>7, <3>1
  <2>. HIDE DEF S
  <2>3. \A m \in Nat : m \in S
    BY <2>1, <2>2, Induction
  <2>. QED
    BY <2>3 DEF S
<1>9. r \in [0..n -> V]
  <2>1. ASSUME NEW k \in 0..n PROVE found[1..k] \in V
    <3>1. k \in Nat /\ k <= n
      BY <1>1
    <3>2. r[k] \in V
      <4>. HIDE DEF r
      <4>. QED
        BY <1>8, <3>1
    <3>. QED
      BY <3>2
  <2>. QED
    BY <2>1
<1>10. r[n] = WaveStarts(times, kind)
  BY <1>1, <1>3
<1>. HIDE DEF r
<1>11. Finds(r, times, kind)
  BY <1>6, <1>7, <1>9, <1>10 DEF Finds, Longer, V
<1>. QED
  BY <1>11

Sorted(times) == \A i, j \in DOMAIN times : i <= j => times[i] <= times[j]

\* The starts found among the first k answers: each is later than the one before
\* it by the silence at least, and than the answer before it.
FoundWell(starts, k, times, kind) ==
  /\ starts \in Seq(Nat) /\ starts # <<>> /\ starts[1] = 1
  /\ \A w \in 1..Len(starts) : starts[w] >= 1 /\ (w >= 2 => starts[w] <= k)
  /\ \A w \in 2..Len(starts) :
       /\ starts[w - 1] < starts[w]
       /\ times[starts[w]] - times[starts[w - 1]] >= kind.silence * Hour
       /\ times[starts[w] - 1] < times[starts[w]]

LEMMA LastStart ==
  ASSUME NEW k \in Nat, NEW times, NEW kind, NEW starts, FoundWell(starts, k, times, kind)
  PROVE  /\ Len(starts) \in Nat \ {0} /\ Last(starts) = starts[Len(starts)]
         /\ Last(starts) \in Nat /\ Last(starts) >= 1 /\ (Last(starts) <= k \/ Last(starts) = 1)
<1>1. Len(starts) \in Nat \ {0}
  BY DEF FoundWell
<1>2. starts[Len(starts)] \in Nat /\ (Len(starts) >= 2 \/ Len(starts) = 1)
  <2>1. starts \in Seq(Nat)
    BY DEF FoundWell
  <2>2. Len(starts) \in 1..Len(starts)
    BY <1>1
  <2>3. \A w \in 1..Len(starts) : starts[w] \in Nat
    BY <2>1
  <2>4. starts[Len(starts)] \in Nat
    BY <2>2, <2>3
  <2>5. Len(starts) >= 2 \/ Len(starts) = 1
    BY <1>1
  <2>. QED
    BY <2>4, <2>5
<1>. QED
  BY <1>1, <1>2 DEF FoundWell, Last

\* What a spike is depends on the time of its answer only.
LEMMA SpikeOfTime ==
  ASSUME NEW times, NEW i, NEW j, NEW since, NEW kind, times[i] = times[j]
  PROVE  Spike(times, i, since, kind) <=> Spike(times, j, since, kind)
BY DEF Spike, Recent

LEMMA FoundAsFar ==
  ASSUME NEW times \in Seq(Nat), Sorted(times), NEW kind, kind.silence \in Nat \ {0},
         NEW r, Finds(r, times, kind)
  PROVE  \A k \in 0..Len(times) : FoundWell(r[k], k, times, kind)
<1>. DEFINE n == Len(times)
            apart == kind.silence * Hour
            S == {k \in Nat : k <= n => FoundWell(r[k], k, times, kind)}
<1>0. /\ n \in Nat /\ DOMAIN times = 1..n /\ \A i \in 1..n : times[i] \in Nat
      /\ apart \in Nat /\ apart > 0 /\ \A j \in 0..n : r[j] \in Seq(Nat)
  <2>1. n \in Nat /\ DOMAIN times = 1..n /\ \A i \in 1..n : times[i] \in Nat
    OBVIOUS
  <2>2. apart \in Nat /\ apart > 0
    BY DEF Hour
  <2>3. \A j \in 0..n : r[j] \in Seq(Nat)
    BY DEF Finds
  <2>. QED
    BY <2>1, <2>2, <2>3
<1>1. 0 \in S
  <2>1. r[0] = <<1>>
    BY DEF Finds
  <2>2. FoundWell(<<1>>, 0, times, kind)
    BY DEF FoundWell
  <2>. QED
    BY <2>1, <2>2
<1>2. ASSUME NEW m \in Nat, m \in S PROVE m + 1 \in S
  <2>. DEFINE k == m + 1
  <2>. SUFFICES ASSUME k <= n PROVE FoundWell(r[k], k, times, kind)
    OBVIOUS
  <2>1. k \in 1..n /\ k - 1 = m /\ m <= n
    BY <1>0
  <2>2. FoundWell(r[m], m, times, kind)
    BY <1>2, <2>1
  <2>3. r[k] = IF k > 1 /\ Spike(times, k, times[Last(r[m])], kind) THEN Append(r[m], k) ELSE r[m]
    BY <2>1 DEF Finds
  <2>. HIDE DEF k, n
  <2>4. CASE ~(k > 1 /\ Spike(times, k, times[Last(r[m])], kind))
    <3>1. r[k] = r[m] /\ m < k
      BY <2>1, <2>3, <2>4
    <3>. QED
      BY <2>1, <2>2, <3>1 DEF FoundWell
  <2>5. CASE k > 1 /\ Spike(times, k, times[Last(r[m])], kind)
    <3>. DEFINE last == Last(r[m])
                len == Len(r[m])
    <3>1. /\ len \in Nat \ {0} /\ last = r[m][len] /\ last \in 1..m /\ r[m] \in Seq(Nat)
      <4>1. m >= 1
        BY <2>1, <2>5
      <4>2. r[m] \in Seq(Nat)
        BY <2>2 DEF FoundWell
      <4>3. /\ len \in Nat \ {0} /\ last = r[m][len] /\ last \in Nat /\ last >= 1
            /\ (last <= m \/ last = 1)
        BY <2>2, LastStart
      <4>. HIDE DEF last, len
      <4>. QED
        BY <4>1, <4>2, <4>3
    <3>2. times[k] - times[last] >= apart
      BY <2>5 DEF Spike
    <3>3. r[k] = Append(r[m], k)
      BY <2>3, <2>5
    <3>. HIDE DEF last, apart
    <3>4. times[m] < times[k]
      <4>. SUFFICES ASSUME times[m] = times[k] PROVE FALSE
        <5>1. m \in 1..n /\ m <= k
          BY <1>0, <2>1, <3>1
        <5>2. times[m] <= times[k] /\ times[m] \in Nat /\ times[k] \in Nat
          BY <1>0, <2>1, <5>1 DEF Sorted
        <5>. QED
          BY <5>2
      <4>1. last # m
        BY <1>0, <2>1, <3>1, <3>2
      <4>2. m \in 1..n /\ m - 1 \in Nat /\ m > 1 /\ last < m
        BY <1>0, <2>1, <3>1, <4>1
      <4>3. r[m] = IF m > 1 /\ Spike(times, m, times[Last(r[m - 1])], kind)
                   THEN Append(r[m - 1], m) ELSE r[m - 1]
        BY <4>2 DEF Finds, n
      <4>4. CASE Spike(times, m, times[Last(r[m - 1])], kind)
        <5>1. r[m - 1] \in Seq(Nat)
          <6>1. m - 1 \in 0..n
            BY <1>0, <4>2
          <6>. QED
            BY <1>0, <6>1
        <5>2. r[m] = Append(r[m - 1], m)
          BY <4>2, <4>3, <4>4
        <5>3. last = m
          BY <3>1, <5>1, <5>2
        <5>. QED
          BY <4>1, <5>3
      <4>5. CASE ~Spike(times, m, times[Last(r[m - 1])], kind)
        <5>1. r[m] = r[m - 1]
          BY <4>3, <4>5
        <5>2. ~Spike(times, m, times[last], kind)
          BY <4>5, <5>1 DEF last
        <5>3. Spike(times, k, times[last], kind)
          BY <2>5 DEF last
        <5>. QED
          BY <5>2, <5>3, SpikeOfTime
      <4>. QED
        BY <4>4, <4>5
    <3>. DEFINE longer == r[k]
    <3>5. /\ longer \in Seq(Nat) /\ Len(longer) = len + 1 /\ longer[len + 1] = k
          /\ \A w \in 1..len : longer[w] = r[m][w]
      BY <2>1, <3>1, <3>3
    <3>. HIDE DEF longer, len
    <3>6. longer # <<>> /\ longer[1] = 1
      <4>1. r[m][1] = 1
        BY <2>2 DEF FoundWell
      <4>2. 1 \in 1..len
        BY <3>1
      <4>3. longer[1] = r[m][1] /\ Len(longer) # 0
        BY <3>1, <3>5, <4>2
      <4>. QED
        BY <4>1, <4>3
    <3>7. ASSUME NEW w \in 1..Len(longer) PROVE longer[w] >= 1 /\ (w >= 2 => longer[w] <= k)
      <4>1. CASE w = len + 1
        BY <2>1, <3>5, <4>1
      <4>2. CASE w \in 1..len
        <5>1. r[m][w] >= 1 /\ (w >= 2 => r[m][w] <= m) /\ r[m][w] \in Nat
          BY <2>2, <4>2 DEF FoundWell, len
        <5>. QED
          BY <2>1, <3>5, <4>2, <5>1
      <4>. QED
        BY <3>1, <3>5, <4>1, <4>2
    <3>8. ASSUME NEW w \in 2..Len(longer)
          PROVE  /\ longer[w - 1] < longer[w]
                 /\ times[longer[w]] - times[longer[w - 1]] >= apart
                 /\ times[longer[w] - 1] < times[longer[w]]
      <4>1. CASE w = len + 1
        <5>1. longer[w] = k /\ longer[w - 1] = last /\ last < k
          <6>1. w - 1 = len /\ len \in 1..len /\ longer[len] = r[m][len]
            BY <3>1, <3>5, <4>1
          <6>. QED
            BY <2>1, <3>1, <3>5, <4>1, <6>1
        <5>. QED
          BY <2>1, <3>2, <3>4, <5>1
      <4>2. CASE w \in 2..len
        <5>1. longer[w] = r[m][w] /\ longer[w - 1] = r[m][w - 1]
          BY <3>1, <3>5, <4>2
        <5>. QED
          BY <2>2, <4>2, <5>1 DEF FoundWell, len, apart
      <4>. QED
        BY <3>1, <3>5, <4>1, <4>2
    <3>. QED
      BY <3>5, <3>6, <3>7, <3>8 DEF FoundWell, longer, apart
  <2>. QED
    BY <2>4, <2>5
<1>3. \A k \in Nat : k \in S
  <2>. HIDE DEF S
  <2>. QED
    BY <1>1, <1>2, Induction
<1>. QED
  BY <1>0, <1>3

\* Answers after the first m, when they are later than these, count in no interval
\* that ends with one of the first m.
LEMMA SameBetween ==
  ASSUME NEW times \in Seq(Nat), Sorted(times), NEW m \in 1..Len(times) - 1, times[m] < times[m + 1],
         NEW after \in Int, NEW until \in Int, until <= times[m]
  PROVE  Between(SubSeq(times, 1, m), after, until) = Between(times, after, until)
<1>. DEFINE n == Len(times)
            early == SubSeq(times, 1, m)
<1>1. n \in Nat /\ m \in Nat /\ 1 <= m /\ m + 1 <= n /\ \A i \in 1..n : times[i] \in Nat
  OBVIOUS
<1>2. DOMAIN times = 1..n /\ DOMAIN early = 1..m /\ \A i \in 1..m : early[i] = times[i] /\ i \in 1..n
  OBVIOUS
<1>. HIDE DEF n, early
<1>3. \A i \in 1..n : times[i] <= until => i \in 1..m
  <2>. SUFFICES ASSUME NEW i \in 1..n, times[i] <= until, ~(i <= m) PROVE FALSE
    BY <1>1
  <2>1. m + 1 <= i /\ m + 1 \in 1..n /\ m \in 1..n
    BY <1>1
  <2>2. times[m + 1] <= times[i]
    BY <1>2, <2>1 DEF Sorted
  <2>. QED
    BY <1>1, <2>1, <2>2
<1>4. {i \in DOMAIN early : after < early[i] /\ early[i] <= until}
      = {i \in DOMAIN times : after < times[i] /\ times[i] <= until}
  BY <1>2, <1>3
<1>. QED
  BY <1>4 DEF Between, early

LEMMA SameSpike ==
  ASSUME NEW times \in Seq(Nat), Sorted(times), NEW m \in 1..Len(times) - 1, times[m] < times[m + 1],
         NEW i \in 1..m, NEW since, NEW kind
  PROVE  Spike(SubSeq(times, 1, m), i, since, kind) <=> Spike(times, i, since, kind)
<1>. DEFINE early == SubSeq(times, 1, m)
<1>1. early[i] = times[i] /\ times[i] \in Nat /\ i \in DOMAIN times /\ m \in DOMAIN times /\ i <= m
  OBVIOUS
<1>2. times[i] <= times[m] /\ times[m] \in Nat
  BY <1>1 DEF Sorted
<1>3. /\ times[i] - Hour \in Int /\ times[i] - 7 * Hour \in Int
      /\ times[i] - Hour <= times[m]
  BY <1>1, <1>2 DEF Hour
<1>. HIDE DEF early
<1>4. Recent(early, i) = Recent(times, i)
  <2>1. Between(early, times[i] - Hour, times[i]) = Between(times, times[i] - Hour, times[i])
    <3>. DEFINE after == times[i] - Hour
                until == times[i]
    <3>1. after \in Int /\ until \in Int /\ until <= times[m]
      BY <1>1, <1>2, <1>3
    <3>. HIDE DEF after, until
    <3>2. Between(early, after, until) = Between(times, after, until)
      BY <3>1, SameBetween DEF early
    <3>. QED
      BY <3>2 DEF after, until
  <2>. QED
    BY <1>1, <2>1 DEF Recent
<1>5. Between(early, early[i] - 7 * Hour, early[i] - Hour)
      = Between(times, times[i] - 7 * Hour, times[i] - Hour)
  BY <1>1, <1>2, <1>3, SameBetween DEF early
<1>. QED
  BY <1>1, <1>4, <1>5 DEF Spike, early

\* The waves of the first m answers are found among all of them, too.
LEMMA SameStarts ==
  ASSUME NEW times \in Seq(Nat), Sorted(times), NEW kind, kind.silence \in Nat \ {0},
         NEW m \in 1..Len(times) - 1, times[m] < times[m + 1],
         NEW r, Finds(r, times, kind), NEW q, Finds(q, SubSeq(times, 1, m), kind)
  PROVE  q[m] = r[m]
<1>. DEFINE n == Len(times)
            early == SubSeq(times, 1, m)
            S == {k \in Nat : k <= m => q[k] = r[k]}
<1>1. n \in Nat /\ m \in Nat /\ 1 <= m /\ m + 1 <= n /\ Len(early) = m /\ early \in Seq(Nat)
  OBVIOUS
<1>2. \A i \in 1..m : early[i] = times[i]
  OBVIOUS
<1>3. \A k \in 0..n : FoundWell(r[k], k, times, kind)
  BY FoundAsFar
<1>. HIDE DEF n, early
<1>4. 0 \in S
  <2>1. q[0] = r[0]
    BY DEF Finds
  <2>. QED
    BY <2>1
<1>5. ASSUME NEW j \in Nat, j \in S PROVE j + 1 \in S
  <2>. DEFINE k == j + 1
  <2>. SUFFICES ASSUME k <= m PROVE q[k] = r[k]
    OBVIOUS
  <2>1. /\ k \in 1..n /\ k \in 1..m /\ k - 1 = j /\ q[j] = r[j] /\ j \in 0..n
    BY <1>1, <1>5
  <2>2. r[k] = IF k > 1 /\ Spike(times, k, times[Last(r[j])], kind) THEN Append(r[j], k) ELSE r[j]
    BY <2>1 DEF Finds, n
  <2>3. q[k] = IF k > 1 /\ Spike(early, k, early[Last(q[j])], kind) THEN Append(q[j], k) ELSE q[j]
    <3>1. k \in 1..Len(early)
      BY <1>1, <2>1
    <3>. QED
      BY <2>1, <3>1 DEF Finds, early
  <2>4. Last(r[j]) \in 1..m
    <3>1. FoundWell(r[j], j, times, kind)
      BY <1>3, <2>1
    <3>2. /\ Last(r[j]) \in Nat /\ Last(r[j]) >= 1 /\ (Last(r[j]) <= j \/ Last(r[j]) = 1)
      BY <3>1, LastStart
    <3>. QED
      BY <1>1, <2>1, <3>2
  <2>5. early[Last(q[j])] = times[Last(r[j])]
    BY <1>2, <2>1, <2>4
  <2>6. Spike(early, k, times[Last(r[j])], kind) <=> Spike(times, k, times[Last(r[j])], kind)
    BY <2>1, SameSpike DEF early
  <2>. HIDE DEF k
  <2>. QED
    BY <2>1, <2>2, <2>3, <2>5, <2>6
<1>6. m \in S
  <2>. HIDE DEF S
  <2>. QED
    BY <1>1, <1>4, <1>5, Induction
<1>. QED
  BY <1>1, <1>6

\* What is found later is added at the end.
Longer(long, short, m) ==
  /\ Len(short) <= Len(long)
  /\ \A w \in 1..Len(long) : IF w <= Len(short) THEN long[w] = short[w] ELSE long[w] > m

LEMMA StartsAreAdded ==
  ASSUME NEW times \in Seq(Nat), NEW kind, NEW m \in 1..Len(times), NEW r, Finds(r, times, kind)
  PROVE  Longer(r[Len(times)], r[m], m)
<1>. DEFINE n == Len(times)
            S == {d \in Nat : m + d <= n => Longer(r[m + d], r[m], m)}
<1>1. n \in Nat /\ m \in Nat /\ m <= n /\ \A k \in 0..n : r[k] \in Seq(Nat)
  BY DEF Finds
<1>. HIDE DEF n
<1>2. 0 \in S
  <2>1. m + 0 = m /\ Longer(r[m], r[m], m)
    <3>1. r[m] \in Seq(Nat)
      BY <1>1
    <3>. QED
      BY <1>1, <3>1 DEF Longer
  <2>. QED
    BY <2>1
<1>3. ASSUME NEW d \in Nat, d \in S PROVE d + 1 \in S
  <2>. DEFINE k == m + (d + 1)
  <2>. SUFFICES ASSUME k <= n PROVE Longer(r[k], r[m], m)
    OBVIOUS
  <2>1. k \in 1..n /\ k - 1 = m + d /\ k - 1 \in 0..n /\ m \in 0..n /\ m < k /\ m + d <= n
    BY <1>1
  <2>2. Longer(r[k - 1], r[m], m)
    BY <1>3, <2>1
  <2>3. r[k] = Append(r[k - 1], k) \/ r[k] = r[k - 1]
    BY <2>1 DEF Finds, n
  <2>. HIDE DEF k
  <2>. DEFINE before == r[k - 1]
              short == r[m]
              long == r[k]
  <2>4. before \in Seq(Nat) /\ short \in Seq(Nat)
    BY <1>1, <2>1
  <2>. HIDE DEF before, short, long
  <2>5. CASE long = Append(before, k)
    <3>1. /\ Len(long) = Len(before) + 1 /\ long[Len(before) + 1] = k
          /\ \A w \in 1..Len(before) : long[w] = before[w]
      BY <2>1, <2>4, <2>5
    <3>2. Len(before) \in Nat /\ Len(short) \in Nat /\ Len(short) <= Len(before)
      BY <2>2, <2>4 DEF Longer, before, short
    <3>3. ASSUME NEW w \in 1..Len(long) PROVE IF w <= Len(short) THEN long[w] = short[w] ELSE long[w] > m
      <4>1. CASE w = Len(before) + 1
        BY <1>1, <2>1, <3>1, <3>2, <4>1
      <4>2. CASE w \in 1..Len(before)
        <5>1. IF w <= Len(short) THEN before[w] = short[w] ELSE before[w] > m
          BY <2>2, <4>2 DEF Longer, before, short
        <5>. QED
          BY <3>1, <4>2, <5>1
      <4>. QED
        BY <3>1, <3>2, <4>1, <4>2
    <3>4. Longer(long, short, m)
      BY <3>1, <3>2, <3>3 DEF Longer
    <3>. QED
      BY <3>4 DEF long, short
  <2>6. CASE long = before
    BY <2>2, <2>6 DEF long, before
  <2>. QED
    BY <2>3, <2>5, <2>6 DEF long, before
<1>4. n - m \in S
  <2>1. \A d \in Nat : d \in S
    <3>. HIDE DEF S
    <3>. QED
      BY <1>2, <1>3, Induction
  <2>. HIDE DEF S
  <2>. QED
    BY <1>1, <2>1
<1>. QED
  <2>1. m + (n - m) = n /\ n <= n
    BY <1>1
  <2>2. Longer(r[n], r[m], m)
    BY <1>4, <2>1
  <2>. QED
    BY <2>2 DEF n

\* A time that is later than the time before it has the places before it before it.
LEMMA BeforeOfLater ==
  ASSUME NEW times \in Seq(Nat), Sorted(times), NEW s \in 2..Len(times), times[s - 1] < times[s]
  PROVE  Before(times, times[s]) = s - 1
<1>1. /\ s \in Nat /\ s - 1 \in Nat /\ s - 1 \in DOMAIN times /\ s \in DOMAIN times
      /\ \A i \in DOMAIN times : times[i] \in Nat /\ i \in Nat /\ i >= 1 /\ i <= Len(times)
  OBVIOUS
<1>2. ASSUME NEW i \in DOMAIN times PROVE times[i] < times[s] <=> i <= s - 1
  <2>1. i <= s - 1 => times[i] <= times[s - 1]
    BY <1>1 DEF Sorted
  <2>2. s <= i => times[s] <= times[i]
    BY <1>1 DEF Sorted
  <2>. QED
    BY <1>1, <2>1, <2>2
<1>3. {i \in DOMAIN times : times[i] < times[s]} = 1..(s - 1)
  <2>1. \A i \in 1..(s - 1) : i \in DOMAIN times
    BY <1>1
  <2>. QED
    BY <1>1, <1>2, <2>1
<1>4. Cardinality(1..(s - 1)) = s - 1
  <2>1. 1 \in Int /\ s - 1 \in Int
    BY <1>1
  <2>2. Cardinality(1..(s - 1)) = IF 1 > s - 1 THEN 0 ELSE (s - 1) - 1 + 1
    BY <2>1, FS_Interval
  <2>. QED
    BY <1>1, <2>2
<1>. QED
  BY <1>3, <1>4 DEF Before

\* The property of one course, with the starts of its first m answers named.
Stay(form, m) ==
  LET early == WaveStarts(SubSeq(form.times, 1, m), form.kind)
      starts == WaveStarts(form.times, form.kind)
  IN  /\ IsPrefix(early, starts)
      /\ \A w \in DOMAIN starts : starts[w] <= m <=> w <= Len(early)

Stand(form, w) ==
  LET starts == WaveStarts(form.times, form.kind) IN
  /\ form.times[starts[w]] - form.times[starts[w - 1]] >= form.kind.silence * Hour
  /\ Changepoints(form.times, form.kind)[w - 1].index = starts[w] - 1

LEMMA CourseFields ==
  ASSUME NEW form, IsCourse(form)
  PROVE  /\ form.times \in Seq(Nat) /\ Sorted(form.times)
         /\ form.kind.silence \in Nat \ {0}
<1>1. form.times \in Seq(Nat) /\ form.kind.silence \in Nat \ {0}
  BY DEF IsCourse
<1>2. \A i, j \in 1..Len(form.times) : i < j => form.times[i] <= form.times[j]
  BY DEF IsCourse, IsSorted
<1>3. Sorted(form.times)
  <2>. SUFFICES ASSUME NEW i \in DOMAIN form.times, NEW j \in DOMAIN form.times, i <= j
                PROVE  form.times[i] <= form.times[j]
    BY DEF Sorted
  <2>1. i \in 1..Len(form.times) /\ j \in 1..Len(form.times) /\ form.times[i] \in Nat /\ form.times[j] \in Nat
    BY <1>1
  <2>2. CASE i < j
    BY <1>2, <2>1, <2>2
  <2>3. CASE i = j
    BY <2>1, <2>3
  <2>. QED
    BY <2>1, <2>2, <2>3
<1>. QED
  BY <1>1, <1>3

LEMMA EarlierWavesStay ==
  ASSUME NEW form, IsCourse(form), NEW m \in 1..Len(form.times) - 1, form.times[m] < form.times[m + 1]
  PROVE  Stay(form, m)
<1>. DEFINE times == form.times
            kind == form.kind
            n == Len(times)
            early == SubSeq(times, 1, m)
<1>1. times \in Seq(Nat) /\ Sorted(times) /\ kind.silence \in Nat \ {0}
  BY CourseFields
<1>. HIDE DEF times, kind
<1>2. /\ n \in Nat /\ m \in Nat /\ 1 <= m /\ m <= n /\ m \in 1..n /\ m \in 0..n /\ n \in 0..n
      /\ early \in Seq(Nat) /\ Len(early) = m
  BY <1>1 DEF times
<1>3. m \in 1..Len(times) - 1 /\ times[m] < times[m + 1]
  BY DEF times
<1>4. PICK r : Finds(r, times, kind)
  BY <1>1, WavesAreFound
<1>. HIDE DEF early, n
<1>5. PICK q : Finds(q, early, kind)
  BY <1>2, WavesAreFound
<1>6. q[m] = r[m]
  BY <1>1, <1>3, <1>4, <1>5, SameStarts DEF early
<1>7. /\ WaveStarts(times, kind) = r[n] /\ WaveStarts(early, kind) = r[m]
      /\ r[n] \in Seq(Nat) /\ r[m] \in Seq(Nat)
  BY <1>2, <1>4, <1>5, <1>6 DEF Finds, n
<1>8. Longer(r[n], r[m], m)
  BY <1>1, <1>2, <1>4, StartsAreAdded DEF n
<1>9. FoundWell(r[m], m, times, kind)
  BY <1>1, <1>2, <1>4, FoundAsFar DEF n
<1>. DEFINE long == r[n]
            short == r[m]
<1>10. Len(short) \in Nat /\ Len(long) \in Nat /\ DOMAIN long = 1..Len(long)
  BY <1>7
<1>11. IsPrefix(short, long)
  <2>1. Len(short) <= Len(long)
    BY <1>8 DEF Longer
  <2>2. \A w \in 1..Len(short) : short[w] = long[w]
    BY <1>8, <1>10, <2>1 DEF Longer
  <2>. HIDE DEF long, short
  <2>3. SubSeq(short, 1, Len(short)) = SubSeq(long, 1, Len(short))
    BY <1>7, <1>10, <2>1, <2>2 DEF long, short
  <2>. QED
    BY <2>1, <2>3 DEF IsPrefix
<1>12. ASSUME NEW w \in DOMAIN long PROVE long[w] <= m <=> w <= Len(short)
  <2>1. w \in 1..Len(long) /\ w \in Nat /\ w >= 1 /\ long[w] \in Nat
    BY <1>7, <1>10
  <2>2. CASE w <= Len(short)
    <3>1. w \in 1..Len(short) /\ long[w] = short[w]
      BY <1>8, <1>10, <2>1, <2>2 DEF Longer
    <3>2. short[w] <= m
      <4>1. short[1] = 1 /\ (w >= 2 => short[w] <= m)
        BY <1>9, <3>1 DEF FoundWell
      <4>2. w = 1 \/ w >= 2
        BY <2>1
      <4>. QED
        BY <1>2, <4>1, <4>2
    <3>. QED
      BY <2>2, <3>1, <3>2
  <2>3. CASE ~(w <= Len(short))
    BY <1>2, <1>8, <2>1, <2>3 DEF Longer
  <2>. QED
    BY <2>2, <2>3
<1>. QED
  BY <1>7, <1>11, <1>12 DEF Stay, early, times, kind

LEMMA WavesStand ==
  ASSUME NEW form, IsCourse(form), NEW w \in 2..Len(WaveStarts(form.times, form.kind))
  PROVE  Stand(form, w)
<1>. DEFINE times == form.times
            kind == form.kind
            n == Len(times)
            starts == WaveStarts(times, kind)
<1>1. times \in Seq(Nat) /\ Sorted(times) /\ kind.silence \in Nat \ {0}
  BY CourseFields
<1>. HIDE DEF times, kind
<1>2. PICK r : Finds(r, times, kind)
  BY <1>1, WavesAreFound
<1>3. n \in Nat /\ n \in 0..n /\ starts = r[n]
  BY <1>1, <1>2 DEF Finds
<1>4. FoundWell(starts, n, times, kind)
  BY <1>1, <1>2, <1>3, FoundAsFar
<1>5. w \in 2..Len(starts) /\ starts \in Seq(Nat)
  BY <1>4 DEF FoundWell, times, kind
<1>. HIDE DEF starts, n
<1>6. /\ starts[w] >= 1 /\ starts[w] <= n /\ starts[w - 1] >= 1 /\ starts[w - 1] < starts[w]
      /\ starts[w] \in Nat /\ starts[w - 1] \in Nat
      /\ times[starts[w]] - times[starts[w - 1]] >= kind.silence * Hour
      /\ times[starts[w] - 1] < times[starts[w]]
  <2>1. w \in 1..Len(starts) /\ w - 1 \in 1..Len(starts) /\ w >= 2
    BY <1>5
  <2>2. starts[w] \in Nat /\ starts[w - 1] \in Nat
    BY <1>5, <2>1
  <2>. QED
    BY <1>4, <1>5, <2>1, <2>2 DEF FoundWell
<1>7. Before(times, times[starts[w]]) = starts[w] - 1
  <2>1. starts[w] \in 2..n
    BY <1>3, <1>6
  <2>. QED
    BY <1>1, <1>6, <2>1, BeforeOfLater DEF n
<1>8. Changepoints(times, kind)[w - 1].index = starts[w] - 1
  <2>1. w - 1 \in DOMAIN Tail(starts) /\ (w - 1) + 1 = w
    BY <1>5
  <2>. QED
    BY <1>7, <2>1 DEF Changepoints, starts
<1>. QED
  BY <1>6, <1>8 DEF Stand, starts, times, kind

LEMMA WavesDoStay ==
  ASSUME NEW form, IsCourse(form)
  PROVE  WavesStay(form)
<1>1. \A m \in 1..Len(form.times) - 1 : form.times[m] < form.times[m + 1] => Stay(form, m)
  BY EarlierWavesStay
<1>2. \A w \in 2..Len(WaveStarts(form.times, form.kind)) : Stand(form, w)
  BY WavesStand
<1>. QED
  BY <1>1, <1>2 DEF WavesStay, Stay, Stand

-----------------------------------------------------------------------------
(* The forecast that is drawn.                                              *)

\* A set of whole numbers with a bound has a largest and a smallest one.
LEMMA Largest ==
  ASSUME NEW S \in SUBSET Int, S # {}, NEW b \in Int, \A x \in S : x <= b
  PROVE  Max(S) \in S /\ \A x \in S : x <= Max(S)
<1>. DEFINE T == {m \in Nat : b - m \in S}
<1>0. \A x \in S : b - x \in Nat /\ b - (b - x) = x
  OBVIOUS
<1>1. T # {}
  <2>1. PICK x \in S : TRUE
    OBVIOUS
  <2>2. b - x \in T
    BY <1>0, <2>1
  <2>. QED
    BY <2>2
<1>2. PICK m \in T : \A k \in T : m <= k
  BY <1>1, FirstPlace
<1>3. ASSUME NEW x \in S PROVE x <= b - m
  <2>1. b - x \in T /\ m \in Nat /\ x \in Int
    BY <1>0
  <2>2. m <= b - x
    BY <1>2, <2>1
  <2>. QED
    BY <2>1, <2>2
<1>4. b - m \in S /\ \A x \in S : b - m >= x
  BY <1>2, <1>3
<1>. QED
  BY <1>4 DEF Max

LEMMA Smallest ==
  ASSUME NEW S \in SUBSET Int, S # {}, NEW b \in Int, \A x \in S : b <= x
  PROVE  Min(S) \in S /\ \A x \in S : Min(S) <= x
<1>. DEFINE T == {m \in Nat : b + m \in S}
<1>0. \A x \in S : x - b \in Nat /\ b + (x - b) = x
  OBVIOUS
<1>1. T # {}
  <2>1. PICK x \in S : TRUE
    OBVIOUS
  <2>2. x - b \in T
    BY <1>0, <2>1
  <2>. QED
    BY <2>2
<1>2. PICK m \in T : \A k \in T : m <= k
  BY <1>1, FirstPlace
<1>3. ASSUME NEW x \in S PROVE b + m <= x
  <2>1. x - b \in T /\ m \in Nat /\ x \in Int
    BY <1>0
  <2>2. m <= x - b
    BY <1>2, <2>1
  <2>. QED
    BY <2>1, <2>2
<1>4. b + m \in S /\ \A x \in S : b + m <= x
  BY <1>2, <1>3
<1>. QED
  BY <1>4 DEF Min

LEMMA LargerOf ==
  ASSUME NEW a \in Int, NEW b \in Int
  PROVE  /\ Larger(a, b) \in Int /\ Larger(a, b) = IF a <= b THEN b ELSE a
         /\ Smaller(a, b) \in Int /\ Smaller(a, b) = IF a <= b THEN a ELSE b
<1>. DEFINE S == {a, b}
<1>1. S \in SUBSET Int /\ S # {}
  OBVIOUS
<1>2. /\ \A x \in S : x <= (IF a <= b THEN b ELSE a)
      /\ \A x \in S : (IF a <= b THEN a ELSE b) <= x
  OBVIOUS
<1>3. (IF a <= b THEN b ELSE a) \in Int /\ (IF a <= b THEN a ELSE b) \in Int
  OBVIOUS
<1>. HIDE DEF S
<1>4. Max(S) \in S /\ \A x \in S : x <= Max(S)
  BY <1>1, <1>2, <1>3, Largest
<1>5. Min(S) \in S /\ \A x \in S : Min(S) <= x
  BY <1>1, <1>2, <1>3, Smallest
<1>. QED
  BY <1>4, <1>5 DEF S, Larger, Smaller

-----------------------------------------------------------------------------
(* The fit that is taken.                                                   *)

FittedCurves == [converges : BOOLEAN, aicc : Int, level : Int, slope : Int, half : Nat, wellPosed : BOOLEAN]

\* A product with a larger factor is larger.
LEMMA ScaledUp ==
  ASSUME NEW a \in Int, NEW b \in Int, NEW c \in Nat, a <= b
  PROVE  a * c <= b * c
<1>1. (b - a) * c >= 0
  OBVIOUS
<1>2. b * c = a * c + (b - a) * c
  OBVIOUS
<1>. QED
  BY <1>1, <1>2

\* The points of a curve, no less than what was observed, never fall.
LEMMA PointsRise ==
  ASSUME NEW fit \in FittedCurves, NEW n \in Nat, NEW k \in Nat
  PROVE  /\ Point(fit, n, k) \in Int /\ n <= Point(fit, n, k)
         /\ \A j \in 0..k : Point(fit, n, j) <= Point(fit, n, k)
<1>0. fit.level \in Int /\ fit.slope \in Int
  BY DEF FittedCurves
<1>. DEFINE Value(j) == n + fit.level + fit.slope * j
            S(m) == {n} \cup {Value(j) : j \in 1..m}
            Bounds(b, m) == b \in Int /\ \A x \in S(m) : x <= b
            B == {m \in Nat : \E b : Bounds(b, m)}
<1>1. \A j \in Nat : Value(j) \in Int
  BY <1>0
<1>. HIDE DEF Value
<1>2. \A m \in Nat : m \in B
  <2>1. 0 \in B
    <3>1. Bounds(n, 0)
      OBVIOUS
    <3>. QED
      BY <3>1
  <2>2. ASSUME NEW m \in Nat, m \in B PROVE m + 1 \in B
    <3>1. PICK b : Bounds(b, m)
      BY <2>2
    <3>2. S(m + 1) = S(m) \cup {Value(m + 1)}
      <4>1. 1..(m + 1) = (1..m) \cup {m + 1}
        OBVIOUS
      <4>. QED
        BY <4>1
    <3>3. Value(m + 1) \in Int /\ S(m) \in SUBSET Int
      BY <1>1
    <3>4. PICK c \in Int : b <= c /\ Value(m + 1) <= c
      BY <3>1, <3>3
    <3>5. Bounds(c, m + 1)
      BY <3>1, <3>2, <3>3, <3>4
    <3>. QED
      BY <3>5
  <2>. HIDE DEF B
  <2>. QED
    BY <2>1, <2>2, Induction
<1>3. ASSUME NEW m \in Nat PROVE Max(S(m)) \in S(m) /\ Max(S(m)) \in Int /\ \A x \in S(m) : x <= Max(S(m))
  <2>1. S(m) \in SUBSET Int /\ S(m) # {}
    BY <1>1
  <2>2. PICK b : Bounds(b, m)
    BY <1>2
  <2>3. b \in Int /\ \A x \in S(m) : x <= b
    BY <2>2
  <2>. HIDE DEF S
  <2>. QED
    BY <2>1, <2>3, Largest
<1>4. \A m \in Nat : Point(fit, n, m) = Max(S(m))
  BY DEF Point, Value
<1>5. ASSUME NEW j \in 0..k PROVE S(j) \subseteq S(k) /\ j \in Nat
  <2>1. 1..j \subseteq 1..k
    OBVIOUS
  <2>. QED
    BY <2>1
<1>6. n \in S(k)
  OBVIOUS
<1>. HIDE DEF S
<1>. QED
  BY <1>3, <1>4, <1>5, <1>6

\* The band: its half is no wider than the point, of five answers or more.
LEMMA HalfIsSane ==
  ASSUME NEW fit \in FittedCurves, NEW n \in Nat, n >= 5, NEW k \in Nat, NEW factor \in Nat
  PROVE  /\ HalfWidth(fit, n, k, factor) \in Int /\ 0 <= HalfWidth(fit, n, k, factor)
         /\ HalfWidth(fit, n, k, factor) <= Point(fit, n, k)
<1>. DEFINE point == Point(fit, n, k)
            half == factor * fit.half
            cap == Smaller(2 * point, MaxWidth(factor))
            wide == Larger(cap, 10) \div 2
<1>1. point \in Int /\ n <= point
  BY PointsRise
<1>2. half \in Nat
  <2>1. fit.half \in Nat
    BY DEF FittedCurves
  <2>. QED
    BY <2>1
<1>. HIDE DEF point, half
<1>3. cap \in Int /\ cap <= 2 * point
  <2>1. MaxWidth(factor) \in Int
    BY SMT DEF MaxWidth, DELTA_CI_MAX_ABSOLUTE
  <2>2. 2 * point \in Int
    BY <1>1
  <2>. DEFINE twice == 2 * point
              most == MaxWidth(factor)
  <2>. HIDE DEF twice, most
  <2>3. Smaller(twice, most) \in Int /\ Smaller(twice, most) = IF twice <= most THEN twice ELSE most
    BY <2>1, <2>2, LargerOf DEF twice, most
  <2>4. Smaller(twice, most) \in Int /\ Smaller(twice, most) <= twice
    BY <2>1, <2>2, <2>3 DEF twice, most
  <2>. QED
    BY <2>4 DEF twice, most
<1>. HIDE DEF cap
<1>4. wide \in Int /\ 0 <= wide /\ wide <= point
  <2>1. Larger(cap, 10) \in Int /\ Larger(cap, 10) = IF cap <= 10 THEN 10 ELSE cap
    <3>. DEFINE ten == 10
    <3>1. ten \in Int
      OBVIOUS
    <3>. HIDE DEF ten
    <3>2. Larger(cap, ten) \in Int /\ Larger(cap, ten) = IF cap <= ten THEN ten ELSE cap
      BY <1>3, <3>1, LargerOf
    <3>. QED
      BY <3>2 DEF ten
  <2>. QED
    BY <1>1, <1>3, <2>1
<1>. HIDE DEF wide
<1>5. Smaller(half, wide) \in Int /\ 0 <= Smaller(half, wide) /\ Smaller(half, wide) <= point
  <2>1. half \in Int /\ wide \in Int
    BY <1>2, <1>4
  <2>2. Smaller(half, wide) \in Int /\ Smaller(half, wide) = IF half <= wide THEN half ELSE wide
    BY <2>1, LargerOf
  <2>. QED
    BY <1>1, <1>2, <1>4, <2>2
<1>6. HalfWidth(fit, n, k, factor) = IF fit.wellPosed THEN Smaller(half, wide) ELSE 0
  BY DEF HalfWidth, half, wide, cap, point
<1>. QED
  BY <1>1, <1>5, <1>6 DEF point

\* A curve goes on from the count m at the date t, and no further than far: it is
\* later and later and never lower, inside a band no wider than itself.
Advances(curve, m, t, far) ==
  /\ \E len \in Nat : DOMAIN curve = 1..len /\ curve = [k \in 1..len |-> curve[k]]
  /\ \A k \in DOMAIN curve :
       /\ curve[k].at \in Int /\ curve[k].point \in Int /\ curve[k].lower \in Int /\ curve[k].upper \in Int
       /\ t < curve[k].at /\ curve[k].at <= t + far
       /\ m <= curve[k].lower /\ curve[k].lower <= curve[k].point /\ curve[k].point <= curve[k].upper
       /\ curve[k].upper - curve[k].point <= curve[k].point
  /\ \A j, k \in DOMAIN curve : j < k => curve[j].at < curve[k].at /\ curve[j].point <= curve[k].point

\* A grid of dates leads on from the date t.
LeadsOn(grid, t, far) ==
  /\ \E len \in Nat : DOMAIN grid = 1..len
  /\ \A k \in DOMAIN grid : grid[k] \in Int /\ t < grid[k] /\ grid[k] <= t + far
  /\ \A j, k \in DOMAIN grid : j < k => grid[j] < grid[k]

LEMMA CurveGoesOn ==
  ASSUME NEW fit \in FittedCurves, NEW n \in Nat, n >= 5, NEW factor \in Nat, NEW before \in Nat,
         NEW grid, NEW t \in Int, NEW far \in Int, LeadsOn(grid, t, far)
  PROVE  Advances(Curve(fit, n, grid, factor, before), n + before, t, far)
<1>. DEFINE curve == Curve(fit, n, grid, factor, before)
            m == n + before
<1>1. PICK len \in Nat : DOMAIN grid = 1..len
  BY DEF LeadsOn
<1>2. DOMAIN curve = 1..len /\ curve = [k \in 1..len |-> curve[k]]
  BY <1>1 DEF Curve
<1>3. ASSUME NEW k \in 1..len
      PROVE  /\ curve[k].at = grid[k] /\ curve[k].at \in Int /\ curve[k].point = Point(fit, n, k) + before
             /\ curve[k].point \in Int /\ curve[k].lower \in Int /\ curve[k].upper \in Int
             /\ m <= curve[k].lower /\ curve[k].lower <= curve[k].point /\ curve[k].point <= curve[k].upper
             /\ curve[k].upper - curve[k].point <= curve[k].point
  <2>. DEFINE point == Point(fit, n, k)
              half == HalfWidth(fit, n, k, factor)
              low == Larger(point - half, n)
  <2>1. k \in Nat /\ grid[k] \in Int
    BY <1>1 DEF LeadsOn
  <2>2. point \in Int /\ n <= point
    BY <2>1, PointsRise
  <2>3. half \in Int /\ 0 <= half /\ half <= point
    BY <2>1, HalfIsSane
  <2>4. curve[k] = [at |-> grid[k], point |-> point + before, lower |-> low + before,
                    upper |-> point + half + before]
    BY <1>1 DEF Curve
  <2>. HIDE DEF point, half, curve
  <2>5. low \in Int /\ n <= low /\ low <= point
    <3>1. point - half \in Int
      BY <2>2, <2>3
    <3>2. low \in Int /\ low = IF point - half <= n THEN n ELSE point - half
      <4>. DEFINE less == point - half
      <4>1. n \in Int /\ less \in Int
        BY <3>1
      <4>. HIDE DEF less
      <4>2. Larger(less, n) \in Int /\ Larger(less, n) = IF less <= n THEN n ELSE less
        BY <4>1, LargerOf
      <4>. QED
        BY <4>2 DEF less
    <3>. QED
      BY <2>2, <2>3, <3>2
  <2>. HIDE DEF low
  <2>6. /\ curve[k].at = grid[k] /\ curve[k].point = point + before /\ curve[k].lower = low + before
        /\ curve[k].upper = point + half + before
    BY <2>4
  <2>7. curve[k].at \in Int /\ curve[k].point \in Int /\ curve[k].lower \in Int /\ curve[k].upper \in Int
    BY <2>1, <2>2, <2>3, <2>5, <2>6
  <2>8. /\ m <= curve[k].lower /\ curve[k].lower <= curve[k].point /\ curve[k].point <= curve[k].upper
        /\ curve[k].upper - curve[k].point <= curve[k].point
    BY <2>2, <2>3, <2>5, <2>6
  <2>. QED
    BY <2>6, <2>7, <2>8 DEF point
<1>4. ASSUME NEW j \in 1..len, NEW k \in 1..len, j < k
      PROVE  curve[j].at < curve[k].at /\ curve[j].point <= curve[k].point
  <2>1. grid[j] < grid[k]
    BY <1>1, <1>4 DEF LeadsOn
  <2>2. k \in Nat /\ j \in 0..k
    BY <1>4
  <2>3. Point(fit, n, j) <= Point(fit, n, k) /\ Point(fit, n, k) \in Int
    BY <2>2, PointsRise
  <2>4. Point(fit, n, j) \in Int
    <3>1. j \in Nat
      OBVIOUS
    <3>. QED
      BY <3>1, PointsRise
  <2>. HIDE DEF curve
  <2>. QED
    BY <1>3, <2>1, <2>3, <2>4
<1>5. \A k \in 1..len : t < grid[k] /\ grid[k] <= t + far
  BY <1>1 DEF LeadsOn
<1>. HIDE DEF curve, m
<1>6. Advances(curve, m, t, far)
  BY <1>2, <1>3, <1>4, <1>5 DEF Advances
<1>. QED
  BY <1>6 DEF curve, m

\* A wider reach allows what a narrower one does; and the numbering may change.
LEMMA GoesOnShifted ==
  ASSUME NEW curve, NEW m \in Int, NEW t \in Int, NEW far \in Int, Advances(curve, m, t, far),
         NEW more \in Int, far <= more, NEW offset \in Nat,
         NEW shifted, shifted = [k \in DOMAIN curve |->
                        [at |-> curve[k].at, point |-> curve[k].point + offset,
                         lower |-> curve[k].lower + offset, upper |-> curve[k].upper + offset]]
  PROVE  Advances(shifted, m + offset, t, more)
<1>1. PICK len \in Nat : DOMAIN curve = 1..len
  BY DEF Advances
<1>2. DOMAIN shifted = 1..len /\ shifted = [k \in 1..len |-> shifted[k]]
  BY <1>1
<1>3. ASSUME NEW k \in 1..len
      PROVE  /\ shifted[k].at = curve[k].at /\ shifted[k].point = curve[k].point + offset
             /\ shifted[k].lower = curve[k].lower + offset /\ shifted[k].upper = curve[k].upper + offset
  BY <1>1
<1>4. ASSUME NEW k \in 1..len
      PROVE  /\ shifted[k].at \in Int /\ shifted[k].point \in Int /\ shifted[k].lower \in Int
             /\ shifted[k].upper \in Int
             /\ t < shifted[k].at /\ shifted[k].at <= t + more
             /\ m + offset <= shifted[k].lower /\ shifted[k].lower <= shifted[k].point
             /\ shifted[k].point <= shifted[k].upper
             /\ shifted[k].upper - shifted[k].point <= shifted[k].point
  <2>1. /\ curve[k].at \in Int /\ curve[k].point \in Int /\ curve[k].lower \in Int /\ curve[k].upper \in Int
        /\ t < curve[k].at /\ curve[k].at <= t + far
        /\ m <= curve[k].lower /\ curve[k].lower <= curve[k].point /\ curve[k].point <= curve[k].upper
        /\ curve[k].upper - curve[k].point <= curve[k].point
    BY <1>1 DEF Advances
  <2>. QED
    BY <1>3, <2>1
<1>5. ASSUME NEW j \in 1..len, NEW k \in 1..len, j < k
      PROVE  shifted[j].at < shifted[k].at /\ shifted[j].point <= shifted[k].point
  <2>1. curve[j].at < curve[k].at /\ curve[j].point <= curve[k].point
    BY <1>1, <1>5 DEF Advances
  <2>2. curve[j].point \in Int /\ curve[k].point \in Int
    BY <1>1 DEF Advances
  <2>. QED
    BY <1>3, <2>1, <2>2
<1>. QED
  BY <1>2, <1>4, <1>5 DEF Advances

Picked == {<<>>} \cup {<<f>> : f \in FittedCurves}

LEMMA BestIsOfFits ==
  ASSUME NEW fits \in [1..3 -> FittedCurves], NEW n \in Nat
  PROVE  BestFit(fits, n) \in Picked
<1>. DEFINE seq == IF n < 10 THEN <<fits[3]>> ELSE fits
            Better(best, f) == IF f.converges /\ (best = <<>> \/ f.aicc < best[1].aicc) THEN <<f>> ELSE best
            Body(g) == [s \in SUBSET DOMAIN seq |->
                          IF s = {} THEN <<>> ELSE Better(g[s \ {Max(s)}], seq[Max(s)])]
            found == CHOOSE g : g = Body(g)
<1>1. PICK len \in Nat : DOMAIN seq = 1..len /\ \A i \in 1..len : seq[i] \in FittedCurves
  <2>1. CASE n < 10
    <3>1. seq = <<fits[3]>> /\ fits[3] \in FittedCurves
      BY <2>1
    <3>. HIDE DEF seq
    <3>2. DOMAIN seq = 1..1 /\ \A i \in 1..1 : seq[i] \in FittedCurves
      BY <3>1
    <3>. QED
      BY <3>2
  <2>2. CASE ~(n < 10)
    <3>1. seq = fits
      BY <2>2
    <3>. HIDE DEF seq
    <3>2. DOMAIN seq = 1..3 /\ \A i \in 1..3 : seq[i] \in FittedCurves
      BY <3>1
    <3>. QED
      BY <3>2
  <2>. QED
    BY <2>1, <2>2
<1>2. \A best \in Picked, f \in FittedCurves : Better(best, f) \in Picked
  BY DEF Picked
<1>3. BestFit(fits, n) = found[DOMAIN seq]
  BY DEF BestFit, FoldLeft, MapThenFoldSet
<1>. HIDE DEF seq, Better
<1>4. \E g : g = Body(g)
  <2>. DEFINE Step == [i \in 1..len |-> [best \in Picked |-> Better(best, seq[i])]]
  <2>1. <<>> \in Picked /\ Step \in [1..len -> [Picked -> Picked]]
    BY <1>1, <1>2 DEF Picked
  <2>2. PICK it : FoldsTo(it, Picked, <<>>, len, Step)
    <3>. HIDE DEF Step
    <3>. QED
      BY <2>1, FoldIsThere
  <2>3. ASSUME NEW s \in SUBSET (1..len), s # {} PROVE it[s] = Better(it[s \ {Max(s)}], seq[Max(s)])
    <3>1. Max(s) \in 1..len /\ it[s \ {Max(s)}] \in Picked
      BY <2>2, <2>3, LastPlace DEF FoldsTo
    <3>. QED
      BY <2>2, <2>3, <3>1 DEF FoldsTo
  <2>4. it = Body(it)
    BY <1>1, <2>2, <2>3 DEF FoldsTo
  <2>. QED
    BY <2>4
<1>5. found = Body(found)
  BY <1>4
<1>. HIDE DEF found
<1>6. \A s \in SUBSET (1..len) : s # {} => found[s] = Better(found[s \ {Max(s)}], seq[Max(s)])
  BY <1>1, <1>5
<1>. DEFINE S == {m \in Nat : m <= len => found[1..m] \in Picked}
<1>7. 0 \in S
  <2>1. 1..0 = {} /\ {} \in SUBSET DOMAIN seq
    OBVIOUS
  <2>2. found[{}] = <<>>
    BY <1>5, <2>1
  <2>. QED
    BY <2>1, <2>2 DEF Picked
<1>8. ASSUME NEW m \in Nat, m \in S PROVE m + 1 \in S
  <2>. SUFFICES ASSUME m + 1 <= len PROVE found[1..(m + 1)] \in Picked
    OBVIOUS
  <2>1. m + 1 \in Nat \ {0} /\ 1..(m + 1) \in SUBSET (1..len) /\ m + 1 \in 1..(m + 1) /\ m + 1 \in 1..len
    OBVIOUS
  <2>2. 1..(m + 1) # {} /\ Max(1..(m + 1)) = m + 1 /\ (1..(m + 1)) \ {m + 1} = 1..m
    <3>1. (m + 1) - 1 = m
      OBVIOUS
    <3>. QED
      BY <2>1, <3>1, LastOfAll
  <2>3. found[1..(m + 1)] = Better(found[1..m], seq[m + 1])
    BY <1>6, <2>1, <2>2
  <2>4. found[1..m] \in Picked
    BY <1>8
  <2>. QED
    BY <1>1, <1>2, <2>1, <2>3, <2>4
<1>9. len \in S
  <2>. HIDE DEF S
  <2>. QED
    BY <1>7, <1>8, Induction
<1>. QED
  BY <1>1, <1>3, <1>9

-----------------------------------------------------------------------------
(* The dates that are forecast.                                             *)

LEMMA FutureLeadsOn ==
  ASSUME NEW last \in Nat, NEW until \in Int, NEW subDaily \in BOOLEAN,
         NEW reach \in Int, until - last <= reach, Hour <= reach
  PROVE  LeadsOn(FutureGrid(last, until, subDaily), GRID_POINTS * last,
                 GRID_POINTS * (reach + IF subDaily THEN Hour ELSE Day))
<1>. DEFINE total == Larger(until - last, Hour)
            grid == FutureGrid(last, until, subDaily)
<1>1. total \in Int /\ 2 <= total /\ total <= reach
  <2>. DEFINE rest == until - last
              hour == 2
  <2>1. rest \in Int /\ hour \in Int /\ rest <= reach /\ 2 <= reach
    BY DEF Hour
  <2>. HIDE DEF rest, hour
  <2>2. Larger(rest, hour) \in Int /\ Larger(rest, hour) = IF rest <= hour THEN hour ELSE rest
    BY <2>1, LargerOf
  <2>. QED
    BY <2>1, <2>2 DEF rest, hour, Hour
<1>2. CASE subDaily
  <2>. DEFINE len == (total + 2 - 1) \div 2
  <2>1. grid = [k \in 1..len |-> 24 * (last + k * 2)]
    BY <1>2 DEF FutureGrid, CeilDiv, Hour, GRID_POINTS
  <2>. HIDE DEF total
  <2>2. len \in Nat /\ 2 * len <= total + 1
    BY <1>1
  <2>. HIDE DEF len, grid
  <2>3. DOMAIN grid = 1..len
    BY <2>1
  <2>4. ASSUME NEW k \in 1..len
        PROVE  grid[k] = 24 * (last + k * 2) /\ grid[k] \in Int /\ 24 * last < grid[k]
               /\ grid[k] <= 24 * last + 24 * (reach + 2)
    BY <1>1, <2>1, <2>2
  <2>5. ASSUME NEW j \in 1..len, NEW k \in 1..len, j < k PROVE grid[j] < grid[k]
    <3>1. grid[j] = 24 * (last + j * 2) /\ grid[k] = 24 * (last + k * 2)
      BY <2>1
    <3>. QED
      BY <2>2, <2>5, <3>1
  <2>. QED
    BY <1>2, <2>2, <2>3, <2>4, <2>5 DEF LeadsOn, grid, GRID_POINTS, Hour
<1>3. CASE ~subDaily
  <2>. DEFINE len == (total + 48 - 1) \div 48
              midnight == last - (last % 48)
  <2>1. grid = [k \in 1..len |-> 24 * (midnight + k * 48)]
    BY <1>3 DEF FutureGrid, CeilDiv, Hour, Day, GRID_POINTS
  <2>. HIDE DEF total
  <2>2. len \in Nat /\ 48 * len <= total + 47
    BY <1>1
  <2>3. midnight \in Int /\ midnight <= last /\ last < midnight + 48
    OBVIOUS
  <2>. HIDE DEF len, grid, midnight
  <2>4. DOMAIN grid = 1..len
    BY <2>1
  <2>5. ASSUME NEW k \in 1..len
        PROVE  grid[k] = 24 * (midnight + k * 48) /\ grid[k] \in Int /\ 24 * last < grid[k]
               /\ grid[k] <= 24 * last + 24 * (reach + 48)
    BY <1>1, <2>1, <2>2, <2>3
  <2>6. ASSUME NEW j \in 1..len, NEW k \in 1..len, j < k PROVE grid[j] < grid[k]
    <3>1. grid[j] = 24 * (midnight + j * 48) /\ grid[k] = 24 * (midnight + k * 48)
      BY <2>1
    <3>. QED
      BY <2>2, <2>3, <2>6, <3>1
  <2>. QED
    BY <1>3, <2>2, <2>4, <2>5, <2>6 DEF LeadsOn, grid, GRID_POINTS, Hour, Day
<1>. QED
  BY <1>2, <1>3

LEMMA WaveLeadsOn ==
  ASSUME NEW t \in Int, NEW ahead \in Nat \ {0}
  PROVE  LeadsOn([k \in 1..GRID_POINTS |-> GRID_POINTS * t + k * ahead], GRID_POINTS * t, GRID_POINTS * ahead)
<1>. DEFINE grid == [k \in 1..24 |-> 24 * t + k * ahead]
<1>1. ASSUME NEW k \in 1..24 PROVE k * ahead \in Int /\ 0 < k * ahead /\ k * ahead <= 24 * ahead
  <2>1. k * ahead <= 24 * ahead /\ 1 * ahead <= k * ahead
    BY ScaledUp
  <2>. QED
    BY <2>1
<1>2. ASSUME NEW j \in 1..24, NEW k \in 1..24, j < k PROVE j * ahead < k * ahead
  <2>1. (j + 1) * ahead <= k * ahead
    BY <1>2, ScaledUp
  <2>2. (j + 1) * ahead = j * ahead + ahead
    OBVIOUS
  <2>. QED
    BY <2>1, <2>2
<1>3. DOMAIN grid = 1..24
  OBVIOUS
<1>4. ASSUME NEW k \in 1..24 PROVE grid[k] \in Int /\ 24 * t < grid[k] /\ grid[k] <= 24 * t + 24 * ahead
  BY <1>1
<1>5. ASSUME NEW j \in 1..24, NEW k \in 1..24, j < k PROVE grid[j] < grid[k]
  <2>1. j * ahead \in Int /\ k * ahead \in Int /\ j * ahead < k * ahead
    BY <1>1, <1>2, <1>5
  <2>. QED
    BY <2>1
<1>. HIDE DEF grid
<1>6. LeadsOn(grid, 24 * t, 24 * ahead)
  BY <1>3, <1>4, <1>5 DEF LeadsOn
<1>. QED
  BY <1>6 DEF grid, GRID_POINTS

Far(first, last) ==
  LET span == Larger(last - first, Hour) IN
  GRID_POINTS * (3 * span + IF span < 2 * Day THEN Hour ELSE Day)

LEMMA SpanOf ==
  ASSUME NEW first \in Nat, NEW last \in Nat, first <= last
  PROVE  LET span == Larger(last - first, Hour) IN
         /\ span \in Nat /\ 2 <= span /\ last - first <= span
         /\ Far(first, last) = 24 * (3 * span + IF span < 96 THEN 2 ELSE 48)
<1>. DEFINE rest == last - first
            hour == 2
<1>1. rest \in Int /\ hour \in Int /\ 0 <= rest
  OBVIOUS
<1>. HIDE DEF rest
<1>2. Larger(rest, hour) \in Int /\ Larger(rest, hour) = IF rest <= hour THEN hour ELSE rest
  <2>. HIDE DEF hour
  <2>. QED
    BY <1>1, LargerOf
<1>3. Larger(rest, hour) \in Nat /\ 2 <= Larger(rest, hour) /\ rest <= Larger(rest, hour)
  BY <1>1, <1>2
<1>4. Far(first, last) = 24 * (3 * Larger(rest, hour) + IF Larger(rest, hour) < 96 THEN 2 ELSE 48)
  <2>1. 2 * (24 * 2) = 96 /\ 24 * 2 = 48
    OBVIOUS
  <2>. HIDE DEF hour
  <2>. QED
    BY <2>1 DEF Far, Hour, Day, GRID_POINTS, rest, hour
<1>. QED
  BY <1>3, <1>4 DEF Hour, rest, hour

LEMMA AllAnswersGoOn ==
  ASSUME NEW times \in Seq(Nat), Sorted(times), NEW requested \in Int, NEW fits \in [1..3 -> FittedCurves],
         ForecastResponses(times, requested, fits) # <<>>
  PROVE  Advances(ForecastResponses(times, requested, fits), Len(times),
                GRID_POINTS * Last(times), Far(times[1], Last(times)))
<1>. DEFINE n == Len(times)
            best == BestFit(fits, n)
            first == times[1]
            last == Last(times)
            span == Larger(last - first, Hour)
            soon == Smaller(requested, last + 3 * span)
            until == Larger(soon, last + Hour)
            subDaily == span < 2 * Day
            grid == FutureGrid(last, until, subDaily)
<1>1. n \in Nat /\ n >= 5 /\ best # <<>>
      /\ ForecastResponses(times, requested, fits) = Curve(best[1], n, grid, 1, 0)
  BY DEF ForecastResponses
<1>2. best[1] \in FittedCurves
  <2>1. best \in Picked
    BY <1>1, BestIsOfFits
  <2>. HIDE DEF best
  <2>. QED
    BY <1>1, <2>1 DEF Picked
<1>3. first \in Nat /\ last \in Nat /\ first <= last
  <2>1. 1 \in DOMAIN times /\ n \in DOMAIN times /\ 1 <= n
    BY <1>1
  <2>. QED
    BY <2>1 DEF Sorted, Last
<1>. HIDE DEF first, last, n, best
<1>4. /\ span \in Nat /\ 2 <= span
      /\ Far(first, last) = 24 * (3 * span + IF span < 96 THEN 2 ELSE 48)
  BY <1>3, SpanOf
<1>. HIDE DEF span
<1>5. until \in Int /\ until - last <= 3 * span
  <2>. DEFINE most == last + 3 * span
              least == last + Hour
  <2>1. most \in Int /\ least \in Int /\ least <= most
    BY <1>3, <1>4 DEF Hour
  <2>. HIDE DEF most, least
  <2>2. Smaller(requested, most) \in Int /\ Smaller(requested, most) <= most
    <3>1. Smaller(requested, most) = IF requested <= most THEN requested ELSE most
      BY <2>1, LargerOf
    <3>. QED
      BY <2>1, <3>1
  <2>. DEFINE cut == Smaller(requested, most)
  <2>. HIDE DEF cut
  <2>3. cut \in Int /\ cut <= most
    BY <2>2 DEF cut
  <2>4. Larger(cut, least) \in Int /\ Larger(cut, least) = IF cut <= least THEN least ELSE cut
    BY <2>1, <2>3, LargerOf
  <2>5. Larger(cut, least) \in Int /\ Larger(cut, least) <= most
    BY <2>1, <2>3, <2>4
  <2>. QED
    BY <1>3, <1>4, <2>5 DEF most, least, cut
<1>. DEFINE reach == 3 * span
<1>6. reach \in Int /\ Hour <= reach /\ subDaily \in BOOLEAN
  BY <1>4 DEF Hour
<1>. HIDE DEF until
<1>7. LeadsOn(grid, GRID_POINTS * last, GRID_POINTS * (reach + IF subDaily THEN Hour ELSE Day))
  <2>. HIDE DEF reach, subDaily
  <2>. QED
    BY <1>3, <1>5, <1>6, FutureLeadsOn DEF reach
<1>8. GRID_POINTS * (reach + IF subDaily THEN Hour ELSE Day) = Far(first, last)
      /\ GRID_POINTS * last \in Int /\ Far(first, last) \in Int
  BY <1>3, <1>4 DEF Hour, Day, GRID_POINTS
<1>. HIDE DEF grid, reach, subDaily
<1>9. Advances(Curve(best[1], n, grid, 1, 0), n + 0, GRID_POINTS * last, Far(first, last))
  BY <1>1, <1>2, <1>7, <1>8, CurveGoesOn
<1>10. n + 0 = n
  BY <1>1
<1>. QED
  BY <1>1, <1>9, <1>10 DEF n, first, last, grid, until, span, subDaily, best

\* What is not before an answer is the rest of the answers, it among them.
LEMMA RestOfTimes ==
  ASSUME NEW times \in Seq(Nat), NEW s \in DOMAIN times
  PROVE  LET c == Before(times, times[s])
             rest == From(times, times[s]) IN
         /\ c \in Nat /\ c < Len(times) /\ rest \in Seq(Nat) /\ Len(rest) = Len(times) - c
         /\ Last(rest) = Last(times)
<1>. DEFINE n == Len(times)
            E == {i \in DOMAIN times : times[i] < times[s]}
            c == Cardinality(E)
            rest == SubSeq(times, c + 1, n)
<1>1. n \in Nat /\ n >= 1 /\ s \in 1..n /\ s \notin E /\ E \subseteq 1..n
  OBVIOUS
<1>2. IsFiniteSet(1..n) /\ Cardinality(1..n) = n
  <2>1. 1 \in Int /\ n \in Int
    BY <1>1
  <2>2. IsFiniteSet(1..n) /\ Cardinality(1..n) = IF 1 > n THEN 0 ELSE n - 1 + 1
    BY <2>1, FS_Interval
  <2>. QED
    BY <1>1, <2>2
<1>. HIDE DEF E
<1>3. c \in Nat /\ c < n
  <2>1. E \subseteq 1..n /\ E # 1..n
    BY <1>1
  <2>2. IsFiniteSet(E) /\ Cardinality(E) <= Cardinality(1..n)
        /\ (Cardinality(E) = Cardinality(1..n) => E = 1..n)
    BY <1>2, <2>1, FS_Subset
  <2>3. Cardinality(E) \in Nat
    BY <2>2, FS_CardinalityType
  <2>. QED
    BY <1>1, <1>2, <2>1, <2>2, <2>3
<1>. HIDE DEF c
<1>4. rest \in Seq(Nat) /\ Len(rest) = n - c
  BY <1>1, <1>3
<1>5. rest[Len(rest)] = times[n]
  <2>1. \A i \in 1..(n - c) : rest[i] = times[c + i]
    BY <1>1, <1>3
  <2>2. n - c \in 1..(n - c) /\ c + (n - c) = n
    BY <1>1, <1>3
  <2>. HIDE DEF rest, n
  <2>. QED
    BY <1>4, <2>1, <2>2
<1>6. Before(times, times[s]) = c /\ From(times, times[s]) = rest
  BY DEF Before, From, c, E
<1>. HIDE DEF rest, n
<1>. QED
  BY <1>3, <1>4, <1>5, <1>6 DEF Last, n

LEMMA WaveGoesOn ==
  ASSUME NEW times \in Seq(Nat), Sorted(times), times # <<>>, NEW kind, kind.silence \in Nat \ {0},
         NEW requested \in Int, NEW fits \in [1..3 -> FittedCurves],
         ForecastCurrentWave(times, kind, requested, fits) # <<>>
  PROVE  Advances(ForecastCurrentWave(times, kind, requested, fits), Len(times),
                GRID_POINTS * Last(times), Far(times[1], Last(times)))
<1>. DEFINE n == Len(times)
            s == Last(WaveStarts(times, kind))
            start == times[s]
            wave == From(times, start)
            best == BestFit(fits, Len(wave))
            span == Last(wave) - start
            ahead == Larger(2 * span, Hour)
            grid == [k \in 1..GRID_POINTS |-> GRID_POINTS * (start + span) + k * ahead]
            c == Before(times, start)
<1>1. n \in Nat /\ n >= 1 /\ DOMAIN times = 1..n
  OBVIOUS
<1>2. s \in DOMAIN times
  <2>1. PICK r : Finds(r, times, kind)
    BY WavesAreFound
  <2>2. WaveStarts(times, kind) = r[n]
    BY <2>1 DEF Finds
  <2>3. n \in 0..n
    BY <1>1
  <2>4. FoundWell(WaveStarts(times, kind), n, times, kind)
    BY <2>1, <2>2, <2>3, FoundAsFar
  <2>5. s \in Nat /\ s >= 1 /\ (s <= n \/ s = 1)
    BY <1>1, <2>4, LastStart
  <2>. QED
    BY <1>1, <2>5
<1>. HIDE DEF s
<1>3. c \in Nat /\ c < n /\ wave \in Seq(Nat) /\ Len(wave) = n - c /\ Last(wave) = Last(times)
  BY <1>2, RestOfTimes
<1>4. CASE Len(wave) < 5
  <2>1. ForecastCurrentWave(times, kind, requested, fits) = ForecastResponses(times, requested, fits)
    BY <1>4 DEF ForecastCurrentWave, s
  <2>. QED
    BY <2>1, AllAnswersGoOn
<1>5. CASE ~(Len(wave) < 5)
  <2>1. best # <<>> /\ ForecastCurrentWave(times, kind, requested, fits) = Curve(best[1], Len(wave), grid, 6, c)
    BY <1>5 DEF ForecastCurrentWave, s
  <2>2. Len(wave) \in Nat /\ Len(wave) >= 5
    BY <1>3, <1>5
  <2>3. best[1] \in FittedCurves
    <3>1. best \in Picked
      BY <2>2, BestIsOfFits
    <3>. HIDE DEF best
    <3>. QED
      BY <2>1, <3>1 DEF Picked
  <2>. DEFINE first == times[1]
              last == Last(times)
  <2>4. first \in Nat /\ last \in Nat /\ start \in Nat /\ first <= start /\ start <= last
    <3>1. 1 \in DOMAIN times /\ n \in DOMAIN times /\ 1 <= s /\ s <= n
      BY <1>1, <1>2
    <3>. QED
      BY <1>2, <3>1 DEF Sorted, Last
  <2>5. span = last - start /\ start + span = last
    BY <1>3, <2>4
  <2>. HIDE DEF first, last, start, best, wave, c, n, span
  <2>6. ahead \in Nat \ {0} /\ (ahead = 2 \/ ahead = 2 * span)
    <3>. DEFINE twice == 2 * span
                hour == 2
    <3>1. twice \in Int /\ hour \in Int
      BY <2>4, <2>5
    <3>. HIDE DEF twice, hour
    <3>2. Larger(twice, hour) \in Int /\ Larger(twice, hour) = IF twice <= hour THEN hour ELSE twice
      BY <3>1, LargerOf
    <3>. QED
      BY <3>1, <3>2 DEF twice, hour, Hour
  <2>. HIDE DEF ahead
  <2>7. LeadsOn(grid, GRID_POINTS * last, GRID_POINTS * ahead)
    <3>1. last \in Int
      BY <2>4
    <3>2. grid = [k \in 1..GRID_POINTS |-> GRID_POINTS * last + k * ahead]
      BY <2>5
    <3>. QED
      BY <2>6, <3>1, <3>2, WaveLeadsOn
  <2>. HIDE DEF grid
  <2>8. GRID_POINTS * last \in Int /\ GRID_POINTS * ahead \in Int
    BY <2>4, <2>6 DEF GRID_POINTS
  <2>. DEFINE curve == Curve(best[1], Len(wave), grid, 6, c)
  <2>9. Advances(curve, Len(wave) + c, GRID_POINTS * last, GRID_POINTS * ahead)
    BY <1>3, <2>2, <2>3, <2>7, <2>8, CurveGoesOn
  <2>10. Len(wave) + c = n
    BY <1>1, <1>3
  <2>11. Far(first, last) \in Int /\ GRID_POINTS * ahead <= Far(first, last)
    <3>. DEFINE all == Larger(last - first, Hour)
    <3>1. all \in Nat /\ 2 <= all /\ last - first <= all
          /\ Far(first, last) = 24 * (3 * all + IF all < 96 THEN 2 ELSE 48)
      <4>1. first <= last
        BY <2>4
      <4>. QED
        BY <2>4, <4>1, SpanOf
    <3>. HIDE DEF all
    <3>2. span <= all /\ span \in Int
      BY <2>4, <2>5, <3>1
    <3>. QED
      BY <2>6, <3>1, <3>2 DEF GRID_POINTS
  <2>12. Advances(curve, n, GRID_POINTS * last, Far(first, last))
    <3>1. \A k \in DOMAIN curve :
            curve[k].at \in Int /\ curve[k].at <= GRID_POINTS * last + GRID_POINTS * ahead
              => curve[k].at <= GRID_POINTS * last + Far(first, last)
      BY <2>8, <2>11
    <3>. HIDE DEF curve
    <3>. QED
      BY <2>9, <2>10, <3>1 DEF Advances
  <2>. QED
    BY <2>1, <2>12 DEF curve, n, first, last, best, wave, start, grid, c
<1>. QED
  BY <1>4, <1>5

-----------------------------------------------------------------------------
(* The page.                                                                *)

LEMMA FewAreSkipped ==
  ASSUME NEW times
  PROVE  TestSkip(times) \in 0..10
<1>. DEFINE gaps == [k \in 1..Len(times) - 1 |-> times[k + 1] - times[k]]
            tail == SortSeq(SelectSeq(SubSeq(gaps, 11, Len(gaps)), LAMBDA g : g > 0), <)
            twiceMedian == tail[(Len(tail) + 1) \div 2] + tail[Len(tail) \div 2 + 1]
            Lone(k) == gaps[k] > Larger(10 * twiceMedian, Hour)
            S == {k \in 0..10 : \A j \in 1..k : Lone(j)}
            few == Len(times) < 10 \/ Len(gaps) <= 10 \/ tail = <<>>
<1>1. TestSkip(times) = IF few THEN 0 ELSE Max(S)
  BY Zenon DEF TestSkip
<1>2. Max(S) \in 0..10
  <2>. HIDE DEF Lone
  <2>1. 0 \in S
    BY SMT
  <2>2. S \in SUBSET Int /\ S # {} /\ \A x \in S : x <= 10
    BY <2>1, SMT
  <2>3. S \subseteq 0..10
    BY SMT
  <2>. HIDE DEF S
  <2>4. Max(S) \in S
    <3>. DEFINE ten == 10
    <3>1. ten \in Int /\ \A x \in S : x <= ten
      BY <2>2
    <3>. HIDE DEF ten
    <3>. QED
      BY <2>2, <3>1, Largest
  <2>. QED
    BY <2>3, <2>4
<1>. HIDE DEF S, few
<1>3. 0 \in 0..10
  OBVIOUS
<1>. QED
  BY <1>1, <1>2, <1>3

IsWindow(window, n) ==
  /\ window = <<window[1], window[2]>>
  /\ window[1] \in Nat /\ window[2] \in Nat /\ 1 <= window[1] /\ window[1] <= window[2] /\ window[2] <= n

LEMMA WindowIsCut ==
  ASSUME NEW times \in Seq(Nat), times # <<>>, NEW stored, stored = <<>> \/ stored \in Int \X Int
  PROVE  IsWindow(Window(times, stored), Len(times))
<1>. DEFINE n == Len(times)
            wanted == IF stored = <<>> THEN <<TestSkip(times) + 1, n>> ELSE stored
<1>1. n \in Nat /\ 1 <= n
  OBVIOUS
<1>2. wanted[1] \in Int /\ wanted[2] \in Int
  <2>1. CASE stored = <<>>
    <3>1. wanted = <<TestSkip(times) + 1, n>>
      BY <2>1
    <3>2. TestSkip(times) \in Int
      BY FewAreSkipped
    <3>. HIDE DEF wanted
    <3>. QED
      BY <1>1, <3>1, <3>2
  <2>2. CASE stored # <<>>
    <3>1. wanted = stored /\ stored \in Int \X Int
      BY <2>2
    <3>. HIDE DEF wanted
    <3>. QED
      BY <3>1
  <2>. QED
    BY <2>1, <2>2
<1>. DEFINE x == wanted[1]
            y == wanted[2]
            one == 1
            xn == Smaller(x, n)
            yn == Smaller(y, n)
            start == Larger(one, xn)
<1>3. Window(times, stored) = <<start, Larger(start, yn)>>
  BY DEF Window
<1>4. one \in Int /\ one = 1 /\ x \in Int /\ y \in Int /\ n \in Int
  BY <1>1, <1>2
<1>. HIDE DEF wanted, x, y, one, n
<1>5. xn \in Int /\ xn = (IF x <= n THEN x ELSE n) /\ yn \in Int /\ yn = (IF y <= n THEN y ELSE n)
  BY <1>4, LargerOf
<1>. HIDE DEF xn, yn
<1>6. start \in Int /\ start = IF one <= xn THEN xn ELSE one
  BY <1>4, <1>5, LargerOf
<1>. HIDE DEF start
<1>7. Larger(start, yn) \in Int /\ Larger(start, yn) = IF start <= yn THEN yn ELSE start
  BY <1>5, <1>6, LargerOf
<1>8. start \in Nat /\ Larger(start, yn) \in Nat /\ 1 <= start /\ start <= Larger(start, yn) /\ Larger(start, yn) <= n
  BY <1>1, <1>4, <1>5, <1>6, <1>7
<1>. HIDE DEF n
<1>. DEFINE end == Larger(start, yn)
<1>. HIDE DEF end
<1>9. Window(times, stored) = <<start, end>> /\ start \in Nat /\ end \in Nat /\ 1 <= start /\ start <= end /\ end <= n
  BY <1>3, <1>8 DEF end
<1>. QED
  BY <1>9 DEF IsWindow, n

\* The days are counted up to all answers.
LEMMA AllAreCounted ==
  ASSUME NEW times \in Seq(Nat), Sorted(times), times # <<>>
  PROVE  Cumulative(times)[Max(DOMAIN Cumulative(times))] = Len(times)
<1>. DEFINE n == Len(times)
            lo == times[1] \div 48
            hi == times[n] \div 48
            D == lo..hi
            On(d) == {i \in 1..n : times[i] \div 48 = d}
            Upto(d) == {i \in 1..n : times[i] \div 48 <= d}
            counts == [d \in D |-> Cardinality(On(d))]
            Body(g) == [d \in D |-> IF d = lo THEN counts[d] ELSE g[d - 1] + counts[d]]
            total == CHOOSE g : g = Body(g)
<1>1. n \in Nat /\ n >= 1 /\ DOMAIN times = 1..n /\ 1 \in 1..n /\ n \in 1..n /\ \A i \in 1..n : times[i] \in Nat
  OBVIOUS
<1>2. \A i \in 1..n : times[i] \div 48 \in Nat /\ lo <= times[i] \div 48 /\ times[i] \div 48 <= hi
  <2>. TAKE i \in 1..n
  <2>1. times[1] <= times[i] /\ times[i] <= times[n]
    <3>1. 1 <= i /\ i <= n
      BY <1>1
    <3>. QED
      BY <1>1, <3>1 DEF Sorted
  <2>. QED
    BY <1>1, <2>1
<1>3. lo \in Nat /\ hi \in Nat /\ lo <= hi
  BY <1>1, <1>2
<1>4. Cumulative(times) = total
  <2>1. DailyCounts(times) = counts /\ times[1] \div Day = lo
    <3>1. DOMAIN times = 1..n /\ Day = 48 /\ Last(times) = times[n]
      BY DEF Day, Hour, Last
    <3>. QED
      BY <3>1 DEF DailyCounts
  <2>2. DOMAIN counts = D
    OBVIOUS
  <2>. HIDE DEF counts, lo, D
  <2>. QED
    BY <2>1, <2>2 DEF Cumulative
<1>. HIDE DEF lo, hi
<1>5. \A d \in Int : IsFiniteSet(On(d)) /\ IsFiniteSet(Upto(d)) /\ Cardinality(On(d)) \in Nat /\ Cardinality(Upto(d)) \in Nat
  <2>. TAKE d \in Int
  <2>1. IsFiniteSet(1..n)
    <3>1. 1 \in Int /\ n \in Int
      BY <1>1
    <3>. QED
      BY <3>1, FS_Interval
  <2>2. On(d) \subseteq 1..n /\ Upto(d) \subseteq 1..n
    OBVIOUS
  <2>. HIDE DEF On, Upto, n
  <2>3. IsFiniteSet(On(d)) /\ IsFiniteSet(Upto(d))
    BY <2>1, <2>2, FS_Subset
  <2>. QED
    BY <2>3, FS_CardinalityType
<1>6. On(lo) = Upto(lo)
  BY <1>2, <1>3
<1>7. ASSUME NEW d \in Int PROVE Cardinality(Upto(d)) = Cardinality(Upto(d - 1)) + Cardinality(On(d))
  <2>1. Upto(d) = Upto(d - 1) \cup On(d)
    BY <1>2
  <2>2. Upto(d - 1) \cap On(d) = {}
    BY <1>2
  <2>3. d - 1 \in Int
    OBVIOUS
  <2>. HIDE DEF On, Upto
  <2>4. Cardinality(Upto(d - 1) \cup On(d))
        = Cardinality(Upto(d - 1)) + Cardinality(On(d)) - Cardinality(Upto(d - 1) \cap On(d))
    BY <1>5, <2>3, FS_Union
  <2>5. Cardinality({}) = 0
    BY FS_EmptySet
  <2>6. Cardinality(Upto(d - 1)) \in Nat /\ Cardinality(On(d)) \in Nat
    BY <1>5, <2>3
  <2>. DEFINE earlier == Cardinality(Upto(d - 1))
              on == Cardinality(On(d))
  <2>. HIDE DEF earlier, on
  <2>7. Cardinality(Upto(d)) = earlier + on - 0 /\ earlier \in Nat /\ on \in Nat
    BY <2>1, <2>2, <2>4, <2>5, <2>6 DEF earlier, on
  <2>8. Cardinality(Upto(d)) = earlier + on
    BY <2>7
  <2>. QED
    BY <2>8 DEF earlier, on
<1>8. Upto(hi) = 1..n
  BY <1>2
<1>. HIDE DEF On, Upto, D
<1>9. D \subseteq Int /\ hi \in D /\ lo \in D /\ \A d \in D : d = lo \/ d - 1 \in D
  BY <1>3 DEF D
<1>10. \E g : g = Body(g)
  <2>. DEFINE h == [d \in D |-> Cardinality(Upto(d))]
  <2>1. h = Body(h)
    <3>1. ASSUME NEW d \in D PROVE h[d] = IF d = lo THEN counts[d] ELSE h[d - 1] + counts[d]
      <4>1. CASE d = lo
        BY <1>6, <4>1
      <4>2. CASE d # lo
        <5>1. d \in Int /\ d - 1 \in D
          BY <1>9, <4>2
        <5>. QED
          BY <1>7, <4>2, <5>1
      <4>. QED
        BY <4>1, <4>2
    <3>. QED
      BY <3>1
  <2>. QED
    BY <2>1
<1>11. total = Body(total)
  BY <1>10
<1>. HIDE DEF total
<1>12. DOMAIN total = D /\ \A d \in D : total[d] = IF d = lo THEN counts[d] ELSE total[d - 1] + counts[d]
  BY <1>11
<1>. DEFINE S == {k \in Nat : lo + k <= hi => total[lo + k] = Cardinality(Upto(lo + k))}
<1>13. 0 \in S
  <2>1. lo + 0 = lo /\ lo \in D
    BY <1>3, <1>9
  <2>. QED
    BY <1>6, <1>12, <2>1
<1>14. ASSUME NEW k \in Nat, k \in S PROVE k + 1 \in S
  <2>. SUFFICES ASSUME lo + (k + 1) <= hi PROVE total[lo + (k + 1)] = Cardinality(Upto(lo + (k + 1)))
    OBVIOUS
  <2>. DEFINE d == lo + (k + 1)
  <2>1. d \in D /\ d # lo /\ d - 1 = lo + k /\ lo + k <= hi /\ d \in Int
    BY <1>3 DEF D
  <2>2. total[lo + k] = Cardinality(Upto(lo + k))
    BY <1>14, <2>1
  <2>3. Cardinality(Upto(d)) = Cardinality(Upto(d - 1)) + Cardinality(On(d))
    BY <1>7, <2>1
  <2>4. total[d] = total[d - 1] + counts[d] /\ counts[d] = Cardinality(On(d))
    BY <1>12, <2>1
  <2>. HIDE DEF d, counts
  <2>5. total[d] = Cardinality(Upto(d))
    BY <2>1, <2>2, <2>3, <2>4
  <2>. QED
    BY <2>5 DEF d
<1>15. hi - lo \in S
  <2>1. \A k \in Nat : k \in S
    <3>. HIDE DEF S
    <3>. QED
      BY <1>13, <1>14, Induction
  <2>2. hi - lo \in Nat
    BY <1>3
  <2>. HIDE DEF S
  <2>. QED
    BY <2>1, <2>2
<1>16. total[hi] = Cardinality(1..n)
  <2>1. lo + (hi - lo) = hi /\ hi <= hi
    BY <1>3
  <2>2. total[lo + (hi - lo)] = Cardinality(Upto(lo + (hi - lo)))
    BY <1>15, <2>1
  <2>. QED
    BY <1>8, <2>1, <2>2
<1>17. Cardinality(1..n) = n
  <2>1. 1 \in Int /\ n \in Int
    BY <1>1
  <2>2. Cardinality(1..n) = IF 1 > n THEN 0 ELSE n - 1 + 1
    BY <2>1, FS_Interval
  <2>. QED
    BY <1>1, <2>2
<1>18. Max(D) = hi
  <2>1. D \in SUBSET Int /\ D # {} /\ hi \in Int /\ hi \in D
    BY <1>3, <1>9
  <2>2. \A x \in D : x <= hi
    BY <1>3 DEF D
  <2>3. Max(D) \in D /\ \A x \in D : x <= Max(D)
    BY <2>1, <2>2, Largest
  <2>4. Max(D) \in Int /\ Max(D) <= hi /\ hi <= Max(D)
    BY <2>1, <2>2, <2>3
  <2>. QED
    BY <2>1, <2>4
<1>. QED
  BY <1>4, <1>12, <1>16, <1>17, <1>18

LEMMA PictureFields ==
  ASSUME NEW form, IsPicture(form)
  PROVE  /\ form.times \in Seq(Nat) /\ Sorted(form.times) /\ form.times # <<>>
         /\ form.kind.silence \in Nat \ {0}
         /\ form.fits \in [1..3 -> FittedCurves]
         /\ form.stored = <<>> \/ form.stored \in Int \X Int
<1>1. IsCourse(form)
  BY DEF IsPicture
<1>2. form.times \in Seq(Nat) /\ Sorted(form.times) /\ form.kind.silence \in Nat \ {0}
  BY <1>1, CourseFields
<1>3. form.times # <<>> /\ (form.stored = <<>> \/ form.stored \in Int \X Int)
  BY DEF IsPicture
<1>4. form.fits \in [1..3 -> FittedCurves]
  BY DEF IsPicture, FittedCurves
<1>. QED
  BY <1>2, <1>3, <1>4

\* The forecast of the page goes on from the last answer of the window.
LEMMA PageGoesOn ==
  ASSUME NEW form, IsPicture(form), NEW window, IsWindow(window, Len(form.times)),
         PageForecast(form, window) # <<>>
  PROVE  Advances(PageForecast(form, window), window[2], GRID_POINTS * form.times[window[2]],
                Far(form.times[window[1]], form.times[window[2]]))
<1>. DEFINE times == form.times
            kind == form.kind
            fits == form.fits
            n == Len(times)
            a == window[1]
            b == window[2]
            subset == SubSeq(times, a, b)
            requested == Last(times) + Larger((Last(times) - times[1]) \div (4 * Day), 1) * Day
            offset == a - 1
            curve == ForecastCurrentWave(subset, kind, requested, fits)
            shown == PageForecast(form, window)
<1>1. /\ times \in Seq(Nat) /\ Sorted(times) /\ times # <<>> /\ kind.silence \in Nat \ {0}
      /\ fits \in [1..3 -> FittedCurves]
  BY PictureFields
<1>2. a \in Nat /\ b \in Nat /\ 1 <= a /\ a <= b /\ b <= n
  BY DEF IsWindow
<1>3. shown = [k \in DOMAIN curve |-> [at |-> curve[k].at, point |-> curve[k].point + offset,
                                      lower |-> curve[k].lower + offset, upper |-> curve[k].upper + offset]]
  BY DEF PageForecast
<1>. HIDE DEF times, kind, fits, a, b, shown
<1>4. n \in Nat /\ n >= 1 /\ DOMAIN times = 1..n /\ \A i \in 1..n : times[i] \in Nat
  BY <1>1
<1>5. requested \in Int
  <2>. DEFINE weeks == (Last(times) - times[1]) \div 192
              one == 1
  <2>1. Last(times) \in Nat /\ weeks \in Int /\ one \in Int /\ 4 * Day = 192 /\ Day \in Nat
    BY <1>4 DEF Last, Day, Hour
  <2>. HIDE DEF weeks, one
  <2>2. Larger(weeks, one) \in Int
    BY <2>1, LargerOf
  <2>3. requested = Last(times) + Larger(weeks, one) * Day
    BY <2>1 DEF weeks, one
  <2>. HIDE DEF requested
  <2>. QED
    BY <2>1, <2>2, <2>3
<1>6. /\ subset \in Seq(Nat) /\ Len(subset) = b - a + 1 /\ subset # <<>>
      /\ \A i \in 1..(b - a + 1) : subset[i] = times[a + (i - 1)] /\ a + (i - 1) \in 1..n
  <2>1. subset \in Seq(Nat) /\ Len(subset) = b - a + 1
    BY <1>1, <1>2, <1>4
  <2>2. \A i \in 1..(b - a + 1) : subset[i] = times[a + (i - 1)] /\ a + (i - 1) \in 1..n
    BY <1>1, <1>2, <1>4
  <2>3. Len(subset) # 0
    BY <1>2, <2>1
  <2>. HIDE DEF subset
  <2>. QED
    BY <2>1, <2>2, <2>3
<1>. HIDE DEF subset, requested, n
<1>7. DOMAIN subset = 1..(b - a + 1)
  BY <1>6
<1>8. Sorted(subset)
  <2>. SUFFICES ASSUME NEW i \in 1..(b - a + 1), NEW j \in 1..(b - a + 1), i <= j PROVE subset[i] <= subset[j]
    BY <1>7 DEF Sorted
  <2>1. a + (i - 1) <= a + (j - 1)
    BY <1>2
  <2>2. times[a + (i - 1)] <= times[a + (j - 1)]
    BY <1>1, <1>4, <1>6, <2>1 DEF Sorted
  <2>. QED
    BY <1>6, <2>2
<1>9. subset[1] = times[a] /\ Last(subset) = times[b]
  <2>1. 1 \in 1..(b - a + 1) /\ b - a + 1 \in 1..(b - a + 1) /\ a + (1 - 1) = a /\ a + ((b - a + 1) - 1) = b
    BY <1>2
  <2>2. Last(subset) = subset[b - a + 1]
    BY <1>6 DEF Last
  <2>. QED
    BY <1>6, <2>1, <2>2
<1>10. curve # <<>>
  <2>. SUFFICES ASSUME curve = <<>> PROVE shown = <<>>
    BY DEF shown
  <2>. HIDE DEF curve
  <2>. QED
    BY <1>3
<1>11. Advances(curve, Len(subset), GRID_POINTS * Last(subset), Far(subset[1], Last(subset)))
  BY <1>1, <1>5, <1>6, <1>8, <1>10, WaveGoesOn
<1>. DEFINE far == Far(times[a], times[b])
            t == GRID_POINTS * times[b]
<1>12. Advances(curve, b - a + 1, t, far)
  BY <1>6, <1>9, <1>11
<1>13. far \in Int /\ t \in Int
  <2>1. times[a] \in Nat /\ times[b] \in Nat /\ times[a] <= times[b]
    <3>1. a \in 1..n /\ b \in 1..n
      BY <1>2, <1>4
    <3>. QED
      BY <1>1, <1>2, <1>4, <3>1 DEF Sorted
  <2>2. far \in Int
    <3>. DEFINE span == Larger(times[b] - times[a], Hour)
    <3>1. span \in Nat /\ far = 24 * (3 * span + IF span < 96 THEN 2 ELSE 48)
      BY <2>1, SpanOf
    <3>. HIDE DEF span, far
    <3>. QED
      BY <3>1
  <2>. QED
    BY <2>1, <2>2 DEF GRID_POINTS
<1>. HIDE DEF curve, far, t
<1>14. offset \in Nat /\ b - a + 1 \in Int /\ (b - a + 1) + offset = b /\ far <= far
  BY <1>2, <1>13
<1>. HIDE DEF offset
<1>15. Advances(shown, (b - a + 1) + offset, t, far)
  BY <1>3, <1>12, <1>13, <1>14, GoesOnShifted
<1>. QED
  BY <1>14, <1>15 DEF shown, far, t, times, a, b

\* All that is drawn is in the axes.
LEMMA AxesHoldAll ==
  ASSUME NEW form, NEW window, IsWindow(window, Len(form.times)), form.times \in Seq(Nat),
         NEW far \in Int,
         Advances(PageForecast(form, window), window[2], GRID_POINTS * form.times[window[2]], far),
         NEW k \in DOMAIN PageForecast(form, window)
  PROVE  LET c == PageForecast(form, window)[k] axes == AxisRanges(form, window) IN
         axes.x[1] <= c.at /\ c.at <= axes.x[2] /\ axes.y[1] <= c.lower /\ c.upper <= axes.y[2]
<1>. DEFINE curve == PageForecast(form, window)
            a == window[1]
            b == window[2]
            ta == GRID_POINTS * form.times[a]
            tb == GRID_POINTS * form.times[b]
            dates == {GRID_POINTS * form.times[i] : i \in {a, b}}
                       \cup (IF curve = <<>> THEN {} ELSE {curve[1].at, Last(curve).at})
            values == {a, b} \cup UNION {{c.point, c.lower, c.upper} : c \in Range(curve)}
            axes == AxisRanges(form, window)
<1>1. axes.x[1] = Min(dates) /\ axes.x[2] = Max(dates) /\ axes.y[1] = Min(values) /\ axes.y[2] = Max(values)
  BY DEF AxisRanges
<1>2. a \in Nat /\ b \in Nat /\ 1 <= a /\ a <= b /\ b <= Len(form.times)
  BY DEF IsWindow
<1>3. ta \in Int /\ tb \in Int
  <2>1. a \in 1..Len(form.times) /\ b \in 1..Len(form.times)
    BY <1>2
  <2>2. \A i \in 1..Len(form.times) : form.times[i] \in Nat
    OBVIOUS
  <2>3. form.times[a] \in Nat /\ form.times[b] \in Nat
    BY <2>1, <2>2
  <2>. QED
    BY <2>3 DEF GRID_POINTS
<1>4. PICK len \in Nat : DOMAIN curve = 1..len /\ curve = [j \in 1..len |-> curve[j]]
  BY DEF Advances
<1>5. k \in 1..len /\ 1 \in 1..len /\ len \in 1..len
  BY <1>4
<1>6. ASSUME NEW j \in 1..len
      PROVE  /\ curve[j].at \in Int /\ curve[j].point \in Int /\ curve[j].lower \in Int /\ curve[j].upper \in Int
             /\ b <= curve[j].lower /\ curve[j].lower <= curve[j].point /\ curve[j].point <= curve[j].upper
             /\ curve[j].upper - curve[j].point <= curve[j].point
  BY <1>4 DEF Advances
<1>7. \A i, j \in 1..len : i < j => curve[i].at < curve[j].at /\ curve[i].point <= curve[j].point
  BY <1>4 DEF Advances
<1>8. Last(curve) = curve[len] /\ curve # <<>> /\ Range(curve) = {curve[j] : j \in 1..len}
  <2>. DEFINE cc == [j \in 1..len |-> curve[j]]
  <2>1. Len(cc) = len /\ cc # <<>>
    <3>. HIDE DEF curve
    <3>. QED
      BY <1>5
  <2>. HIDE DEF curve, cc
  <2>2. Len(curve) = len /\ curve # <<>>
    BY <1>4, <2>1 DEF cc
  <2>. QED
    BY <1>4, <2>2 DEF Last, Range
<1>. HIDE DEF curve, axes
<1>9. curve[1].at <= curve[k].at /\ curve[k].at <= curve[len].at
  <2>1. (1 < k \/ 1 = k) /\ (k < len \/ k = len)
    BY <1>5
  <2>2. 1 < k => curve[1].at < curve[k].at
    BY <1>5, <1>7
  <2>3. k < len => curve[k].at < curve[len].at
    BY <1>5, <1>7
  <2>. QED
    BY <1>5, <1>6, <2>1, <2>2, <2>3
<1>10. Min(dates) <= curve[k].at /\ curve[k].at <= Max(dates)
  <2>. DEFINE first == curve[1].at
              last == curve[len].at
              here == curve[k].at
  <2>1. dates = {ta, tb, first, last}
    BY <1>8
  <2>2. first \in Int /\ last \in Int /\ here \in Int /\ first <= here /\ here <= last
    BY <1>5, <1>6, <1>9
  <2>. HIDE DEF dates, ta, tb, first, last, here
  <2>3. PICK low \in Int : low <= ta /\ low <= tb /\ low <= first /\ low <= last
    <3>1. PICK l1 \in Int : l1 <= ta /\ l1 <= tb
      BY <1>3
    <3>2. PICK l2 \in {first, l1} : l2 <= first /\ l2 <= l1
      BY <2>2, <3>1
    <3>3. l2 \in Int /\ l2 <= ta /\ l2 <= tb /\ l2 <= first /\ l2 <= last
      BY <1>3, <2>2, <3>1, <3>2
    <3>. QED
      BY <3>3
  <2>4. PICK high \in Int : ta <= high /\ tb <= high /\ first <= high /\ last <= high
    <3>1. PICK h1 \in Int : ta <= h1 /\ tb <= h1
      BY <1>3
    <3>2. PICK h2 \in {last, h1} : last <= h2 /\ h1 <= h2
      BY <2>2, <3>1
    <3>3. h2 \in Int /\ ta <= h2 /\ tb <= h2 /\ first <= h2 /\ last <= h2
      BY <1>3, <2>2, <3>1, <3>2
    <3>. QED
      BY <3>3
  <2>5. dates \in SUBSET Int /\ dates # {} /\ (\A x \in dates : x <= high) /\ (\A x \in dates : low <= x)
    BY <1>3, <2>1, <2>2, <2>3, <2>4
  <2>6. Max(dates) \in dates /\ \A x \in dates : x <= Max(dates)
    BY <2>5, Largest
  <2>7. Min(dates) \in dates /\ \A x \in dates : Min(dates) <= x
    BY <2>5, Smallest
  <2>8. Max(dates) \in Int /\ Min(dates) \in Int /\ Min(dates) <= first /\ last <= Max(dates)
    BY <2>1, <2>5, <2>6, <2>7
  <2>9. Min(dates) <= here /\ here <= Max(dates)
    BY <2>2, <2>8
  <2>. QED
    BY <2>9 DEF here
<1>11. Min(values) <= curve[k].lower /\ curve[k].upper <= Max(values)
  <2>1. \A v : v \in values <=> (v = a \/ v = b \/ \E j \in 1..len : v \in {curve[j].point, curve[j].lower, curve[j].upper})
    BY <1>8
  <2>. HIDE DEF values
  <2>. DEFINE most == curve[len].point
              high == 2 * most + b
              low == 0
  <2>2. \A j \in 1..len : curve[j].point <= curve[len].point
    <3>. TAKE j \in 1..len
    <3>1. j < len \/ j = len
      BY <1>4
    <3>. QED
      BY <1>5, <1>6, <1>7, <3>1
  <2>3. most \in Int /\ b <= most /\ high \in Int /\ low \in Int
    <3>1. /\ curve[len].point \in Int /\ curve[len].lower \in Int
          /\ b <= curve[len].lower /\ curve[len].lower <= curve[len].point
      BY <1>5, <1>6
    <3>2. most \in Int /\ b <= most
      <4>. DEFINE l == curve[len].lower
      <4>1. most \in Int /\ l \in Int /\ b <= l /\ l <= most
        BY <3>1
      <4>. HIDE DEF l, most, b
      <4>. QED
        BY <1>2, <4>1
    <3>. HIDE DEF most
    <3>. QED
      BY <1>2, <3>2
  <2>. HIDE DEF most
  <2>4. ASSUME NEW v \in values PROVE v \in Int /\ v <= high /\ low <= v
    <3>1. CASE v = a \/ v = b
      BY <1>2, <2>3, <3>1
    <3>2. CASE \E j \in 1..len : v \in {curve[j].point, curve[j].lower, curve[j].upper}
      <4>1. PICK j \in 1..len : v = curve[j].point \/ v = curve[j].lower \/ v = curve[j].upper
        BY <3>2
      <4>. DEFINE pj == curve[j].point
                  lj == curve[j].lower
                  uj == curve[j].upper
      <4>2. pj <= most /\ pj \in Int /\ lj \in Int /\ uj \in Int /\ b <= lj /\ lj <= pj /\ pj <= uj /\ uj - pj <= pj
        BY <1>6, <2>2 DEF most
      <4>3. v = pj \/ v = lj \/ v = uj
        BY <4>1
      <4>. HIDE DEF pj, lj, uj
      <4>4. pj <= high /\ lj <= high /\ uj <= high /\ low <= lj /\ low <= pj /\ low <= uj
        <5>. HIDE DEF b
        <5>. QED
          BY <1>2, <2>3, <4>2
      <4>. HIDE DEF high, low
      <4>. QED
        BY <4>2, <4>3, <4>4
    <3>. QED
      BY <2>1, <3>1, <3>2
  <2>5. curve[k].lower \in values /\ curve[k].upper \in values
    BY <1>5, <2>1
  <2>. HIDE DEF high, low
  <2>6. values \in SUBSET Int /\ values # {} /\ (\A x \in values : x <= high) /\ (\A x \in values : low <= x)
    BY <2>4, <2>5
  <2>7. \A x \in values : x <= Max(values)
    BY <2>3, <2>6, Largest
  <2>8. \A x \in values : Min(values) <= x
    BY <2>3, <2>6, Smallest
  <2>. QED
    BY <2>5, <2>7, <2>8
<1>. QED
  BY <1>1, <1>10, <1>11 DEF curve, axes

\* A wave that is expected to double has reached half of its landing at most.
LEMMA HalfReached ==
  ASSUME NEW form, NEW window, window[2] \in Nat \ {0},
         Last(PageForecast(form, window)).point \in Int,
         Last(PageForecast(form, window)).point >= 2 * window[2]
  PROVE  WaveState(form, window) <= 50
<1>. DEFINE p == Last(PageForecast(form, window)).point
            b == window[2]
            landing == Larger(p, b)
            reached == 200 * b
            Share(s) == (2 * s - 1) * landing < reached \/ ((2 * s - 1) * landing = reached /\ s % 2 = 0)
            S == {s \in 0..100 : Share(s)}
<1>1. WaveState(form, window) = Max(S)
  BY DEF WaveState
<1>2. p \in Int /\ b \in Nat /\ 1 <= b /\ 2 * b <= p
  OBVIOUS
<1>. HIDE DEF p, b
<1>3. landing = p
  BY <1>2, LargerOf
<1>. HIDE DEF landing
<1>4. 0 \in S
  <2>1. (2 * 0 - 1) * landing = 0 - p
    BY <1>2, <1>3
  <2>. QED
    BY <1>2, <1>3, <2>1
<1>5. ASSUME NEW s \in S PROVE s \in Int /\ s <= 50
  <2>1. s \in Nat /\ (2 * s - 1) * landing <= reached
    <3>1. landing \in Int /\ reached \in Int /\ s \in Nat
      BY <1>2, <1>3
    <3>. QED
      BY <3>1
  <2>. SUFFICES ASSUME 51 <= s PROVE FALSE
    BY <2>1
  <2>2. 101 <= 2 * s - 1 /\ 2 * s - 1 \in Int /\ landing \in Nat
    BY <1>2, <1>3, <2>1
  <2>3. 101 * landing <= (2 * s - 1) * landing
    BY <2>2, ScaledUp
  <2>. QED
    BY <1>2, <1>3, <2>1, <2>2, <2>3
<1>. HIDE DEF S
<1>6. Max(S) \in S
  <2>. DEFINE half == 50
  <2>1. half \in Int /\ \A s \in S : s <= half
    BY <1>5
  <2>2. S \in SUBSET Int /\ S # {}
    BY <1>4, <1>5
  <2>. HIDE DEF half
  <2>. QED
    BY <2>1, <2>2, Largest
<1>. QED
  BY <1>1, <1>5, <1>6

\* The property for the k-th date that is drawn.
DrawnOn(form, window, k) ==
  LET drawn == DrawnCurve(form, window)
      axes == AxisRanges(form, window)
      span == Larger(form.times[window[2]] - form.times[window[1]], Hour)
      step == IF span < 2 * Day THEN Hour ELSE Day
  IN  /\ drawn[k - 1].at < drawn[k].at
      /\ drawn[k - 1].point <= drawn[k].point
      /\ window[2] <= drawn[k].lower
      /\ drawn[k].lower <= drawn[k].point /\ drawn[k].point <= drawn[k].upper
      /\ drawn[k].upper - drawn[k].point <= drawn[k].point
      /\ axes.x[1] <= drawn[k].at /\ drawn[k].at <= axes.x[2]
      /\ axes.y[1] <= drawn[k].lower /\ drawn[k].upper <= axes.y[2]
      /\ drawn[k].at - drawn[1].at <= GRID_POINTS * (3 * span + step)

LEMMA DrawnGoesOn ==
  ASSUME NEW form, IsPicture(form), NEW window, IsWindow(window, Len(form.times))
  PROVE  /\ \A k \in 2..Len(DrawnCurve(form, window)) : DrawnOn(form, window, k)
         /\ DrawnCurve(form, window) # <<>> /\ Last(DrawnCurve(form, window)).point >= 2 * window[2]
              => WaveState(form, window) <= 50
<1>. DEFINE curve == PageForecast(form, window)
            drawn == DrawnCurve(form, window)
            a == window[1]
            b == window[2]
            t == GRID_POINTS * form.times[b]
            far == Far(form.times[a], form.times[b])
            first == [at |-> t, point |-> b, lower |-> b, upper |-> b]
<1>1. a \in Nat /\ b \in Nat /\ 1 <= a /\ a <= b /\ b <= Len(form.times)
  BY DEF IsWindow
<1>2. form.times \in Seq(Nat) /\ Sorted(form.times)
  BY PictureFields
<1>3. form.times[a] \in Nat /\ form.times[b] \in Nat /\ form.times[a] <= form.times[b]
  <2>1. a \in DOMAIN form.times /\ b \in DOMAIN form.times /\ \A i \in DOMAIN form.times : form.times[i] \in Nat
    BY <1>1, <1>2
  <2>. QED
    BY <1>1, <1>2, <2>1 DEF Sorted
<1>4. CASE curve = <<>>
  <2>1. drawn = <<>>
    BY <1>4 DEF DrawnCurve
  <2>2. Len(drawn) = 0
    <3>. HIDE DEF drawn
    <3>. QED
      BY <2>1
  <2>3. \A k \in 2..Len(drawn) : FALSE
    <3>. HIDE DEF drawn
    <3>. QED
      BY <2>2
  <2>. QED
    BY <2>1, <2>3
<1>5. CASE curve # <<>>
  <2>1. drawn = <<first>> \o curve
    BY <1>5 DEF DrawnCurve
  <2>2. Advances(curve, b, t, far)
    BY <1>5, PageGoesOn
  <2>3. PICK len \in Nat : DOMAIN curve = 1..len /\ curve = [j \in 1..len |-> curve[j]]
    BY <2>2 DEF Advances
  <2>4. \A j \in 1..len :
          /\ curve[j].at \in Int /\ curve[j].point \in Int /\ curve[j].lower \in Int /\ curve[j].upper \in Int
          /\ t < curve[j].at /\ curve[j].at <= t + far
          /\ b <= curve[j].lower /\ curve[j].lower <= curve[j].point /\ curve[j].point <= curve[j].upper
          /\ curve[j].upper - curve[j].point <= curve[j].point
    BY <2>2, <2>3 DEF Advances
  <2>5. \A i, j \in 1..len : i < j => curve[i].at < curve[j].at /\ curve[i].point <= curve[j].point
    BY <2>2, <2>3 DEF Advances
  <2>6. far \in Int /\ t \in Int /\ far = GRID_POINTS * (3 * Larger(form.times[b] - form.times[a], Hour)
           + IF Larger(form.times[b] - form.times[a], Hour) < 2 * Day THEN Hour ELSE Day)
    <3>1. /\ Larger(form.times[b] - form.times[a], Hour) \in Nat
          /\ far = 24 * (3 * Larger(form.times[b] - form.times[a], Hour)
                         + IF Larger(form.times[b] - form.times[a], Hour) < 96 THEN 2 ELSE 48)
      BY <1>3, SpanOf
    <3>2. far = GRID_POINTS * (3 * Larger(form.times[b] - form.times[a], Hour)
           + IF Larger(form.times[b] - form.times[a], Hour) < 2 * Day THEN Hour ELSE Day)
      BY DEF Far
    <3>. DEFINE span == Larger(form.times[b] - form.times[a], Hour)
    <3>3. far \in Int
      <4>. HIDE DEF span, far
      <4>. QED
        BY <3>1 DEF span
    <3>. QED
      BY <1>3, <3>2, <3>3 DEF GRID_POINTS
  <2>. HIDE DEF curve, drawn, first, far, t
  <2>7. Len(curve) = len /\ len >= 1
    <3>. DEFINE cc == [j \in 1..len |-> curve[j]]
    <3>1. Len(cc) = len /\ (len = 0 => cc = <<>>)
      OBVIOUS
    <3>. HIDE DEF cc
    <3>. QED
      BY <1>5, <2>3, <3>1 DEF cc
  <2>8. Len(drawn) = len + 1 /\ drawn[1] = first /\ \A k \in 2..len + 1 : drawn[k] = curve[k - 1]
    <3>. DEFINE cc == [j \in 1..len |-> curve[j]]
                both == <<first>> \o cc
    <3>1. Len(both) = len + 1 /\ both[1] = first /\ \A k \in 2..len + 1 : both[k] = cc[k - 1]
      OBVIOUS
    <3>2. drawn = both
      BY <2>1, <2>3
    <3>3. \A k \in 2..len + 1 : cc[k - 1] = curve[k - 1]
      BY <2>3
    <3>. HIDE DEF both, cc
    <3>. QED
      BY <3>1, <3>2, <3>3
  <2>9. first.at = t /\ first.point = b
    BY DEF first
  <2>10. ASSUME NEW k \in 2..Len(drawn) PROVE DrawnOn(form, window, k)
    <3>. DEFINE j == k - 1
                i == k - 2
    <3>1. k \in 2..len + 1 /\ j \in 1..len /\ (k = 2 \/ (k - 1 \in 2..len + 1 /\ i \in 1..len /\ i < j /\ i = (k - 1) - 1))
      BY <2>7, <2>8
    <3>2. drawn[k] = curve[j] /\ drawn[1] = first
      BY <2>8, <3>1
    <3>3. drawn[k - 1].at < drawn[k].at /\ drawn[k - 1].point <= drawn[k].point
      <4>1. CASE k = 2
        <5>1. drawn[k - 1] = first
          BY <2>8, <4>1
        <5>2. /\ t < curve[j].at /\ curve[j].lower \in Int /\ curve[j].point \in Int
              /\ b <= curve[j].lower /\ curve[j].lower <= curve[j].point
          BY <2>4, <3>1
        <5>3. b <= curve[j].point
          BY <1>1, <5>2
        <5>. QED
          BY <2>9, <3>2, <5>1, <5>2, <5>3
      <4>2. CASE k # 2
        <5>1. drawn[k - 1] = curve[i]
          BY <2>8, <3>1, <4>2
        <5>2. curve[i].at < curve[j].at /\ curve[i].point <= curve[j].point
          BY <2>5, <3>1, <4>2
        <5>. QED
          BY <3>2, <5>1, <5>2
      <4>. QED
        BY <4>1, <4>2
    <3>4. /\ b <= curve[j].lower /\ curve[j].lower <= curve[j].point /\ curve[j].point <= curve[j].upper
          /\ curve[j].upper - curve[j].point <= curve[j].point
          /\ curve[j].at \in Int /\ curve[j].at <= t + far
      BY <2>4, <3>1
    <3>5. curve[j].at - t <= far
      <4>. DEFINE at == curve[j].at
      <4>1. at \in Int /\ at <= t + far
        BY <3>4
      <4>. HIDE DEF at
      <4>2. at - t <= far
        BY <2>6, <4>1
      <4>. QED
        BY <4>2 DEF at
    <3>6. LET axes == AxisRanges(form, window) IN
          axes.x[1] <= curve[j].at /\ curve[j].at <= axes.x[2] /\ axes.y[1] <= curve[j].lower /\ curve[j].upper <= axes.y[2]
      <4>1. j \in DOMAIN curve
        BY <2>3, <3>1
      <4>. QED
        BY <1>2, <2>2, <2>6, <4>1, AxesHoldAll DEF curve, t
    <3>. HIDE DEF j, i
    <3>. QED
      BY <2>6, <2>9, <3>2, <3>3, <3>4, <3>5, <3>6 DEF DrawnOn, drawn
  <2>11. ASSUME Last(drawn).point >= 2 * b PROVE WaveState(form, window) <= 50
    <3>1. Last(drawn) = curve[len] /\ Last(curve) = curve[len]
      <4>1. len + 1 \in 2..len + 1 /\ (len + 1) - 1 = len
        BY <2>7
      <4>. QED
        BY <2>7, <2>8, <4>1 DEF Last
    <3>2. curve[len].point \in Int
      BY <2>4, <2>7
    <3>3. Last(curve).point \in Int /\ Last(curve).point >= 2 * b
      BY <2>11, <3>1, <3>2
    <3>4. b \in Nat \ {0}
      BY <1>1
    <3>. QED
      BY <3>3, <3>4, HalfReached DEF curve
  <2>. QED
    BY <2>10, <2>11 DEF drawn
<1>. QED
  BY <1>4, <1>5

LEMMA ForecastDoesGoOn ==
  ASSUME NEW form, IsPicture(form)
  PROVE  GoesOnFromFacts(form, form.stored)
<1>. DEFINE window == Window(form.times, form.stored)
            counts == Cumulative(form.times)
<1>1. /\ form.times \in Seq(Nat) /\ Sorted(form.times) /\ form.times # <<>>
      /\ form.stored = <<>> \/ form.stored \in Int \X Int
  BY PictureFields
<1>2. IsWindow(window, Len(form.times))
  BY <1>1, WindowIsCut
<1>3. counts[Max(DOMAIN counts)] = Len(form.times)
  BY <1>1, AllAreCounted
<1>. HIDE DEF window, counts
<1>4. \A k \in 2..Len(DrawnCurve(form, window)) : DrawnOn(form, window, k)
  BY <1>2, DrawnGoesOn
<1>5. DrawnCurve(form, window) # <<>> /\ Last(DrawnCurve(form, window)).point >= 2 * window[2] => WaveState(form, window) <= 50
  BY <1>2, DrawnGoesOn
<1>. QED
  BY <1>3, <1>4, <1>5 DEF GoesOnFromFacts, DrawnOn, window, counts

-----------------------------------------------------------------------------
(* The arrows of a section map (FormFlow).                                  *)

\* r are what a fold has after each of n steps.
StepsTo(r, V, base, n, Step) ==
  /\ r \in [0..n -> V] /\ r[0] = base
  /\ \A k \in 1..n : r[k] = Step[k][r[k - 1]]

\* What is defined on the sets of places as a fold is, goes on step by step.
GoesTo(value, V, base, n, Step) == \E r : StepsTo(r, V, base, n, Step) /\ r[n] = value
FoldsFrom(found, V, base, n, Step) ==
  /\ found[{}] = base
  /\ \A s \in SUBSET (1..n) :
       s # {} /\ found[s \ {Max(s)}] \in V => found[s] = Step[Max(s)][found[s \ {Max(s)}]]

LEMMA FoldGoesOn ==
  ASSUME NEW V, NEW base \in V, NEW n \in Nat, NEW Step \in [1..n -> [V -> V]],
         NEW found, FoldsFrom(found, V, base, n, Step)
  PROVE  GoesTo(found[1..n], V, base, n, Step)
<1>. DEFINE S == {m \in Nat : m <= n => found[1..m] \in V}
<1>1. 1..0 = {}
  OBVIOUS
<1>2. 0 \in S
  BY <1>1 DEF FoldsFrom
<1>3. ASSUME NEW k \in 1..n, found[1..(k - 1)] \in V
      PROVE  found[1..k] = Step[k][found[1..(k - 1)]] /\ found[1..k] \in V
  <2>1. k \in Nat \ {0} /\ 1..k \in SUBSET (1..n) /\ k \in 1..k
    OBVIOUS
  <2>2. 1..k # {} /\ Max(1..k) = k /\ (1..k) \ {k} = 1..(k - 1)
    BY <2>1, LastOfAll
  <2>3. found[1..k] = Step[k][found[1..(k - 1)]]
    BY <1>3, <2>1, <2>2 DEF FoldsFrom
  <2>. QED
    BY <1>3, <2>3
<1>4. ASSUME NEW m \in Nat, m \in S PROVE m + 1 \in S
  <2>. SUFFICES ASSUME m + 1 <= n PROVE found[1..(m + 1)] \in V
    OBVIOUS
  <2>1. m + 1 \in 1..n /\ (m + 1) - 1 = m /\ found[1..m] \in V
    BY <1>4
  <2>. QED
    BY <1>3, <2>1
<1>5. \A m \in Nat : m \in S
  <2>. HIDE DEF S
  <2>. QED
    BY <1>2, <1>4, Induction
<1>. DEFINE r == [k \in 0..n |-> found[1..k]]
<1>6. r \in [0..n -> V] /\ r[0] = base /\ r[n] = found[1..n]
  BY <1>1, <1>5 DEF FoldsFrom
<1>7. ASSUME NEW k \in 1..n PROVE r[k] = Step[k][r[k - 1]]
  <2>1. k - 1 \in 0..n /\ k \in 0..n
    OBVIOUS
  <2>2. found[1..(k - 1)] \in V
    BY <1>5, <2>1
  <2>. QED
    BY <1>3, <2>1, <2>2
<1>. QED
  BY <1>6, <1>7 DEF StepsTo, GoesTo

\* The paths that the arrows make with any sections in between.
Transitive(R) == \A a, b, c : <<a, b>> \in R /\ <<b, c>> \in R => <<a, c>> \in R

\* The paths by way of the first sections, one more after the other.
By(paths, via) == paths \cup {<<p[1], q[2]>> : p \in {d \in paths : d[2] = via}, q \in {d \in paths : d[1] = via}}

LEMMA PairsBy ==
  ASSUME NEW P \in SUBSET (Nat \X Nat), NEW v \in Nat
  PROVE  /\ By(P, v) \in SUBSET (Nat \X Nat)
         /\ \A a, b : <<a, b>> \in By(P, v) <=> <<a, b>> \in P \/ (<<a, v>> \in P /\ <<v, b>> \in P)
<1>1. \A p \in P : p = <<p[1], p[2]>> /\ p[1] \in Nat /\ p[2] \in Nat
  OBVIOUS
<1>2. \A a, b : <<a, b>> \in By(P, v) <=> <<a, b>> \in P \/ (<<a, v>> \in P /\ <<v, b>> \in P)
  <2>. TAKE a, b
  <2>1. ASSUME <<a, b>> \in By(P, v), <<a, b>> \notin P PROVE <<a, v>> \in P /\ <<v, b>> \in P
    <3>1. PICK p \in {d \in P : d[2] = v}, q \in {d \in P : d[1] = v} : <<a, b>> = <<p[1], q[2]>>
      BY <2>1 DEF By
    <3>2. p = <<a, v>> /\ q = <<v, b>>
      BY <1>1, <3>1
    <3>. QED
      BY <3>1, <3>2
  <2>2. ASSUME <<a, v>> \in P, <<v, b>> \in P PROVE <<a, b>> \in By(P, v)
    <3>. DEFINE p == <<a, v>>
                q == <<v, b>>
    <3>1. p \in {d \in P : d[2] = v} /\ q \in {d \in P : d[1] = v} /\ <<a, b>> = <<p[1], q[2]>>
      BY <2>2
    <3>. QED
      BY <3>1 DEF By
  <2>. QED
    BY <2>1, <2>2 DEF By
<1>3. By(P, v) \in SUBSET (Nat \X Nat)
  BY <1>1 DEF By
<1>. QED
  BY <1>2, <1>3

LEMMA LeadsFolds ==
  ASSUME NEW form, Len(form) \in Nat, DOMAIN form = 1..Len(form), NEW flow, flow.edges \in SUBSET (Nat \X Nat)
  PROVE  \E r : /\ r \in [0..Len(form) -> SUBSET (Nat \X Nat)] /\ r[0] = flow.edges
                /\ \A k \in 1..Len(form) : r[k] = By(r[k - 1], k)
                /\ r[Len(form)] = Leads(form, flow)
<1>. DEFINE n == Len(form)
            V == SUBSET (Nat \X Nat)
            Step == [i \in 1..n |-> [P \in V |-> By(P, i)]]
            ids == [s \in Sections(form) |-> s]
            Body(g) == [s \in SUBSET DOMAIN ids |->
                          IF s = {} THEN flow.edges ELSE By(g[s \ {Max(s)}], ids[Max(s)])]
            found == CHOOSE g : g = Body(g)
<1>1. n \in Nat /\ DOMAIN ids = 1..n /\ \A i \in 1..n : ids[i] = i
  BY DEF Sections
<1>2. Step \in [1..n -> [V -> V]]
  BY PairsBy
<1>3. Leads(form, flow) = found[DOMAIN ids]
  BY DEF Leads, FoldLeft, MapThenFoldSet, By
<1>. HIDE DEF ids, n
<1>4. \E g : g = Body(g)
  <2>1. PICK it : FoldsTo(it, V, flow.edges, n, Step)
    <3>. HIDE DEF Step, V
    <3>. QED
      BY <1>1, <1>2, FoldIsThere DEF V
  <2>2. ASSUME NEW s \in SUBSET (1..n), s # {} PROVE it[s] = By(it[s \ {Max(s)}], ids[Max(s)])
    <3>1. Max(s) \in 1..n /\ it[s \ {Max(s)}] \in V
      BY <1>1, <2>1, <2>2, LastPlace DEF FoldsTo
    <3>. QED
      BY <1>1, <2>1, <2>2, <3>1 DEF FoldsTo
  <2>3. it = Body(it)
    BY <1>1, <2>1, <2>2 DEF FoldsTo
  <2>. QED
    BY <2>3
<1>5. found = Body(found)
  BY <1>4
<1>. HIDE DEF found
<1>6. found[{}] = flow.edges
  BY <1>1, <1>5
<1>7. ASSUME NEW s \in SUBSET (1..n), s # {}, found[s \ {Max(s)}] \in V
      PROVE  found[s] = Step[Max(s)][found[s \ {Max(s)}]]
  <2>1. Max(s) \in 1..n
    BY <1>1, <1>7, LastPlace
  <2>2. found[s] = By(found[s \ {Max(s)}], ids[Max(s)])
    BY <1>1, <1>5, <1>7
  <2>. QED
    BY <1>1, <1>7, <2>1, <2>2
<1>8. PICK r : StepsTo(r, V, flow.edges, n, Step) /\ r[n] = found[1..n]
  <2>1. flow.edges \in V
    OBVIOUS
  <2>. HIDE DEF Step, V
  <2>2. FoldsFrom(found, V, flow.edges, n, Step)
    BY <1>6, <1>7 DEF FoldsFrom
  <2>3. n \in Nat /\ Step \in [1..n -> [V -> V]]
    BY <1>1, <1>2
  <2>4. GoesTo(found[1..n], V, flow.edges, n, Step)
    BY <2>1, <2>2, <2>3, FoldGoesOn
  <2>. QED
    BY <2>4 DEF GoesTo
<1>9. ASSUME NEW k \in 1..n PROVE r[k] = By(r[k - 1], k)
  <2>1. k - 1 \in 0..n
    BY <1>1
  <2>. QED
    BY <1>8, <2>1 DEF StepsTo
<1>. QED
  BY <1>1, <1>3, <1>8, <1>9 DEF StepsTo, n

\* What leads from section to section is the least that has the arrows and goes on.
LEMMA LeadsIsClosure ==
  ASSUME NEW form, Len(form) \in Nat, DOMAIN form = 1..Len(form), NEW flow, flow.edges \in SUBSET (Nat \X Nat)
  PROVE  /\ flow.edges \subseteq Leads(form, flow)
         /\ \A a, c : \A b \in 1..Len(form) :
              <<a, b>> \in Leads(form, flow) /\ <<b, c>> \in Leads(form, flow) => <<a, c>> \in Leads(form, flow)
         /\ \A R : flow.edges \subseteq R /\ Transitive(R) => Leads(form, flow) \subseteq R
<1>. DEFINE n == Len(form)
            E == flow.edges
            leads == Leads(form, flow)
            GoOn(P, k) == \A a, c : \A b \in 1..k : <<a, b>> \in P /\ <<b, c>> \in P => <<a, c>> \in P
<1>1. PICK r : /\ r \in [0..n -> SUBSET (Nat \X Nat)] /\ r[0] = E
               /\ \A k \in 1..n : r[k] = By(r[k - 1], k)
               /\ r[n] = leads
  BY LeadsFolds
<1>. DEFINE S == {k \in Nat : k <= n => E \subseteq r[k] /\ GoOn(r[k], k)}
<1>. HIDE DEF E, leads, n
<1>2. n \in Nat
  BY DEF n
<1>3. 0 \in S
  BY <1>1
<1>4. ASSUME NEW k \in Nat, k \in S PROVE k + 1 \in S
  <2>. SUFFICES ASSUME k + 1 <= n PROVE E \subseteq r[k + 1] /\ GoOn(r[k + 1], k + 1)
    OBVIOUS
  <2>. DEFINE P == r[k]
              Q == r[k + 1]
              v == k + 1
  <2>1. k \in 0..n /\ v \in 1..n /\ v - 1 = k /\ v \in Nat
    BY <1>2
  <2>2. P \in SUBSET (Nat \X Nat) /\ Q = By(P, v) /\ E \subseteq P /\ GoOn(P, k)
    <3>1. k <= n
      BY <1>2
    <3>2. E \subseteq r[k] /\ GoOn(r[k], k)
      BY <1>4, <3>1
    <3>. QED
      BY <1>1, <2>1, <3>2
  <2>3. \A a, b : <<a, b>> \in Q <=> <<a, b>> \in P \/ (<<a, v>> \in P /\ <<v, b>> \in P)
    <3>. HIDE DEF P, Q, v
    <3>1. \A a, b : <<a, b>> \in By(P, v) <=> <<a, b>> \in P \/ (<<a, v>> \in P /\ <<v, b>> \in P)
      BY <2>1, <2>2, PairsBy
    <3>. QED
      BY <2>2, <3>1
  <2>4. E \subseteq Q
    BY <2>2 DEF By
  <2>5. \A b \in 1..v : b = v \/ b \in 1..k
    OBVIOUS
  <2>. HIDE DEF P, Q, v
  <2>6. GoOn(Q, v)
    <3>. SUFFICES ASSUME NEW a, NEW c, NEW b \in 1..v, <<a, b>> \in Q, <<b, c>> \in Q
                  PROVE  (<<a, v>> \in P /\ <<v, c>> \in P) \/ <<a, c>> \in P
      BY <2>3
    <3>1. CASE b = v
      BY <2>3, <3>1
    <3>2. CASE b \in 1..k
      <4>1. <<a, b>> \in P \/ (<<a, v>> \in P /\ <<v, b>> \in P)
        BY <2>3
      <4>2. <<b, c>> \in P \/ (<<b, v>> \in P /\ <<v, c>> \in P)
        BY <2>3
      <4>3. \A x, y : <<x, b>> \in P /\ <<b, y>> \in P => <<x, y>> \in P
        BY <2>2, <3>2
      <4>. QED
        BY <4>1, <4>2, <4>3
    <3>. QED
      BY <2>5, <3>1, <3>2
  <2>. QED
    BY <2>4, <2>6 DEF Q, v
<1>5. \A k \in Nat : k \in S
  <2>. HIDE DEF S
  <2>. QED
    BY <1>3, <1>4, Induction
<1>6. E \subseteq leads /\ GoOn(leads, n)
  <2>1. n \in S /\ n <= n
    BY <1>2, <1>5
  <2>. QED
    BY <1>1, <2>1
<1>7. ASSUME NEW R, E \subseteq R, Transitive(R) PROVE leads \subseteq R
  <2>. DEFINE T == {k \in Nat : k <= n => r[k] \subseteq R}
  <2>1. 0 \in T
    BY <1>1, <1>7
  <2>2. ASSUME NEW k \in Nat, k \in T PROVE k + 1 \in T
    <3>. SUFFICES ASSUME k + 1 <= n PROVE r[k + 1] \subseteq R
      OBVIOUS
    <3>1. k \in 0..n /\ k + 1 \in 1..n /\ k + 1 \in 0..n /\ (k + 1) - 1 = k /\ k <= n
      BY <1>2
    <3>2. r[k] \subseteq R /\ r[k + 1] = By(r[k], k + 1) /\ r[k] \in SUBSET (Nat \X Nat) /\ r[k + 1] \in SUBSET (Nat \X Nat)
      BY <1>1, <2>2, <3>1
    <3>. DEFINE P == r[k]
                Q == r[k + 1]
                v == k + 1
    <3>3. P \subseteq R /\ Q = By(P, v) /\ P \in SUBSET (Nat \X Nat) /\ Q \in SUBSET (Nat \X Nat) /\ v \in Nat
      BY <3>2
    <3>. HIDE DEF P, Q, v
    <3>4. \A a, b : <<a, b>> \in By(P, v) <=> <<a, b>> \in P \/ (<<a, v>> \in P /\ <<v, b>> \in P)
      BY <3>3, PairsBy
    <3>5. \A a, b : <<a, b>> \in Q => <<a, b>> \in R
      <4>. SUFFICES ASSUME NEW a, NEW b, <<a, b>> \in Q PROVE <<a, b>> \in R
        OBVIOUS
      <4>1. <<a, b>> \in P \/ (<<a, v>> \in P /\ <<v, b>> \in P)
        BY <3>3, <3>4
      <4>2. <<a, b>> \in R \/ (<<a, v>> \in R /\ <<v, b>> \in R)
        BY <3>3, <4>1
      <4>. QED
        BY <1>7, <4>2 DEF Transitive
    <3>6. \A p \in Q : p = <<p[1], p[2]>>
      BY <3>3
    <3>7. Q \subseteq R
      BY <3>5, <3>6
    <3>. QED
      BY <3>7 DEF Q
  <2>3. \A k \in Nat : k \in T
    <3>. HIDE DEF T
    <3>. QED
      BY <2>1, <2>2, Induction
  <2>. QED
    BY <1>1, <1>2, <2>3
<1>. QED
  BY <1>6, <1>7 DEF E, leads, n

\* What a function defined step by step on the numbers is.
IteratesTo(r, n, base, Step) ==
  r[0] = base /\ \A k \in 1..n : r[k] = Step[r[k - 1]]

Iterates(it, V, base, Step) ==
  it \in [Nat -> V] /\ it[0] = base /\ \A n \in Nat : it[n + 1] = Step[it[n]]

LEMMA IterationIsThere ==
  ASSUME NEW V, NEW base \in V, NEW Step \in [V -> V]
  PROVE  \E it : Iterates(it, V, base, Step)
<1>. DEFINE S == {n \in Nat : \E r \in [0..n -> V] : IteratesTo(r, n, base, Step)}
<1>1. 0 \in S
  <2>1. [k \in 0..0 |-> base] \in [0..0 -> V] /\ IteratesTo([k \in 0..0 |-> base], 0, base, Step)
    BY DEF IteratesTo
  <2>. QED
    BY <2>1
<1>2. ASSUME NEW n \in Nat, n \in S PROVE n + 1 \in S
  <2>1. PICK r \in [0..n -> V] : IteratesTo(r, n, base, Step)
    BY <1>2
  <2>. DEFINE q == [k \in 0..(n + 1) |-> IF k = n + 1 THEN Step[r[n]] ELSE r[k]]
  <2>2. Step[r[n]] \in V
    OBVIOUS
  <2>3. q \in [0..(n + 1) -> V]
    BY <2>2
  <2>4. q[0] = base /\ \A k \in 1..(n + 1) : q[k] = Step[q[k - 1]]
    BY <2>1 DEF IteratesTo
  <2>5. IteratesTo(q, n + 1, base, Step)
    <3>. HIDE DEF q
    <3>. QED
      BY <2>4 DEF IteratesTo
  <2>. QED
    BY <2>3, <2>5
<1>3. \A n \in Nat : n \in S
  <2>. HIDE DEF S
  <2>. QED
    BY <1>1, <1>2, Induction
<1>4. ASSUME NEW n \in Nat, NEW r, NEW q, IteratesTo(r, n, base, Step), IteratesTo(q, n + 1, base, Step)
      PROVE  r[n] = q[n]
  <2>. DEFINE T == {k \in Nat : k <= n => r[k] = q[k]}
  <2>1. 0 \in T
    BY <1>4 DEF IteratesTo
  <2>2. ASSUME NEW k \in Nat, k \in T PROVE k + 1 \in T
    <3>. SUFFICES ASSUME k + 1 <= n PROVE r[k + 1] = q[k + 1]
      OBVIOUS
    <3>1. k + 1 \in 1..n /\ k + 1 \in 1..(n + 1) /\ (k + 1) - 1 = k /\ r[k] = q[k]
      BY <2>2
    <3>2. r[k + 1] = Step[r[k]] /\ q[k + 1] = Step[q[k]]
      BY <1>4, <3>1 DEF IteratesTo
    <3>. QED
      BY <3>1, <3>2
  <2>3. n \in T
    <3>. HIDE DEF T
    <3>. QED
      BY <2>1, <2>2, Induction
  <2>. QED
    BY <2>3
<1>. DEFINE Of(n) == CHOOSE r \in [0..n -> V] : IteratesTo(r, n, base, Step)
            it == [n \in Nat |-> Of(n)[n]]
<1>5. \A n \in Nat : Of(n) \in [0..n -> V] /\ IteratesTo(Of(n), n, base, Step)
  BY <1>3
<1>. HIDE DEF Of
<1>6. it \in [Nat -> V]
  <2>1. \A n \in Nat : n \in 0..n /\ Of(n)[n] \in V
    BY <1>5
  <2>. QED
    BY <2>1
<1>7. it[0] = base
  BY <1>5 DEF IteratesTo
<1>8. ASSUME NEW n \in Nat PROVE it[n + 1] = Step[it[n]]
  <2>1. n + 1 \in Nat /\ n + 1 \in 1..(n + 1) /\ (n + 1) - 1 = n
    OBVIOUS
  <2>2. IteratesTo(Of(n), n, base, Step) /\ IteratesTo(Of(n + 1), n + 1, base, Step)
    BY <1>5, <2>1
  <2>3. Of(n + 1)[n + 1] = Step[Of(n + 1)[n]]
    BY <2>1, <2>2 DEF IteratesTo
  <2>4. Of(n)[n] = Of(n + 1)[n]
    BY <1>4, <2>2
  <2>. QED
    BY <2>1, <2>3, <2>4
<1>. QED
  BY <1>6, <1>7, <1>8 DEF Iterates

\* What is seen of the sections, and one step further along the arrows.
SpreadFrom(edges, seen) == seen \cup {e[2] : e \in {d \in edges : d[1] \in seen}}
IsClosed(edges, S) == \A e \in edges : e[1] \in S => e[2] \in S

LEMMA SpreadGoesOn ==
  ASSUME NEW n \in Nat, NEW edges \in SUBSET ((1..n) \X (1..n)), n >= 1
  PROVE  \E r \in [Nat -> SUBSET (1..n)] :
           /\ r[0] = {1} /\ \A k \in Nat : r[k + 1] = SpreadFrom(edges, r[k])
           /\ \A k \in Nat : Spread(edges, k) = r[k]
<1>. DEFINE V == SUBSET (1..n)
            Step == [seen \in V |-> SpreadFrom(edges, seen)]
            Body(g) == [k \in Nat |-> IF k = 0 THEN {1} ELSE SpreadFrom(edges, g[k - 1])]
            reach == CHOOSE g : g = Body(g)
<1>1. \A k \in Nat : Spread(edges, k) = reach[k]
  BY DEF Spread, SpreadFrom
<1>2. {1} \in V /\ Step \in [V -> V]
  <2>1. \A e \in edges : e[2] \in 1..n
    OBVIOUS
  <2>2. \A seen \in V : SpreadFrom(edges, seen) \in V
    BY <2>1 DEF SpreadFrom
  <2>. QED
    BY <2>2
<1>3. PICK it \in [Nat -> V] : it[0] = {1} /\ \A k \in Nat : it[k + 1] = Step[it[k]]
  <2>. HIDE DEF Step, V
  <2>1. \E it : Iterates(it, V, {1}, Step)
    BY <1>2, IterationIsThere
  <2>. QED
    BY <2>1 DEF Iterates
<1>4. \A k \in Nat : it[k + 1] = SpreadFrom(edges, it[k])
  BY <1>3
<1>5. it = Body(it)
  <2>1. ASSUME NEW k \in Nat PROVE it[k] = Body(it)[k]
    <3>1. CASE k = 0
      BY <1>3, <3>1
    <3>2. CASE k # 0
      <4>1. k - 1 \in Nat /\ (k - 1) + 1 = k
        BY <3>2
      <4>2. it[k] = SpreadFrom(edges, it[k - 1])
        BY <1>4, <4>1
      <4>. QED
        BY <3>2, <4>2
    <3>. QED
      BY <3>1, <3>2
  <2>2. Body(it) \in [Nat -> {Body(it)[k] : k \in Nat}]
    OBVIOUS
  <2>. QED
    BY <1>3, <2>1, <2>2
<1>6. reach = Body(reach)
  BY <1>5
<1>. DEFINE T == {k \in Nat : reach[k] = it[k]}
<1>. HIDE DEF reach
<1>7. \A k \in Nat : reach[k] = it[k]
  <2>1. reach[0] = it[0]
    BY <1>3, <1>6
  <2>2. ASSUME NEW k \in Nat, k \in T PROVE k + 1 \in T
    <3>1. reach[k] = it[k] /\ k + 1 \in Nat /\ k + 1 # 0 /\ (k + 1) - 1 = k
      BY <2>2
    <3>2. reach[k + 1] = SpreadFrom(edges, reach[k])
      BY <1>6, <3>1
    <3>. QED
      BY <1>4, <3>1, <3>2
  <2>3. \A k \in Nat : k \in T
    <3>1. 0 \in T
      BY <2>1
    <3>. HIDE DEF T
    <3>. QED
      BY <2>2, <3>1, Induction
  <2>. QED
    BY <2>3
<1>8. \A k \in Nat : Spread(edges, k) = it[k]
  BY <1>1, <1>7
<1>. QED
  BY <1>3, <1>4, <1>8

\* Breadth first finds the least set with the start that the arrows do not leave.
LEMMA SpreadIsClosure ==
  ASSUME NEW n \in Nat, NEW edges \in SUBSET ((1..n) \X (1..n)), n >= 1
  PROVE  /\ Spread(edges, n) \in SUBSET (1..n) /\ 1 \in Spread(edges, n) /\ IsClosed(edges, Spread(edges, n))
         /\ \A S : 1 \in S /\ IsClosed(edges, S) => Spread(edges, n) \subseteq S
<1>1. PICK r \in [Nat -> SUBSET (1..n)] :
        /\ r[0] = {1} /\ \A k \in Nat : r[k + 1] = SpreadFrom(edges, r[k])
        /\ \A k \in Nat : Spread(edges, k) = r[k]
  BY SpreadGoesOn
<1>2. \A k \in Nat : r[k] \in SUBSET (1..n)
  OBVIOUS
<1>3. \A k \in Nat : IsFiniteSet(r[k]) /\ Cardinality(r[k]) \in Nat /\ Cardinality(r[k]) <= n
  <2>1. IsFiniteSet(1..n) /\ Cardinality(1..n) = n
    BY FS_Interval
  <2>. QED
    BY <1>2, <2>1, FS_Subset, FS_CardinalityType
<1>. DEFINE S == {k \in Nat : IsClosed(edges, r[k]) \/ Cardinality(r[k]) >= k + 1}
            T == {k \in Nat : 1 \in r[k]}
<1>4. 0 \in S /\ 0 \in T
  <2>1. r[0] = {1} /\ Cardinality({1}) = 1
    BY <1>1, FS_Singleton
  <2>2. Cardinality(r[0]) >= 0 + 1 /\ 1 \in r[0]
    BY <2>1
  <2>. QED
    BY <2>2
<1>5. ASSUME NEW k \in Nat, k \in S PROVE k + 1 \in S
  <2>1. r[k + 1] = SpreadFrom(edges, r[k])
    BY <1>1
  <2>2. CASE IsClosed(edges, r[k])
    <3>1. r[k + 1] = r[k]
      BY <2>1, <2>2 DEF SpreadFrom, IsClosed
    <3>. QED
      BY <2>2, <3>1
  <2>3. CASE ~IsClosed(edges, r[k])
    <3>1. PICK e \in edges : e[1] \in r[k] /\ e[2] \notin r[k]
      BY <2>3 DEF IsClosed
    <3>2. r[k] \subseteq r[k + 1] /\ e[2] \in r[k + 1]
      BY <2>1, <3>1 DEF SpreadFrom
    <3>3. r[k] # r[k + 1]
      BY <3>1, <3>2
    <3>4. k + 1 \in Nat
      OBVIOUS
    <3>5. Cardinality(r[k]) < Cardinality(r[k + 1])
      <4>1. IsFiniteSet(r[k + 1])
        BY <1>3, <3>4
      <4>2. Cardinality(r[k]) <= Cardinality(r[k + 1]) /\ (Cardinality(r[k]) = Cardinality(r[k + 1]) => r[k] = r[k + 1])
        BY <3>2, <4>1, FS_Subset
      <4>3. Cardinality(r[k]) # Cardinality(r[k + 1])
        BY <3>3, <4>2
      <4>. QED
        BY <1>3, <3>4, <4>2, <4>3
    <3>6. Cardinality(r[k]) >= k + 1
      BY <1>5, <2>3
    <3>7. Cardinality(r[k + 1]) >= (k + 1) + 1
      BY <1>3, <3>4, <3>5, <3>6
    <3>. QED
      BY <3>4, <3>7
  <2>. QED
    BY <2>2, <2>3
<1>6. ASSUME NEW k \in Nat, k \in T PROVE k + 1 \in T
  BY <1>1, <1>6 DEF SpreadFrom
<1>7. n \in S /\ n \in T
  <2>. HIDE DEF S, T
  <2>1. \A k \in Nat : k \in S
    BY <1>4, <1>5, Induction
  <2>2. \A k \in Nat : k \in T
    BY <1>4, <1>6, Induction
  <2>. QED
    BY <2>1, <2>2
<1>8. IsClosed(edges, r[n]) /\ 1 \in r[n]
  <2>1. ~(Cardinality(r[n]) >= n + 1)
    BY <1>3
  <2>. QED
    BY <1>7, <2>1
<1>9. ASSUME NEW U, 1 \in U, IsClosed(edges, U) PROVE r[n] \subseteq U
  <2>. DEFINE W == {k \in Nat : r[k] \subseteq U}
  <2>1. 0 \in W
    BY <1>1, <1>9
  <2>2. ASSUME NEW k \in Nat, k \in W PROVE k + 1 \in W
    BY <1>1, <1>9, <2>2 DEF SpreadFrom, IsClosed
  <2>3. n \in W
    <3>. HIDE DEF W
    <3>. QED
      BY <2>1, <2>2, Induction
  <2>. QED
    BY <2>3
<1>. QED
  BY <1>1, <1>2, <1>8, <1>9

\* A map as parse_form_flow makes it: arrows from sections, and the marks.
IsMap(form, flow) ==
  /\ Len(form) \in Nat \ {0} /\ DOMAIN form = 1..Len(form)
  /\ flow.edges \in SUBSET ((1..Len(form)) \X (1..(Len(form) + 1)))
  /\ flow.unreachable = Sections(form) \ Reached(form, flow.edges)

Inner(form, edges) == {e \in edges : e[2] # Submit(form)}

LEMMA InnerArrows ==
  ASSUME NEW form, NEW flow, IsMap(form, flow)
  PROVE  Inner(form, flow.edges) \in SUBSET ((1..Len(form)) \X (1..Len(form)))
<1>. DEFINE n == Len(form)
<1>1. n \in Nat \ {0} /\ flow.edges \in SUBSET ((1..n) \X (1..(n + 1)))
  BY DEF IsMap
<1>. SUFFICES ASSUME NEW e \in flow.edges, e[2] # n + 1 PROVE e \in (1..n) \X (1..n)
  BY DEF Inner, Submit
<1>. HIDE DEF n
<1>2. e = <<e[1], e[2]>> /\ e[1] \in 1..n /\ e[2] \in 1..(n + 1)
  BY <1>1
<1>3. e[2] \in 1..n
  BY <1>1, <1>2
<1>. QED
  BY <1>2, <1>3

\* What is reached is the start and what the arrows lead to from it.
LEMMA ReachedIsLedTo ==
  ASSUME NEW form, NEW flow, IsMap(form, flow)
  PROVE  /\ Reached(form, flow.edges) \in SUBSET (1..Len(form)) /\ 1 \in Reached(form, flow.edges)
         /\ IsClosed(Inner(form, flow.edges), Reached(form, flow.edges))
         /\ \A s \in 1..Len(form) :
              s \in Reached(form, flow.edges) <=> s = 1 \/ <<1, s>> \in Leads(form, flow)
<1>. DEFINE n == Len(form)
            inner == Inner(form, flow.edges)
            seen == Reached(form, flow.edges)
            leads == Leads(form, flow)
<1>1. n \in Nat \ {0} /\ inner \in SUBSET ((1..n) \X (1..n)) /\ seen = Spread(inner, n)
  BY InnerArrows DEF IsMap, Reached, Inner
<1>2. /\ seen \in SUBSET (1..n) /\ 1 \in seen /\ IsClosed(inner, seen)
      /\ \A S : 1 \in S /\ IsClosed(inner, S) => seen \subseteq S
  <2>. HIDE DEF inner, n
  <2>1. n \in Nat /\ n >= 1
    BY <1>1
  <2>. QED
    BY <1>1, <2>1, SpreadIsClosure
<1>3. /\ flow.edges \subseteq leads
      /\ \A a, c : \A b \in 1..n : <<a, b>> \in leads /\ <<b, c>> \in leads => <<a, c>> \in leads
      /\ \A R : flow.edges \subseteq R /\ Transitive(R) => leads \subseteq R
  <2>1. n \in Nat /\ DOMAIN form = 1..n /\ flow.edges \in SUBSET (Nat \X Nat)
    BY DEF IsMap
  <2>. QED
    BY <2>1, LeadsIsClosure
<1>4. ASSUME NEW e \in inner PROVE e \in flow.edges /\ e[1] \in 1..n /\ e[2] \in 1..n /\ e = <<e[1], e[2]>>
  BY <1>1 DEF Inner
<1>. HIDE DEF inner, leads, seen, n
<1>5. ASSUME NEW s \in 1..n, s \in seen, s # 1 PROVE <<1, s>> \in leads
  <2>. DEFINE S == {t \in 1..n : t = 1 \/ <<1, t>> \in leads}
  <2>1. 1 \in S
    BY <1>1
  <2>2. IsClosed(inner, S)
    <3>. SUFFICES ASSUME NEW e \in inner, e[1] \in S PROVE e[2] \in S
      BY DEF IsClosed
    <3>1. e[1] \in 1..n /\ e[2] \in 1..n /\ <<e[1], e[2]>> \in leads /\ (e[1] = 1 \/ <<1, e[1]>> \in leads)
      BY <1>3, <1>4
    <3>2. <<1, e[2]>> \in leads
      BY <1>3, <3>1
    <3>. QED
      BY <3>1, <3>2
  <2>. QED
    BY <1>2, <1>5, <2>1, <2>2
<1>6. ASSUME NEW s \in 1..n, <<1, s>> \in leads PROVE s \in seen
  <2>. DEFINE R == {p \in (1..n) \X (1..(n + 1)) : p[1] \in seen => p[2] \in seen \cup {n + 1}}
  <2>1. flow.edges \subseteq R
    <3>. SUFFICES ASSUME NEW e \in flow.edges PROVE e \in R
      OBVIOUS
    <3>1. e \in (1..n) \X (1..(n + 1))
      BY DEF IsMap, n
    <3>2. ASSUME e[1] \in seen, e[2] # n + 1 PROVE e[2] \in seen
      <4>1. e \in inner
        BY <3>2 DEF inner, Inner, Submit, n
      <4>. QED
        BY <1>2, <3>2, <4>1 DEF IsClosed
    <3>. QED
      BY <3>1, <3>2
  <2>2. Transitive(R)
    <3>. SUFFICES ASSUME NEW a, NEW b, NEW c, <<a, b>> \in R, <<b, c>> \in R PROVE <<a, c>> \in R
      BY DEF Transitive
    <3>1. a \in 1..n /\ b \in 1..n /\ c \in 1..(n + 1) /\ b # n + 1
      BY <1>1
    <3>2. (a \in seen => b \in seen \cup {n + 1}) /\ (b \in seen => c \in seen \cup {n + 1})
      OBVIOUS
    <3>. QED
      BY <3>1, <3>2
  <2>3. <<1, s>> \in R
    BY <1>3, <1>6, <2>1, <2>2
  <2>4. s \in seen \cup {n + 1}
    BY <1>2, <2>3
  <2>. QED
    BY <1>1, <2>4
<1>. QED
  BY <1>2, <1>5, <1>6 DEF inner, leads, seen, n

\* The sections that no path leads to are marked, and no others.
LEMMA MarksAreTrue ==
  ASSUME NEW form, NEW flow, IsMap(form, flow)
  PROVE  flow.unreachable = {s \in Sections(form) \ {1} : <<1, s>> \notin Leads(form, flow)}
<1>1. flow.unreachable = Sections(form) \ Reached(form, flow.edges) /\ Sections(form) = 1..Len(form)
  BY DEF IsMap, Sections
<1>2. 1 \in Reached(form, flow.edges)
  BY ReachedIsLedTo
<1>3. \A s \in 1..Len(form) : s \in Reached(form, flow.edges) <=> s = 1 \/ <<1, s>> \in Leads(form, flow)
  BY ReachedIsLedTo
<1>. QED
  BY <1>1, <1>2, <1>3

\* Where nothing leads back, everybody comes to the end: of those who do not, the one
\* with the least before him goes on to one with less.
LEMMA EndIsReached ==
  ASSUME NEW form, NEW flow, IsMap(form, flow), GoesOn(form, flow),
         \A s \in Sections(form) : <<s, s>> \notin Leads(form, flow)
  PROVE  \A s \in Sections(form) \ flow.unreachable : <<s, Submit(form)>> \in Leads(form, flow)
<1>. DEFINE n == Len(form)
            leads == Leads(form, flow)
            seen == Reached(form, flow.edges)
            Beyond(s) == {t \in 1..n : <<s, t>> \in leads}
            stuck == {s \in seen : <<s, n + 1>> \notin leads}
            sizes == {Cardinality(Beyond(s)) : s \in stuck}
<1>1. n \in Nat \ {0} /\ Sections(form) = 1..n /\ Submit(form) = n + 1
  BY DEF IsMap, Sections, Submit
<1>2. /\ flow.edges \subseteq leads
      /\ \A a, c : \A b \in 1..n : <<a, b>> \in leads /\ <<b, c>> \in leads => <<a, c>> \in leads
  <2>1. n \in Nat /\ DOMAIN form = 1..n /\ flow.edges \in SUBSET (Nat \X Nat)
    BY DEF IsMap
  <2>. QED
    BY <2>1, LeadsIsClosure
<1>3. seen \in SUBSET (1..n) /\ IsClosed(Inner(form, flow.edges), seen) /\ Sections(form) \ flow.unreachable = seen
  BY ReachedIsLedTo DEF IsMap, Sections
<1>. HIDE DEF leads, seen
<1>4. \A s : IsFiniteSet(Beyond(s)) /\ Cardinality(Beyond(s)) \in Nat
  <2>1. IsFiniteSet(1..n)
    BY <1>1, FS_Interval
  <2>. QED
    BY <2>1, FS_Subset, FS_CardinalityType
<1>. HIDE DEF n
<1>5. stuck = {}
  <2>. SUFFICES ASSUME stuck # {} PROVE FALSE
    OBVIOUS
  <2>1. sizes \in SUBSET Nat /\ sizes # {}
    BY <1>4
  <2>2. PICK s \in stuck : \A t \in stuck : Cardinality(Beyond(s)) <= Cardinality(Beyond(t))
    <3>1. PICK least \in sizes : \A m \in sizes : least <= m
      <4>. HIDE DEF sizes
      <4>. QED
        BY <2>1, FirstPlace
    <3>. HIDE DEF Beyond
    <3>2. PICK s \in stuck : least = Cardinality(Beyond(s))
      OBVIOUS
    <3>3. \A t \in stuck : Cardinality(Beyond(t)) \in sizes
      OBVIOUS
    <3>4. \A t \in stuck : least <= Cardinality(Beyond(t))
      BY <3>1, <3>3
    <3>. QED
      BY <3>2, <3>4
  <2>3. PICK t \in 1..(n + 1) : <<s, t>> \in flow.edges
    BY <1>1, <1>3 DEF GoesOn
  <2>4. t # n + 1
    BY <1>2, <2>3
  <2>5. s \in 1..n /\ t \in 1..n
    BY <1>1, <1>3, <2>4
  <2>6. t \in stuck
    <3>1. <<s, t>> \in Inner(form, flow.edges)
      BY <1>1, <2>3, <2>4 DEF Inner
    <3>2. t \in seen
      BY <1>3, <3>1 DEF IsClosed
    <3>3. <<t, n + 1>> \notin leads
      BY <1>2, <2>3, <2>5
    <3>. QED
      BY <3>2, <3>3
  <2>7. Beyond(t) \subseteq Beyond(s) /\ t \in Beyond(s) /\ t \notin Beyond(t)
    BY <1>1, <1>2, <2>3, <2>5 DEF leads
  <2>. HIDE DEF Beyond
  <2>8. Cardinality(Beyond(t)) <= Cardinality(Beyond(s)) /\ Cardinality(Beyond(t)) # Cardinality(Beyond(s))
    BY <1>4, <2>7, FS_Subset
  <2>9. Cardinality(Beyond(s)) <= Cardinality(Beyond(t))
    BY <2>2, <2>6
  <2>. QED
    BY <1>4, <2>8, <2>9
<1>. QED
  BY <1>1, <1>3, <1>5 DEF leads

-----------------------------------------------------------------------------
(* The search for a way back, depth first.                                  *)

\* r are what is found after each of the sections of a sequence.
Turns(r, visit, sections, visiting, found) ==
  /\ r \in [0..Len(sections) -> Founds] /\ r[0] = found
  /\ \A k \in 1..Len(sections) :
       r[k] = visit[[of |-> sections[k], visiting |-> visiting, found |-> r[k - 1]]]

FindsInTurn(visit, sections, visiting) ==
  \A i \in 1..Len(sections), f \in Founds :
    visit[[of |-> sections[i], visiting |-> visiting, found |-> f]] \in Founds

LEMMA TurnsAreTaken ==
  ASSUME NEW sections \in Seq(Nat), NEW visiting \in SUBSET Nat, NEW start \in Founds,
         NEW visit, FindsInTurn(visit, sections, visiting)
  PROVE  \E r : /\ Turns(r, visit, sections, visiting, start)
                /\ r[Len(sections)] = InTurn(visit, sections, visiting, start)
<1>. DEFINE n == Len(sections)
            V == Founds
            Found(i, f) == visit[[of |-> sections[i], visiting |-> visiting, found |-> f]]
            Step == [i \in 1..n |-> [f \in V |-> Found(i, f)]]
            Body(g) == [s \in SUBSET DOMAIN sections |->
                          IF s = {} THEN start
                          ELSE visit[[of |-> sections[Max(s)], visiting |-> visiting, found |-> g[s \ {Max(s)}]]]]
            found == CHOOSE g : g = Body(g)
<1>1. n \in Nat /\ DOMAIN sections = 1..n /\ \A i \in 1..n : sections[i] \in Nat
  OBVIOUS
<1>2. Step \in [1..n -> [V -> V]]
  <2>1. ASSUME NEW i \in 1..n, NEW f \in V PROVE Found(i, f) \in V
    BY DEF FindsInTurn
  <2>. HIDE DEF Found, V, n
  <2>. QED
    BY <2>1
<1>3. InTurn(visit, sections, visiting, start) = found[DOMAIN sections]
  BY DEF InTurn, FoldLeft, MapThenFoldSet
<1>. HIDE DEF n
<1>4. \E g : g = Body(g)
  <2>1. PICK it : FoldsTo(it, V, start, n, Step)
    <3>1. start \in V
      OBVIOUS
    <3>. HIDE DEF Step, V
    <3>. QED
      BY <1>1, <1>2, <3>1, FoldIsThere
  <2>2. ASSUME NEW s \in SUBSET (1..n), s # {}
        PROVE  it[s] = visit[[of |-> sections[Max(s)], visiting |-> visiting, found |-> it[s \ {Max(s)}]]]
    <3>1. Max(s) \in 1..n /\ it[s \ {Max(s)}] \in V
      BY <1>1, <2>1, <2>2, LastPlace DEF FoldsTo
    <3>. QED
      BY <1>1, <2>1, <2>2, <3>1 DEF FoldsTo
  <2>3. it = Body(it)
    BY <1>1, <2>1, <2>2 DEF FoldsTo
  <2>. QED
    BY <2>3
<1>5. found = Body(found)
  BY <1>4
<1>. HIDE DEF found
<1>6. found[{}] = start
  BY <1>1, <1>5
<1>7. ASSUME NEW s \in SUBSET (1..n), s # {}, found[s \ {Max(s)}] \in V
      PROVE  found[s] = Step[Max(s)][found[s \ {Max(s)}]]
  <2>1. Max(s) \in 1..n
    BY <1>1, <1>7, LastPlace
  <2>2. found[s] = Found(Max(s), found[s \ {Max(s)}])
    BY <1>1, <1>5, <1>7
  <2>. QED
    BY <1>1, <1>7, <2>1, <2>2
<1>8. PICK r : StepsTo(r, V, start, n, Step) /\ r[n] = found[1..n]
  <2>1. start \in V
    OBVIOUS
  <2>. HIDE DEF Step, V
  <2>2. FoldsFrom(found, V, start, n, Step)
    BY <1>6, <1>7 DEF FoldsFrom
  <2>3. n \in Nat /\ Step \in [1..n -> [V -> V]]
    BY <1>1, <1>2
  <2>4. GoesTo(found[1..n], V, start, n, Step)
    BY <2>1, <2>2, <2>3, FoldGoesOn
  <2>. QED
    BY <2>4 DEF GoesTo
<1>9. ASSUME NEW k \in 1..n PROVE r[k] = Found(k, r[k - 1])
  <2>1. k - 1 \in 0..n
    BY <1>1
  <2>. QED
    BY <1>8, <2>1 DEF StepsTo
<1>10. Turns(r, visit, sections, visiting, start)
  BY <1>8, <1>9 DEF StepsTo, Turns, n
<1>. QED
  BY <1>1, <1>3, <1>8, <1>10 DEF n

\* What is found depends on the visits that are made only.
LEMMA SameTurns ==
  ASSUME NEW sections \in Seq(Nat), NEW visiting \in SUBSET Nat, NEW start \in Founds,
         NEW visit, FindsInTurn(visit, sections, visiting), NEW other,
         \A i \in 1..Len(sections) : \A f \in Founds :
           visit[[of |-> sections[i], visiting |-> visiting, found |-> f]]
             = other[[of |-> sections[i], visiting |-> visiting, found |-> f]]
  PROVE  InTurn(visit, sections, visiting, start) = InTurn(other, sections, visiting, start)
<1>1. PICK r : /\ Turns(r, visit, sections, visiting, start)
               /\ r[Len(sections)] = InTurn(visit, sections, visiting, start)
  BY TurnsAreTaken
<1>2. PICK q : /\ Turns(q, other, sections, visiting, start)
               /\ q[Len(sections)] = InTurn(other, sections, visiting, start)
  <2>1. FindsInTurn(other, sections, visiting)
    BY DEF FindsInTurn
  <2>. QED
    BY <2>1, TurnsAreTaken
<1>. DEFINE n == Len(sections)
            S == {k \in Nat : k <= n => r[k] = q[k]}
<1>3. n \in Nat
  OBVIOUS
<1>4. 0 \in S
  BY <1>1, <1>2 DEF Turns
<1>5. ASSUME NEW k \in Nat, k \in S PROVE k + 1 \in S
  <2>. SUFFICES ASSUME k + 1 <= n PROVE r[k + 1] = q[k + 1]
    OBVIOUS
  <2>1. k + 1 \in 1..n /\ (k + 1) - 1 = k /\ k \in 0..n /\ r[k] = q[k]
    BY <1>3, <1>5
  <2>2. /\ r[k + 1] = visit[[of |-> sections[k + 1], visiting |-> visiting, found |-> r[k]]]
        /\ q[k + 1] = other[[of |-> sections[k + 1], visiting |-> visiting, found |-> q[k]]]
        /\ r[k] \in Founds
    BY <1>1, <1>2, <2>1 DEF Turns
  <2>. QED
    BY <2>1, <2>2
<1>6. n \in S
  <2>. HIDE DEF S
  <2>. QED
    BY <1>3, <1>4, <1>5, Induction
<1>. QED
  BY <1>1, <1>2, <1>3, <1>6

\* The sequence of a set has all that the set has.
LEMMA SequenceOfSet ==
  ASSUME NEW S, IsFiniteSet(S)
  PROVE  /\ SetToSeq(S) \in Seq(S)
         /\ \A x \in S : \E i \in 1..Len(SetToSeq(S)) : SetToSeq(S)[i] = x
<1>. DEFINE k == Cardinality(S)
<1>1. k \in Nat /\ ExistsBijection(1..k, S)
  BY FS_CardinalityType
<1>2. PICK f : f \in Bijection(1..k, S)
  BY <1>1 DEF ExistsBijection
<1>3. f \in [1..k -> S] /\ IsInjective(f)
  BY <1>2 DEF Bijection, Injection
<1>. DEFINE q == SetToSeq(S)
<1>4. q \in [1..k -> S] /\ IsInjective(q)
  BY <1>3 DEF SetToSeq
<1>. HIDE DEF q, k
<1>5. q \in Seq(S) /\ Len(q) = k
  BY <1>1, <1>4
<1>6. IsFiniteSet(1..k) /\ Cardinality(1..k) = k
  BY <1>1, FS_Interval
<1>7. q \in Surjection(1..k, S)
  <2>1. q \in Injection(1..k, S)
    BY <1>4 DEF Injection
  <2>2. Cardinality(1..k) = Cardinality(S)
    BY <1>6 DEF k
  <2>. QED
    BY <2>1, <2>2, FS_Injection
<1>. QED
  BY <1>5, <1>7 DEF Surjection, q

\* A visit, by way of visits.
VisitBy(visit, edges, v) ==
  IF v.found.cycle \/ v.of \in v.visiting THEN [v.found EXCEPT !.cycle = TRUE]
  ELSE IF v.of \in v.found.visited THEN v.found
  ELSE [InTurn(visit, SetToSeq(Targets(edges, v.of)), v.visiting \cup {v.of}, v.found)
          EXCEPT !.visited = @ \cup {v.of}]

LEMMA TargetsOf ==
  ASSUME NEW n \in Nat, NEW edges \in SUBSET ((1..n) \X (1..n)), NEW s
  PROVE  /\ Targets(edges, s) \in SUBSET (1..n) /\ (s \notin 1..n => Targets(edges, s) = {})
         /\ \A t : t \in Targets(edges, s) <=> <<s, t>> \in edges
         /\ SetToSeq(Targets(edges, s)) \in Seq(Targets(edges, s))
         /\ SetToSeq(Targets(edges, s)) \in Seq(Nat)
         /\ \A t \in Targets(edges, s) :
              \E i \in 1..Len(SetToSeq(Targets(edges, s))) : SetToSeq(Targets(edges, s))[i] = t
<1>. DEFINE T == Targets(edges, s)
<1>1. \A e \in edges : e = <<e[1], e[2]>> /\ e[1] \in 1..n /\ e[2] \in 1..n
  OBVIOUS
<1>2. T \in SUBSET (1..n) /\ (s \notin 1..n => T = {})
  BY <1>1 DEF Targets
<1>3. \A t : t \in T <=> <<s, t>> \in edges
  <2>. TAKE t
  <2>1. ASSUME t \in T PROVE <<s, t>> \in edges
    BY <1>1, <2>1 DEF Targets
  <2>2. ASSUME <<s, t>> \in edges PROVE t \in T
    <3>. DEFINE e == <<s, t>>
    <3>1. e \in {d \in edges : d[1] = s} /\ e[2] = t
      BY <2>2
    <3>. QED
      BY <3>1 DEF Targets
  <2>. QED
    BY <2>1, <2>2
<1>. HIDE DEF T
<1>4. IsFiniteSet(T)
  <2>1. IsFiniteSet(1..n)
    BY FS_Interval
  <2>. QED
    BY <1>2, <2>1, FS_Subset
<1>5. SetToSeq(T) \in Seq(T) /\ \A t \in T : \E i \in 1..Len(SetToSeq(T)) : SetToSeq(T)[i] = t
  BY <1>4, SequenceOfSet
<1>6. SetToSeq(T) \in Seq(Nat)
  <2>1. T \subseteq Nat
    BY <1>2
  <2>2. \A q \in Seq(T) : q \in Seq(Nat)
    BY <2>1, SeqMonotonic, Zenon
  <2>. QED
    BY <1>5, <2>2
<1>. QED
  BY <1>2, <1>3, <1>5, <1>6 DEF T

LEMMA VisitFinds ==
  ASSUME NEW n \in Nat, NEW edges \in SUBSET ((1..n) \X (1..n)), NEW visit \in [Visits -> Founds], NEW v \in Visits
  PROVE  VisitBy(visit, edges, v) \in Founds
<1>. DEFINE T == SetToSeq(Targets(edges, v.of))
            further == v.visiting \cup {v.of}
            below == InTurn(visit, T, further, v.found)
<1>1. v.of \in Nat /\ v.visiting \in SUBSET Nat /\ v.found \in Founds
  BY DEF Visits
<1>2. T \in Seq(Nat)
  BY TargetsOf
<1>. HIDE DEF T
<1>3. PICK r : Turns(r, visit, T, further, v.found) /\ r[Len(T)] = below
  <2>1. further \in SUBSET Nat
    BY <1>1
  <2>. HIDE DEF further
  <2>2. FindsInTurn(visit, T, further)
    <3>1. \A i \in 1..Len(T), f \in Founds : [of |-> T[i], visiting |-> further, found |-> f] \in Visits
      BY <1>2, <2>1 DEF Visits
    <3>. QED
      BY <3>1 DEF FindsInTurn
  <2>. QED
    BY <1>1, <1>2, <2>1, <2>2, TurnsAreTaken
<1>4. below \in Founds
  <2>1. Len(T) \in 0..Len(T)
    BY <1>2
  <2>. QED
    BY <1>3, <2>1 DEF Turns
<1>. HIDE DEF below, further
<1>5. [v.found EXCEPT !.cycle = TRUE] \in Founds /\ [below EXCEPT !.visited = @ \cup {v.of}] \in Founds
  BY <1>1, <1>4 DEF Founds
<1>. QED
  BY <1>1, <1>5 DEF VisitBy, below, further, T

\* What is still to be visited gets less with each visit.
Left(n, v) == Cardinality((1..n) \ v.visiting)

LEMMA LeftIsNumber ==
  ASSUME NEW n \in Nat, NEW v \in Visits
  PROVE  IsFiniteSet((1..n) \ v.visiting) /\ Left(n, v) \in Nat /\ Left(n, v) <= n
<1>1. IsFiniteSet(1..n) /\ Cardinality(1..n) = n
  BY FS_Interval
<1>2. (1..n) \ v.visiting \in SUBSET (1..n)
  OBVIOUS
<1>. QED
  BY <1>1, <1>2, FS_Subset, FS_CardinalityType DEF Left

LEMMA SameVisit ==
  ASSUME NEW n \in Nat, NEW edges \in SUBSET ((1..n) \X (1..n)), NEW m \in Nat,
         NEW g \in [Visits -> Founds], NEW h, \A w \in Visits : Left(n, w) < m => h[w] = g[w],
         NEW v \in Visits, Left(n, v) < m + 1
  PROVE  VisitBy(h, edges, v) = VisitBy(g, edges, v)
<1>. DEFINE T == SetToSeq(Targets(edges, v.of))
            further == v.visiting \cup {v.of}
<1>1. v.of \in Nat /\ v.visiting \in SUBSET Nat /\ v.found \in Founds /\ further \in SUBSET Nat
  BY DEF Visits
<1>2. /\ T \in Seq(Targets(edges, v.of)) /\ T \in Seq(Nat)
      /\ v.of \notin 1..n => Targets(edges, v.of) = {}
  BY TargetsOf
<1>. HIDE DEF T
<1>3. ASSUME v.of \notin v.visiting, NEW i \in 1..Len(T), NEW f \in Founds
      PROVE  h[[of |-> T[i], visiting |-> further, found |-> f]] = g[[of |-> T[i], visiting |-> further, found |-> f]]
  <2>. DEFINE w == [of |-> T[i], visiting |-> further, found |-> f]
  <2>1. T[i] \in Targets(edges, v.of) /\ T[i] \in Nat
    BY <1>2
  <2>2. v.of \in 1..n
    BY <1>2, <2>1
  <2>3. w \in Visits /\ w.visiting = further
    BY <1>1, <2>1 DEF Visits
  <2>. HIDE DEF w
  <2>4. Left(n, w) = Left(n, v) - 1
    <3>1. (1..n) \ w.visiting = ((1..n) \ v.visiting) \ {v.of} /\ v.of \in (1..n) \ v.visiting
      BY <1>3, <2>2, <2>3
    <3>2. IsFiniteSet((1..n) \ v.visiting)
      BY LeftIsNumber
    <3>. DEFINE L == (1..n) \ v.visiting
    <3>. HIDE DEF L
    <3>3. Cardinality(L \ {v.of}) = Cardinality(L) - 1
      BY <3>1, <3>2, FS_RemoveElement DEF L
    <3>. QED
      BY <3>1, <3>3 DEF L, Left
  <2>5. Left(n, w) < m
    <3>1. Left(n, v) \in Nat
      BY LeftIsNumber
    <3>. QED
      BY <2>4, <3>1
  <2>. QED
    BY <2>3, <2>5 DEF w
<1>4. ASSUME v.of \notin v.visiting
      PROVE  InTurn(h, T, further, v.found) = InTurn(g, T, further, v.found)
  <2>. HIDE DEF further
  <2>1. \A i \in 1..Len(T) : \A f \in Founds :
          g[[of |-> T[i], visiting |-> further, found |-> f]] = h[[of |-> T[i], visiting |-> further, found |-> f]]
    BY <1>3, <1>4
  <2>2. FindsInTurn(g, T, further)
    <3>1. \A i \in 1..Len(T), f \in Founds : [of |-> T[i], visiting |-> further, found |-> f] \in Visits
      BY <1>1, <1>2 DEF Visits
    <3>. QED
      BY <3>1 DEF FindsInTurn
  <2>3. InTurn(g, T, further, v.found) = InTurn(h, T, further, v.found)
    BY <1>1, <1>2, <2>1, <2>2, SameTurns
  <2>. QED
    BY <2>3
<1>. QED
  BY <1>4 DEF VisitBy, T

LEMMA VisitIsThere ==
  ASSUME NEW n \in Nat, NEW edges \in SUBSET ((1..n) \X (1..n))
  PROVE  Visit(edges) \in [Visits -> Founds] /\ \A v \in Visits : Visit(edges)[v] = VisitBy(Visit(edges), edges, v)
<1>. DEFINE Right(g, m) == \A v \in Visits : Left(n, v) < m => g[v] = VisitBy(g, edges, v)
            S == {m \in Nat : \E g \in [Visits -> Founds] : Right(g, m)}
<1>1. \A v \in Visits : Left(n, v) \in Nat /\ Left(n, v) <= n
  BY LeftIsNumber
<1>2. 0 \in S
  <2>1. [cycle |-> TRUE, visited |-> {}] \in Founds
    BY DEF Founds
  <2>2. [v \in Visits |-> [cycle |-> TRUE, visited |-> {}]] \in [Visits -> Founds]
    BY <2>1
  <2>3. \A g : Right(g, 0)
    BY <1>1
  <2>. QED
    BY <2>2, <2>3
<1>3. ASSUME NEW m \in Nat, m \in S PROVE m + 1 \in S
  <2>1. PICK g \in [Visits -> Founds] : Right(g, m)
    BY <1>3
  <2>. DEFINE h == [v \in Visits |-> VisitBy(g, edges, v)]
  <2>2. h \in [Visits -> Founds]
    BY VisitFinds
  <2>3. \A v \in Visits : h[v] = VisitBy(g, edges, v)
    OBVIOUS
  <2>. HIDE DEF h
  <2>4. \A v \in Visits : Left(n, v) < m => h[v] = g[v]
    BY <2>1, <2>3
  <2>5. \A v \in Visits : Left(n, v) < m + 1 => VisitBy(h, edges, v) = VisitBy(g, edges, v)
    BY <2>4, SameVisit
  <2>6. Right(h, m + 1)
    BY <2>3, <2>5
  <2>. QED
    BY <2>2, <2>6
<1>4. n + 1 \in S
  <2>. HIDE DEF S
  <2>1. \A m \in Nat : m \in S
    BY <1>2, <1>3, Induction
  <2>. QED
    BY <2>1
<1>5. PICK g \in [Visits -> Founds] : \A v \in Visits : g[v] = VisitBy(g, edges, v)
  <2>1. PICK g \in [Visits -> Founds] : Right(g, n + 1)
    BY <1>4
  <2>2. \A v \in Visits : Left(n, v) < n + 1
    BY <1>1
  <2>. QED
    BY <2>1, <2>2
<1>. DEFINE Body(visit) == [v \in Visits |-> VisitBy(visit, edges, v)]
            visit == CHOOSE h : h = Body(h)
<1>6. Visit(edges) = visit
  BY DEF Visit, VisitBy
<1>7. g = Body(g)
  BY <1>5
<1>8. visit = Body(visit)
  <2>. HIDE DEF Body
  <2>. QED
    BY <1>7
<1>. HIDE DEF visit
<1>9. \A v \in Visits : visit[v] = VisitBy(visit, edges, v)
  BY <1>8
<1>. DEFINE U == {m \in Nat : \A v \in Visits : Left(n, v) < m => visit[v] = g[v]}
<1>10. n + 1 \in U
  <2>1. 0 \in U
    BY <1>1
  <2>2. ASSUME NEW m \in Nat, m \in U PROVE m + 1 \in U
    <3>1. \A v \in Visits : Left(n, v) < m => visit[v] = g[v]
      BY <2>2
    <3>2. \A v \in Visits : Left(n, v) < m + 1 => VisitBy(visit, edges, v) = VisitBy(g, edges, v)
      BY <3>1, SameVisit
    <3>. QED
      BY <1>5, <1>9, <3>2
  <2>. HIDE DEF U
  <2>3. \A m \in Nat : m \in U
    BY <2>1, <2>2, Induction
  <2>. QED
    BY <2>3
<1>11. visit = g
  <2>1. \A v \in Visits : Left(n, v) < n + 1
    BY <1>1
  <2>2. \A v \in Visits : visit[v] = g[v]
    BY <1>10, <2>1
  <2>. QED
    BY <1>8, <2>2
<1>. QED
  BY <1>5, <1>6, <1>11

\* Paths along arrows E of n sections: a section whose arrows stay in a set without it
\* is not led back to.
Paths(L, n, E) ==
  /\ E \subseteq L
  /\ \A a, c : \A b \in 1..n : <<a, b>> \in L /\ <<b, c>> \in L => <<a, c>> \in L
  /\ \A W \in SUBSET (1..n), s \in 1..n : s \notin W /\ IsClosed(E, W) /\ Targets(E, s) \subseteq W => <<s, s>> \notin L

\* What is found is true: a way back is one, and none leads from what was left.
TrueFound(f, visiting, L, n, E) ==
  /\ f \in Founds
  /\ f.cycle => \E s \in 1..n : <<s, s>> \in L
  /\ ~f.cycle => /\ f.visited \in SUBSET (1..n) /\ IsClosed(E, f.visited) /\ f.visited \cap visiting = {}
                 /\ \A w \in f.visited : <<w, w>> \notin L

\* What a visit to a section adds to what was found before.
Adds(g, f, s) == ~g.cycle => ~f.cycle /\ f.visited \subseteq g.visited /\ s \in g.visited

\* Visits in turn, each of which is right, are right.
LEMMA TurnsAreTrue ==
  ASSUME NEW n \in Nat, NEW L, NEW E, NEW visiting \in SUBSET (1..n), NEW sections \in Seq(1..n),
         NEW start, TrueFound(start, visiting, L, n, E),
         NEW visit, FindsInTurn(visit, sections, visiting),
         \A i \in 1..Len(sections), f \in Founds : TrueFound(f, visiting, L, n, E) =>
           /\ TrueFound(visit[[of |-> sections[i], visiting |-> visiting, found |-> f]], visiting, L, n, E)
           /\ Adds(visit[[of |-> sections[i], visiting |-> visiting, found |-> f]], f, sections[i])
  PROVE  /\ TrueFound(InTurn(visit, sections, visiting, start), visiting, L, n, E)
         /\ ~InTurn(visit, sections, visiting, start).cycle =>
              /\ ~start.cycle /\ start.visited \subseteq InTurn(visit, sections, visiting, start).visited
              /\ \A i \in 1..Len(sections) : sections[i] \in InTurn(visit, sections, visiting, start).visited
<1>1. start \in Founds /\ Len(sections) \in Nat /\ sections \in Seq(Nat) /\ visiting \in SUBSET Nat
  <2>1. 1..n \subseteq Nat
    OBVIOUS
  <2>2. sections \in Seq(Nat)
    BY <2>1, SeqMonotonic
  <2>. QED
    BY <2>1, <2>2 DEF TrueFound
<1>2. PICK r : /\ Turns(r, visit, sections, visiting, start)
               /\ r[Len(sections)] = InTurn(visit, sections, visiting, start)
  BY <1>1, TurnsAreTaken
<1>. DEFINE all == Len(sections)
            Right(k) == /\ TrueFound(r[k], visiting, L, n, E)
                        /\ ~r[k].cycle => /\ ~start.cycle /\ start.visited \subseteq r[k].visited
                                          /\ \A i \in 1..k : sections[i] \in r[k].visited
            S == {k \in Nat : k <= all => Right(k)}
<1>3. 0 \in S
  BY <1>2 DEF Turns
<1>4. ASSUME NEW k \in Nat, k \in S PROVE k + 1 \in S
  <2>. SUFFICES ASSUME k + 1 <= all PROVE Right(k + 1)
    OBVIOUS
  <2>1. k + 1 \in 1..all /\ (k + 1) - 1 = k /\ k \in 0..all /\ Right(k)
    BY <1>1, <1>4
  <2>2. r[k + 1] = visit[[of |-> sections[k + 1], visiting |-> visiting, found |-> r[k]]] /\ r[k] \in Founds
    BY <1>2, <2>1 DEF Turns
  <2>3. TrueFound(r[k + 1], visiting, L, n, E) /\ Adds(r[k + 1], r[k], sections[k + 1])
    BY <2>1, <2>2
  <2>4. ASSUME ~r[k + 1].cycle
        PROVE  /\ ~start.cycle /\ start.visited \subseteq r[k + 1].visited
               /\ \A i \in 1..(k + 1) : sections[i] \in r[k + 1].visited
    <3>1. ~r[k].cycle /\ r[k].visited \subseteq r[k + 1].visited /\ sections[k + 1] \in r[k + 1].visited
      BY <2>3, <2>4 DEF Adds
    <3>2. \A i \in 1..(k + 1) : i = k + 1 \/ i \in 1..k
      OBVIOUS
    <3>. QED
      BY <2>1, <3>1, <3>2
  <2>. QED
    BY <2>3, <2>4
<1>5. Right(all)
  <2>1. \A k \in Nat : k \in S
    <3>. HIDE DEF S
    <3>. QED
      BY <1>3, <1>4, Induction
  <2>. QED
    BY <1>1, <2>1
<1>. QED
  BY <1>2, <1>5

\* A visit is right when what it finds below is.
Enters(v, L, n, E) ==
  /\ v \in Visits /\ v.of \in 1..n /\ v.visiting \in SUBSET (1..n)
  /\ \A u \in v.visiting : <<u, v.of>> \in L
  /\ TrueFound(v.found, v.visiting, L, n, E)

LEMMA VisitIsTrue ==
  ASSUME NEW n \in Nat, NEW E \in SUBSET ((1..n) \X (1..n)), NEW L, Paths(L, n, E), NEW m \in Nat,
         \A w : Enters(w, L, n, E) /\ Left(n, w) < m =>
           TrueFound(Visit(E)[w], w.visiting, L, n, E) /\ Adds(Visit(E)[w], w.found, w.of),
         NEW v, Enters(v, L, n, E), Left(n, v) < m + 1
  PROVE  TrueFound(Visit(E)[v], v.visiting, L, n, E) /\ Adds(Visit(E)[v], v.found, v.of)
<1>. DEFINE s == v.of
            T == SetToSeq(Targets(E, s))
            further == v.visiting \cup {s}
            below == InTurn(Visit(E), T, further, v.found)
<1>1. Visit(E) \in [Visits -> Founds] /\ Visit(E)[v] = VisitBy(Visit(E), E, v)
  BY VisitIsThere DEF Enters
<1>2. /\ v \in Visits /\ s \in 1..n /\ v.visiting \in SUBSET (1..n) /\ further \in SUBSET (1..n)
      /\ v.found \in Founds /\ v.found.cycle \in BOOLEAN /\ v.found.visited \in SUBSET Nat
      /\ TrueFound(v.found, v.visiting, L, n, E)
  BY DEF Enters, Visits, Founds
<1>3. CASE v.found.cycle \/ s \in v.visiting
  <2>1. Visit(E)[v] = [v.found EXCEPT !.cycle = TRUE]
    BY <1>1, <1>3 DEF VisitBy
  <2>2. \E t \in 1..n : <<t, t>> \in L
    BY <1>2, <1>3 DEF Enters, TrueFound
  <2>3. Visit(E)[v] \in Founds /\ Visit(E)[v].cycle
    BY <1>1, <1>2, <2>1 DEF Founds
  <2>. QED
    BY <2>2, <2>3 DEF TrueFound, Adds
<1>4. CASE ~(v.found.cycle \/ s \in v.visiting) /\ s \in v.found.visited
  <2>1. Visit(E)[v] = v.found
    BY <1>1, <1>4 DEF VisitBy
  <2>. QED
    BY <1>2, <1>4, <2>1 DEF Adds
<1>5. CASE ~(v.found.cycle \/ s \in v.visiting) /\ s \notin v.found.visited
  <2>1. Visit(E)[v] = [below EXCEPT !.visited = @ \cup {s}]
    BY <1>1, <1>5 DEF VisitBy
  <2>2. TrueFound(v.found, further, L, n, E)
    BY <1>2, <1>5 DEF TrueFound
  <2>3. /\ Targets(E, s) \in SUBSET (1..n) /\ (\A t : t \in Targets(E, s) <=> <<s, t>> \in E)
        /\ T \in Seq(Targets(E, s)) /\ \A t \in Targets(E, s) : \E i \in 1..Len(T) : T[i] = t
    BY TargetsOf
  <2>4. T \in Seq(1..n) /\ \A i \in 1..Len(T) : T[i] \in 1..n /\ <<s, T[i]>> \in E
    <3>. HIDE DEF T, s
    <3>1. T \in Seq(1..n)
      BY <2>3, SeqMonotonic
    <3>2. \A i \in 1..Len(T) : T[i] \in Targets(E, s)
      BY <2>3, ElementOfSeq
    <3>. QED
      BY <2>3, <3>1, <3>2
  <2>. HIDE DEF T
  <2>5. ASSUME NEW i \in 1..Len(T), NEW f \in Founds
        PROVE  /\ [of |-> T[i], visiting |-> further, found |-> f] \in Visits
               /\ TrueFound(f, further, L, n, E) =>
                    /\ TrueFound(Visit(E)[[of |-> T[i], visiting |-> further, found |-> f]], further, L, n, E)
                    /\ Adds(Visit(E)[[of |-> T[i], visiting |-> further, found |-> f]], f, T[i])
    <3>. DEFINE w == [of |-> T[i], visiting |-> further, found |-> f]
    <3>1. w \in Visits /\ w.of = T[i] /\ w.visiting = further /\ w.found = f
      BY <1>2, <2>4 DEF Visits
    <3>. HIDE DEF w
    <3>2. ASSUME TrueFound(f, further, L, n, E) PROVE Enters(w, L, n, E)
      <4>1. \A u \in further : <<u, T[i]>> \in L
        <5>1. <<s, T[i]>> \in L
          BY <2>4 DEF Paths
        <5>2. \A u \in v.visiting : <<u, s>> \in L
          BY DEF Enters
        <5>. QED
          BY <1>2, <5>1, <5>2 DEF Paths
      <4>. QED
        BY <1>2, <2>4, <3>1, <3>2, <4>1 DEF Enters
    <3>3. Left(n, w) < m
      <4>1. (1..n) \ w.visiting = ((1..n) \ v.visiting) \ {s} /\ s \in (1..n) \ v.visiting
        BY <1>2, <1>5, <3>1
      <4>2. IsFiniteSet((1..n) \ v.visiting) /\ Left(n, v) \in Nat
        BY <1>2, LeftIsNumber
      <4>. DEFINE rest == (1..n) \ v.visiting
      <4>. HIDE DEF rest, s
      <4>3. Cardinality(rest \ {s}) = Cardinality(rest) - 1
        BY <4>1, <4>2, FS_RemoveElement DEF rest
      <4>4. Left(n, w) = Left(n, v) - 1
        BY <4>1, <4>3 DEF rest, Left
      <4>. QED
        BY <4>2, <4>4
    <3>4. TrueFound(f, further, L, n, E) =>
            TrueFound(Visit(E)[w], w.visiting, L, n, E) /\ Adds(Visit(E)[w], w.found, w.of)
      BY <3>2, <3>3
    <3>. QED
      BY <3>1, <3>4 DEF w
  <2>. HIDE DEF below, further
  <2>6. FindsInTurn(Visit(E), T, further)
    BY <1>1, <2>5 DEF FindsInTurn
  <2>7. /\ TrueFound(below, further, L, n, E)
        /\ ~below.cycle => /\ ~v.found.cycle /\ v.found.visited \subseteq below.visited
                           /\ \A i \in 1..Len(T) : T[i] \in below.visited
    BY <1>2, <2>2, <2>4, <2>5, <2>6, TurnsAreTrue DEF below
  <2>8. /\ below \in Founds /\ Visit(E)[v] \in Founds /\ Visit(E)[v].cycle = below.cycle
        /\ Visit(E)[v].visited = below.visited \cup {s}
    BY <1>1, <1>2, <2>1, <2>7 DEF TrueFound, Founds
  <2>9. ASSUME ~below.cycle
        PROVE  LET W == below.visited \cup {s} IN
               /\ W \in SUBSET (1..n) /\ IsClosed(E, W) /\ W \cap v.visiting = {} /\ \A w \in W : <<w, w>> \notin L
    <3>. DEFINE B == below.visited
    <3>1. B \in SUBSET (1..n) /\ IsClosed(E, B) /\ B \cap further = {} /\ \A w \in B : <<w, w>> \notin L
      BY <2>7, <2>9 DEF TrueFound
    <3>2. Targets(E, s) \subseteq B
      BY <2>3, <2>7, <2>9
    <3>. HIDE DEF B
    <3>3. IsClosed(E, B \cup {s})
      <4>. SUFFICES ASSUME NEW e \in E, e[1] \in B \cup {s} PROVE e[2] \in B
        BY DEF IsClosed
      <4>1. CASE e[1] = s
        <5>1. e = <<s, e[2]>>
          BY <4>1
        <5>. QED
          BY <2>3, <3>2, <5>1
      <4>2. CASE e[1] \in B
        BY <3>1, <4>2 DEF IsClosed
      <4>. QED
        BY <4>1, <4>2
    <3>4. <<s, s>> \notin L
      BY <1>2, <3>1, <3>2 DEF Paths, further
    <3>. QED
      BY <1>2, <1>5, <3>1, <3>3, <3>4 DEF B, further
  <2>. QED
    BY <2>7, <2>8, <2>9 DEF TrueFound, Adds
<1>. QED
  BY <1>3, <1>4, <1>5

LEMMA VisitsAreTrue ==
  ASSUME NEW n \in Nat, NEW E \in SUBSET ((1..n) \X (1..n)), NEW L, Paths(L, n, E),
         NEW v, Enters(v, L, n, E)
  PROVE  TrueFound(Visit(E)[v], v.visiting, L, n, E) /\ Adds(Visit(E)[v], v.found, v.of)
<1>. DEFINE S == {m \in Nat : \A w : Enters(w, L, n, E) /\ Left(n, w) < m =>
                    TrueFound(Visit(E)[w], w.visiting, L, n, E) /\ Adds(Visit(E)[w], w.found, w.of)}
<1>1. \A w : Enters(w, L, n, E) => Left(n, w) \in Nat /\ Left(n, w) <= n
  BY LeftIsNumber DEF Enters
<1>2. 0 \in S
  BY <1>1
<1>3. ASSUME NEW m \in Nat, m \in S PROVE m + 1 \in S
  BY <1>3, VisitIsTrue
<1>4. n + 1 \in S
  <2>. HIDE DEF S
  <2>1. \A m \in Nat : m \in S
    BY <1>2, <1>3, Induction
  <2>. QED
    BY <2>1
<1>5. Left(n, v) < n + 1
  BY <1>1
<1>. QED
  BY <1>4, <1>5

LEMMA LeadsArePaths ==
  ASSUME NEW form, NEW flow, IsMap(form, flow)
  PROVE  Paths(Leads(form, flow), Len(form), Inner(form, flow.edges))
<1>. DEFINE n == Len(form)
            inner == Inner(form, flow.edges)
            leads == Leads(form, flow)
<1>1. n \in Nat \ {0} /\ flow.edges \in SUBSET ((1..n) \X (1..(n + 1))) /\ inner \in SUBSET ((1..n) \X (1..n))
  BY InnerArrows DEF IsMap
<1>2. /\ flow.edges \subseteq leads
      /\ \A a, c : \A b \in 1..n : <<a, b>> \in leads /\ <<b, c>> \in leads => <<a, c>> \in leads
      /\ \A R : flow.edges \subseteq R /\ Transitive(R) => leads \subseteq R
  <2>1. n \in Nat /\ DOMAIN form = 1..n /\ flow.edges \in SUBSET (Nat \X Nat)
    BY DEF IsMap
  <2>. QED
    BY <2>1, LeadsIsClosure
<1>3. \A e \in flow.edges : e[2] # n + 1 => e \in inner
  BY DEF Inner, Submit
<1>4. inner \subseteq flow.edges
  BY DEF Inner
<1>. HIDE DEF n, inner, leads
<1>5. ASSUME NEW W \in SUBSET (1..n), NEW s \in 1..n, s \notin W, IsClosed(inner, W), Targets(inner, s) \subseteq W
      PROVE  <<s, s>> \notin leads
  <2>. DEFINE R == {p \in (1..n) \X (1..(n + 1)) : p[1] \in W \cup {s} => p[2] \in W \cup {n + 1}}
  <2>1. flow.edges \subseteq R
    <3>. SUFFICES ASSUME NEW e \in flow.edges PROVE e \in R
      OBVIOUS
    <3>1. e \in (1..n) \X (1..(n + 1)) /\ e = <<e[1], e[2]>>
      BY <1>1
    <3>2. ASSUME e[1] \in W \cup {s}, e[2] # n + 1 PROVE e[2] \in W
      <4>1. e \in inner
        BY <1>3, <3>2
      <4>2. CASE e[1] \in W
        BY <1>5, <4>1, <4>2 DEF IsClosed
      <4>3. CASE e[1] = s
        <5>1. e[2] \in Targets(inner, s)
          BY <4>1, <4>3 DEF Targets
        <5>. QED
          BY <1>5, <5>1
      <4>. QED
        BY <3>2, <4>2, <4>3
    <3>. QED
      BY <3>1, <3>2
  <2>2. Transitive(R)
    <3>. SUFFICES ASSUME NEW a, NEW b, NEW c, <<a, b>> \in R, <<b, c>> \in R PROVE <<a, c>> \in R
      BY DEF Transitive
    <3>1. a \in 1..n /\ b \in 1..n /\ c \in 1..(n + 1) /\ b # n + 1
      BY <1>1
    <3>2. (a \in W \cup {s} => b \in W \cup {n + 1}) /\ (b \in W \cup {s} => c \in W \cup {n + 1})
      OBVIOUS
    <3>. QED
      BY <3>1, <3>2
  <2>3. <<s, s>> \notin R
    BY <1>1, <1>5
  <2>4. leads \subseteq R
    <3>. HIDE DEF R
    <3>. QED
      BY <1>2, <2>1, <2>2
  <2>. QED
    BY <2>3, <2>4
<1>6. inner \subseteq leads
  BY <1>2, <1>4
<1>. QED
  BY <1>2, <1>5, <1>6 DEF Paths, n, inner, leads

\* The map is said to loop just when its arrows lead back to a section.
LEMMA LoopsAreTrue ==
  ASSUME NEW form, NEW flow, IsMap(form, flow)
  PROVE  /\ HasCycle(form, flow.edges) \in BOOLEAN
         /\ HasCycle(form, flow.edges) <=> \E s \in Sections(form) : <<s, s>> \in Leads(form, flow)
<1>. DEFINE n == Len(form)
            E == Inner(form, flow.edges)
            L == Leads(form, flow)
            all == [s \in Sections(form) |-> s]
            none == [cycle |-> FALSE, visited |-> {}]
            end == InTurn(Visit(E), all, {}, none)
<1>1. n \in Nat \ {0} /\ E \in SUBSET ((1..n) \X (1..n)) /\ Paths(L, n, E) /\ Sections(form) = 1..n
  BY InnerArrows, LeadsArePaths DEF IsMap, Sections
<1>2. HasCycle(form, flow.edges) = end.cycle
  BY DEF HasCycle, Inner
<1>3. all \in Seq(1..n) /\ Len(all) = n /\ \A i \in 1..n : all[i] = i
  BY <1>1
<1>4. none \in Founds /\ TrueFound(none, {}, L, n, E)
  BY DEF Founds, TrueFound, IsClosed
<1>. HIDE DEF n, E, L, all, none
<1>5. ASSUME NEW i \in 1..n, NEW f \in Founds
      PROVE  /\ [of |-> all[i], visiting |-> {}, found |-> f] \in Visits
             /\ TrueFound(f, {}, L, n, E) =>
                  /\ TrueFound(Visit(E)[[of |-> all[i], visiting |-> {}, found |-> f]], {}, L, n, E)
                  /\ Adds(Visit(E)[[of |-> all[i], visiting |-> {}, found |-> f]], f, all[i])
  <2>. DEFINE w == [of |-> all[i], visiting |-> {}, found |-> f]
  <2>1. w \in Visits /\ w.of = i /\ w.visiting = {} /\ w.found = f /\ all[i] = i
    BY <1>1, <1>3 DEF Visits
  <2>. HIDE DEF w
  <2>2. TrueFound(f, {}, L, n, E) => Enters(w, L, n, E)
    BY <2>1 DEF Enters
  <2>3. TrueFound(f, {}, L, n, E) =>
          TrueFound(Visit(E)[w], w.visiting, L, n, E) /\ Adds(Visit(E)[w], w.found, w.of)
    BY <1>1, <2>2, VisitsAreTrue
  <2>. QED
    BY <2>1, <2>3 DEF w
<1>6. FindsInTurn(Visit(E), all, {})
  <2>1. Visit(E) \in [Visits -> Founds]
    BY <1>1, VisitIsThere
  <2>. QED
    BY <1>3, <1>5, <2>1 DEF FindsInTurn
<1>7. /\ TrueFound(end, {}, L, n, E)
      /\ ~end.cycle => \A i \in 1..n : all[i] \in end.visited
  <2>1. {} \in SUBSET (1..n) /\ n \in Nat
    BY <1>1
  <2>. QED
    BY <1>3, <1>4, <1>5, <1>6, <2>1, TurnsAreTrue
<1>. HIDE DEF end
<1>8. end.cycle \in BOOLEAN
  BY <1>7 DEF TrueFound, Founds
<1>9. ASSUME end.cycle PROVE \E s \in 1..n : <<s, s>> \in L
  BY <1>7, <1>9 DEF TrueFound
<1>10. ASSUME ~end.cycle PROVE \A s \in 1..n : <<s, s>> \notin L
  BY <1>3, <1>7, <1>10 DEF TrueFound
<1>. QED
  BY <1>1, <1>2, <1>8, <1>9, <1>10 DEF L

-----------------------------------------------------------------------------
(* The map of a form.                                                       *)

\* The arrows of options and defaults lead from a section to one, or to the end.
LEMMA OwnArrows ==
  ASSUME NEW form, Len(form) \in Nat, DOMAIN form = 1..Len(form),
         NEW e \in ConditionalEdges(form) \cup DefaultEdges(form)
  PROVE  \E s \in Sections(form), t \in 1..Submit(form) : e = <<s, t>>
<1>1. CASE e \in ConditionalEdges(form)
  BY <1>1 DEF ConditionalEdges
<1>2. CASE e \in DefaultEdges(form)
  <2>1. PICK s \in Sections(form) : e = <<s, s + 1>>
    BY <1>2 DEF DefaultEdges
  <2>2. s + 1 \in 1..Submit(form)
    BY DEF Sections, Submit
  <2>. QED
    BY <2>1, <2>2
<1>. QED
  BY <1>1, <1>2

\* The arrows to the end do not lead to other sections.
LEMMA EndsReachNothing ==
  ASSUME NEW form, NEW own
  PROVE  Reached(form, own \cup TerminalEdges(form, own)) = Reached(form, own)
<1>1. \A e \in TerminalEdges(form, own) : e[2] = Submit(form)
  BY DEF TerminalEdges
<1>2. {e \in own \cup TerminalEdges(form, own) : e[2] # Submit(form)}
        = {e \in own : e[2] # Submit(form)}
  BY <1>1
<1>. QED
  BY <1>2 DEF Reached

\* From every section that the map does not mark as unreachable it goes on,
\* whatever the options of the form lead to: the arrows to the end, which are
\* found before the marks, are where they are needed (core/form_flow.py,
\* parse_form_flow).
THEOREM NobodyGetsStuck ==
  ASSUME NEW form, Len(form) \in Nat, DOMAIN form = 1..Len(form)
  PROVE  GoesOn(form, FlowOf(form))
<1>. DEFINE own == ConditionalEdges(form) \cup DefaultEdges(form)
            edges == own \cup TerminalEdges(form, own)
<1>1. /\ FlowOf(form).edges = edges
      /\ FlowOf(form).unreachable = Sections(form) \ Reached(form, edges)
  BY DEF FlowOf
<1>2. Reached(form, edges) = Reached(form, own)
  BY EndsReachNothing
<1>3. ASSUME NEW s \in Sections(form), s \in Reached(form, own)
      PROVE  \E t \in 1..Submit(form) : <<s, t>> \in edges
  <2>1. CASE \E e \in own : e[1] = s
    <3>1. PICK e \in own : e[1] = s
      BY <2>1
    <3>2. PICK a \in Sections(form), t \in 1..Submit(form) : e = <<a, t>>
      BY OwnArrows
    <3>. QED
      BY <3>1, <3>2
  <2>2. CASE \A e \in own : e[1] # s
    <3>1. <<s, Submit(form)>> \in TerminalEdges(form, own)
      BY <1>3, <2>2 DEF TerminalEdges
    <3>2. Submit(form) \in 1..Submit(form)
      BY DEF Submit
    <3>. QED
      BY <3>1, <3>2
  <2>. QED
    BY <2>1, <2>2
<1>. QED
  BY <1>1, <1>2, <1>3 DEF GoesOn

\* What parse_form_flow makes is a map: the sections that end are among those reached.
LEMMA FlowIsMap ==
  ASSUME NEW form, Len(form) \in Nat \ {0}, DOMAIN form = 1..Len(form)
  PROVE  IsMap(form, FlowOf(form)) /\ FlowOf(form).cycles = HasCycle(form, FlowOf(form).edges)
<1>. DEFINE n == Len(form)
            own == ConditionalEdges(form) \cup DefaultEdges(form)
            edges == own \cup TerminalEdges(form, own)
            all == (1..n) \X (1..(n + 1))
<1>1. /\ FlowOf(form).edges = edges /\ FlowOf(form).cycles = HasCycle(form, edges)
      /\ FlowOf(form).unreachable = Sections(form) \ Reached(form, edges)
  BY DEF FlowOf
<1>2. Sections(form) = 1..n /\ Submit(form) = n + 1 /\ n \in Nat \ {0}
  BY DEF Sections, Submit
<1>. HIDE DEF own, n
<1>3. own \subseteq all
  <2>1. \A e \in own : \E s \in 1..n, t \in 1..(n + 1) : e = <<s, t>>
    BY <1>2, OwnArrows DEF n, own
  <2>. QED
    BY <2>1
<1>4. Reached(form, own) \subseteq 1..n
  <2>. DEFINE inner == {e \in own : e[2] # n + 1}
  <2>1. inner \in SUBSET ((1..n) \X (1..n))
    <3>1. \A e \in inner : e = <<e[1], e[2]>> /\ e[1] \in 1..n /\ e[2] \in 1..(n + 1) /\ e[2] # n + 1
      BY <1>3
    <3>2. \A k \in 1..(n + 1) : k # n + 1 => k \in 1..n
      BY <1>2
    <3>. QED
      BY <3>1, <3>2
  <2>2. Reached(form, own) = Spread(inner, n)
    BY <1>2 DEF Reached, n
  <2>. HIDE DEF inner
  <2>. QED
    BY <1>2, <2>1, <2>2, SpreadIsClosure
<1>5. TerminalEdges(form, own) \subseteq all
  <2>1. n + 1 \in 1..(n + 1)
    BY <1>2
  <2>. QED
    BY <1>2, <1>4, <2>1 DEF TerminalEdges
<1>6. edges \in SUBSET all
  BY <1>3, <1>5
<1>. QED
  BY <1>1, <1>2, <1>6 DEF IsMap, n

\* The map of every form is true.
LEMMA MapIsTrue ==
  ASSUME NEW form, Len(form) \in Nat \ {0}, DOMAIN form = 1..Len(form)
  PROVE  RespondentsGetThrough(form, FlowOf(form)) /\ MarksMatchArrows(form, FlowOf(form))
<1>. DEFINE flow == FlowOf(form)
            leads == Leads(form, flow)
<1>1. IsMap(form, flow) /\ flow.cycles = HasCycle(form, flow.edges)
  BY FlowIsMap
<1>2. GoesOn(form, flow)
  BY NobodyGetsStuck
<1>. HIDE DEF flow
<1>3. flow.unreachable = {s \in Sections(form) \ {1} : <<1, s>> \notin leads}
  BY <1>1, MarksAreTrue
<1>4. flow.cycles \in BOOLEAN /\ (flow.cycles <=> \E s \in Sections(form) : <<s, s>> \in leads)
  BY <1>1, LoopsAreTrue
<1>5. ASSUME NEW s \in Sections(form) \ flow.unreachable, ~flow.cycles PROVE <<s, Submit(form)>> \in leads
  BY <1>1, <1>2, <1>4, <1>5, EndIsReached
<1>6. flow.cycles = \E s \in Sections(form) : <<s, s>> \in leads
  <2>1. CASE flow.cycles
    BY <1>4, <2>1
  <2>2. CASE ~flow.cycles
    BY <1>4, <2>2
  <2>. QED
    BY <2>1, <2>2
<1>. QED
  BY <1>2, <1>3, <1>5, <1>6 DEF RespondentsGetThrough, MarksMatchArrows, flow

=============================================================================
