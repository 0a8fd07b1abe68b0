---------------------------- MODULE AnalysesProofs ----------------------------
(***************************************************************************)
(* What the reads of the Google client (FormsClient) give of any account,  *)
(* and what the pages promise of what was read (Analyses).  The reads come *)
(* first: a read holds what it has read so far and what its pages and its  *)
(* threads still owe it.                                                   *)
(*                                                                         *)
(* What a page makes of a call that fails turns on the reason that is kept *)
(* of several: one that is about scopes is never hidden behind another.    *)
(* The scan of all pairs of questions is the procedure of Benjamini and    *)
(* Hochberg, a fold from the largest p-value down.  The section map, the   *)
(* waves and the forecasts are those of FormProofs.                        *)
(***************************************************************************)
EXTENDS Analyses, FormProofs, FormsClient, FunctionTheorems, TLAPS

\* The places before and at a place, in the order of their keys.
NotAfter(places, key, i) == {j \in places : key[j] < key[i] \/ (key[j] = key[i] /\ j <= i)}
IsBefore(key, i, j) == key[i] < key[j] \/ (key[i] = key[j] /\ i < j)

LEMMA EarlierPlace ==
  ASSUME NEW places \in SUBSET Int, IsFiniteSet(places), NEW key, \A i \in places : key[i] \in Int,
         NEW i \in places, NEW j \in places
  PROVE  /\ Cardinality(NotAfter(places, key, i)) \in 1..Cardinality(places)
         /\ IsBefore(key, i, j) =>
              Cardinality(NotAfter(places, key, i)) < Cardinality(NotAfter(places, key, j))
<1>. DEFINE before == NotAfter(places, key, i)
            further == NotAfter(places, key, j)
<1>0. key[i] \in Int /\ key[j] \in Int /\ i \in Int /\ j \in Int
  OBVIOUS
<1>1. before \in SUBSET places /\ further \in SUBSET places /\ i \in before /\ j \in further
  BY <1>0 DEF NotAfter
<1>2. IsFiniteSet(before) /\ IsFiniteSet(further) /\ Cardinality(before) <= Cardinality(places)
  BY <1>1, FS_Subset
<1>3. Cardinality(before) \in Nat /\ Cardinality(further) \in Nat /\ Cardinality(places) \in Nat
  BY <1>2, FS_CardinalityType
<1>4. Cardinality(before) # 0
  BY <1>1, <1>2, FS_EmptySet
<1>5. ASSUME IsBefore(key, i, j) PROVE Cardinality(before) < Cardinality(further)
  <2>1. ASSUME NEW m \in before PROVE m \in further
    <3>1. m \in places /\ key[m] \in Int /\ m \in Int
      BY <1>1
    <3>. QED
      BY <1>0, <1>5, <3>1 DEF NotAfter, IsBefore
  <2>2. j \notin before
    BY <1>0, <1>5 DEF NotAfter, IsBefore
  <2>3. Cardinality(before) <= Cardinality(further) /\ Cardinality(before) # Cardinality(further)
    BY <1>1, <1>2, <2>1, <2>2, FS_Subset
  <2>. QED
    BY <1>3, <2>3
<1>. QED
  BY <1>2, <1>3, <1>4, <1>5

\* InOrder puts every place once, in the order of the keys.
LEMMA PlacesInOrder ==
  ASSUME NEW places \in SUBSET Int, IsFiniteSet(places), NEW key, \A i \in places : key[i] \in Int
  PROVE  LET order == InOrder(places, key) IN
         /\ Cardinality(places) \in Nat
         /\ order \in [1..Cardinality(places) -> places]
         /\ \A i \in places : \E k \in 1..Cardinality(places) : order[k] = i
         /\ \A k \in 1..Cardinality(places) : Cardinality(NotAfter(places, key, order[k])) = k
         /\ \A k, l \in 1..Cardinality(places) : k < l => IsBefore(key, order[k], order[l])
<1>. DEFINE n == Cardinality(places)
            place == [i \in places |-> Cardinality(NotAfter(places, key, i))]
            order == InOrder(places, key)
<1>1. n \in Nat
  BY FS_CardinalityType
<1>2. \A i \in places : place[i] \in 1..n
  BY EarlierPlace
<1>3. ASSUME NEW i \in places, NEW j \in places, i # j PROVE place[i] # place[j]
  <2>1. key[i] \in Int /\ key[j] \in Int /\ i \in Int /\ j \in Int
    OBVIOUS
  <2>2. IsBefore(key, i, j) \/ IsBefore(key, j, i)
    BY <1>3, <2>1 DEF IsBefore
  <2>3. place[i] \in 1..n /\ place[j] \in 1..n
    BY <1>2
  <2>4. place[i] < place[j] \/ place[j] < place[i]
    BY <2>2, EarlierPlace
  <2>. QED
    BY <1>1, <2>3, <2>4
<1>4. place \in Injection(places, 1..n)
  <2>1. place \in [places -> 1..n]
    BY <1>2
  <2>. HIDE DEF place
  <2>. QED
    BY <1>3, <2>1 DEF Injection, IsInjective
<1>5. place \in Surjection(places, 1..n)
  <2>1. IsFiniteSet(1..n) /\ Cardinality(1..n) = n
    BY <1>1, FS_Interval
  <2>. HIDE DEF place
  <2>. QED
    BY <1>4, <2>1, FS_Injection
<1>6. \A k \in 1..n : \E i \in places : place[i] = k
  <2>. HIDE DEF place
  <2>. QED
    BY <1>5 DEF Surjection
<1>7. order = [k \in 1..n |-> CHOOSE i \in places : Cardinality(NotAfter(places, key, i)) = k]
  BY DEF InOrder, NotAfter
<1>8. \A k \in 1..n : order[k] \in places /\ place[order[k]] = k
  <2>. SUFFICES ASSUME NEW k \in 1..n PROVE order[k] \in places /\ place[order[k]] = k
    OBVIOUS
  <2>1. PICK i \in places : Cardinality(NotAfter(places, key, i)) = k
    BY <1>6
  <2>2. order[k] = CHOOSE j \in places : Cardinality(NotAfter(places, key, j)) = k
    BY <1>7
  <2>3. order[k] \in places /\ Cardinality(NotAfter(places, key, order[k])) = k
    BY <2>1, <2>2
  <2>. QED
    BY <2>3
<1>9. order \in [1..n -> places]
  BY <1>7, <1>8
<1>. HIDE DEF order
<1>10. \A i \in places : \E k \in 1..n : order[k] = i
  <2>. SUFFICES ASSUME NEW i \in places PROVE order[place[i]] = i
    BY <1>2
  <2>1. place[i] \in 1..n
    BY <1>2
  <2>2. order[place[i]] \in places /\ place[order[place[i]]] = place[i]
    BY <1>8, <2>1
  <2>. HIDE DEF place
  <2>. QED
    BY <1>3, <2>2
<1>11. \A k, l \in 1..n : k < l => IsBefore(key, order[k], order[l])
  <2>. SUFFICES ASSUME NEW k \in 1..n, NEW l \in 1..n, k < l PROVE IsBefore(key, order[k], order[l])
    OBVIOUS
  <2>. DEFINE i == order[k]
              j == order[l]
  <2>1. i \in places /\ j \in places /\ place[i] = k /\ place[j] = l
    BY <1>8
  <2>. HIDE DEF i, j
  <2>2. key[i] \in Int /\ key[j] \in Int /\ i \in Int /\ j \in Int
    BY <2>1
  <2>3. i # j
    BY <2>1, <1>1
  <2>4. IsBefore(key, i, j) \/ IsBefore(key, j, i)
    BY <2>2, <2>3 DEF IsBefore
  <2>5. IsBefore(key, j, i) => place[j] < place[i]
    BY <2>1, EarlierPlace
  <2>. HIDE DEF place
  <2>. QED
    BY <1>1, <2>1, <2>4, <2>5 DEF i, j
<1>12. \A k \in 1..n : Cardinality(NotAfter(places, key, order[k])) = k
  BY <1>8
<1>. QED
  BY <1>1, <1>9, <1>10, <1>11, <1>12 DEF order

\* The beginnings of a sequence of sequences, joined.
Joins(V, seqs, n, joined) ==
  /\ joined \in [0..n -> Seq(V)]
  /\ joined[0] = <<>> /\ FlattenSeq(seqs) = joined[n]
  /\ \A i \in 1..n : joined[i] = joined[i - 1] \o seqs[i]

\* What FlattenSeq makes of a sequence of sequences, one after the other.
LEMMA Joined ==
  ASSUME NEW V, NEW seqs \in Seq(Seq(V)), NEW n, n = Len(seqs)
  PROVE  \E joined : Joins(V, seqs, n, joined)
<1>. DEFINE Body(g, i) == IF i = 1 THEN seqs[i] ELSE g[i - 1] \o seqs[i]
            Flattens(g, m) == g \in [1..m -> Seq(V)] /\ \A i \in 1..m : g[i] = Body(g, i)
            S == {m \in Nat : m <= n => \E g : Flattens(g, m)}
<1>1. n \in Nat /\ \A i \in 1..n : seqs[i] \in Seq(V)
  OBVIOUS
<1>2. 0 \in S
  <2>1. Flattens([i \in 1..0 |-> <<>>], 0)
    OBVIOUS
  <2>. QED
    BY <2>1
<1>3. ASSUME NEW m \in Nat, m \in S PROVE m + 1 \in S
  <2>. SUFFICES ASSUME m + 1 <= n PROVE \E g : Flattens(g, m + 1)
    <3>. HIDE DEF Flattens
    <3>. QED
      OBVIOUS
  <2>1. m <= n
    BY <1>1
  <2>2. PICK g : Flattens(g, m)
    BY <1>3, <2>1
  <2>. DEFINE last == Body(g, m + 1)
              longer == [i \in 1..(m + 1) |-> IF i = m + 1 THEN last ELSE g[i]]
  <2>3. last \in Seq(V)
    <3>1. m # 0 => g[m] \in Seq(V)
      BY <2>2
    <3>2. seqs[m + 1] \in Seq(V)
      BY <1>1
    <3>3. m # 0 => g[m] \o seqs[m + 1] \in Seq(V)
      BY <3>1, <3>2, ConcatProperties
    <3>. QED
      BY <3>2, <3>3
  <2>. HIDE DEF last
  <2>4. longer \in [1..(m + 1) -> Seq(V)]
    BY <2>2, <2>3
  <2>5. ASSUME NEW i \in 1..(m + 1) PROVE longer[i] = Body(longer, i)
    <3>1. CASE i = m + 1
      <4>1. i # 1 => longer[i - 1] = g[i - 1]
        BY <3>1
      <4>. QED
        BY <3>1, <4>1 DEF last
    <3>2. CASE i # m + 1
      <4>1. i \in 1..m /\ (i # 1 => i - 1 \in 1..m)
        BY <3>2
      <4>2. longer[i] = g[i] /\ (i # 1 => longer[i - 1] = g[i - 1])
        BY <4>1
      <4>. QED
        BY <2>2, <4>1, <4>2
    <3>. QED
      BY <3>1, <3>2
  <2>. HIDE DEF longer, Body
  <2>. QED
    BY <2>4, <2>5
<1>4. n \in S
  <2>. HIDE DEF S
  <2>. QED
    BY <1>1, <1>2, <1>3, Induction
<1>5. PICK g : Flattens(g, n)
  BY <1>1, <1>4
<1>6. g = [i \in 1..n |-> Body(g, i)]
  BY <1>5
<1>. DEFINE flatten == CHOOSE h : h = [i \in 1..n |-> Body(h, i)]
<1>7. flatten = [i \in 1..n |-> Body(flatten, i)]
  <2>. HIDE DEF Body
  <2>. QED
    BY <1>6
<1>8. FlattenSeq(seqs) = IF n = 0 THEN seqs ELSE flatten[n]
  BY DEF FlattenSeq
<1>9. \A i \in 1..n : flatten[i] = g[i]
  <2>. DEFINE T == {m \in Nat : m \in 1..n => flatten[m] = g[m]}
  <2>. HIDE DEF flatten
  <2>1. ASSUME NEW m \in Nat, m \in T PROVE m + 1 \in T
    <3>. SUFFICES ASSUME m + 1 \in 1..n PROVE flatten[m + 1] = g[m + 1]
      BY DEF T
    <3>1. m # 0 => flatten[m] = g[m]
      BY <2>1
    <3>2. flatten[m + 1] = Body(flatten, m + 1) /\ g[m + 1] = Body(g, m + 1)
      BY <1>5, <1>7
    <3>. QED
      BY <3>1, <3>2
  <2>2. 0 \in T
    OBVIOUS
  <2>. HIDE DEF T
  <2>3. \A m \in Nat : m \in T
    BY <2>1, <2>2, Induction
  <2>. QED
    BY <1>1, <2>3 DEF T
<1>. HIDE DEF flatten
<1>. DEFINE joined == [i \in 0..n |-> IF i = 0 THEN <<>> ELSE g[i]]
<1>10. joined \in [0..n -> Seq(V)] /\ joined[0] = <<>>
  BY <1>1, <1>5
<1>11. FlattenSeq(seqs) = joined[n]
  <2>1. n = 0 => seqs = <<>>
    BY EmptySeq
  <2>2. joined[n] = IF n = 0 THEN <<>> ELSE g[n]
    <3>1. n \in 0..n
      BY <1>1
    <3>. QED
      BY <3>1
  <2>3. n # 0 => flatten[n] = g[n]
    BY <1>1, <1>9
  <2>. QED
    <3>. HIDE DEF joined
    <3>1. CASE n = 0
      BY <1>8, <2>1, <2>2, <3>1
    <3>2. CASE n # 0
      BY <1>8, <2>2, <2>3, <3>2
    <3>. QED
      BY <3>1, <3>2
<1>12. ASSUME NEW i \in 1..n PROVE joined[i] = joined[i - 1] \o seqs[i]
  <2>1. joined[i] = Body(g, i) /\ joined[i - 1] = IF i = 1 THEN <<>> ELSE g[i - 1]
    <3>1. i # 0 /\ i \in 0..n /\ i - 1 \in 0..n /\ (i - 1 = 0 <=> i = 1)
      BY <1>1
    <3>2. joined[i] = g[i] /\ joined[i - 1] = IF i = 1 THEN <<>> ELSE g[i - 1]
      BY <3>1
    <3>3. g[i] = Body(g, i)
      BY <1>5
    <3>. QED
      BY <3>2, <3>3
  <2>2. <<>> \o seqs[i] = seqs[i]
    BY <1>1
  <2>. QED
    BY <2>1, <2>2
<1>. HIDE DEF joined
<1>. QED
  BY <1>10, <1>11, <1>12 DEF Joins


-----------------------------------------------------------------------------
(****************************************************************************)
(* The reads of the Google client (FormsClient), for any number of threads  *)
(* and any accounts whose listings are sequences.                           *)
(****************************************************************************)

\* What a thread has got of a listing while it reads on.
PartOf(read) ==
  LET whole == Whole(read.kind, read.client.of) IN
  /\ Len(read.got) \in 0..Len(whole)
  /\ read.got = SubSeq(whole, 1, Len(read.got))
  /\ read.kind = "files" => Len(read.got) < DRIVE_MAX_FORMS

\* What it has got of a spreadsheet: nothing, or the names of its grids.
NamesFirst(read) == read.got \in {<<>>, <<Names(Account[read.creds])>>}

\* A read goes through a client of its own thread and its own credentials.
OwnRead(t, read) ==
  /\ read = [kind |-> read.kind, creds |-> read.creds, client |-> read.client, got |-> read.got,
             state |-> read.state]
  /\ read.creds \in Credentials /\ read.kind \in Kinds
  /\ read.client.by = t /\ read.client.of = read.creds

\* What is said of a read that ended well.
EndsWell(read) ==
  /\ read.creds \in Credentials
  /\ ListingIsWhole(read) /\ FormIsWhole(read) /\ TimesAreTrue(read) /\ GridsAreWhole(read)

ReadsInv ==
  /\ DOMAIN clients = Threads /\ DOMAIN reads = Threads
  /\ \A t \in Threads : /\ clients[t] = NoClient \/ clients[t].by = t
                        /\ Reading(t) => /\ OwnRead(t, reads[t])
                                         /\ reads[t].kind \in Paged => PartOf(reads[t])
                                         /\ reads[t].kind = "grids" => NamesFirst(reads[t])
                        /\ reads[t].state = "done" => EndsWell(reads[t])

\* What the statistics say of the times of a listing.
LEMMA StatsOfTimes ==
  ASSUME NEW answers \in Seq(Int)
  PROVE  LET stats == Stats(Times(answers)) IN
         /\ stats.total = Cardinality({i \in DOMAIN answers : answers[i] # 0})
         /\ stats.total > 0 => \A time \in Range(answers) \ {0} : time \in stats.first..stats.last
         /\ stats.total > 0 => {stats.first, stats.last} \subseteq Range(answers) \ {0}
         /\ stats.total > 1 =>
              /\ stats.second \in Range(answers) /\ stats.second \in stats.first..stats.last
              /\ Cardinality({i \in DOMAIN answers :
                                answers[i] \notin {0} \cup (stats.second..stats.last)}) <= 1
<1>. DEFINE there == {i \in DOMAIN answers : answers[i] # 0}
            n == Cardinality(there)
            order == InOrder(there, answers)
            times == Times(answers)
            stats == Stats(times)
<1>1. DOMAIN answers = 1..Len(answers) /\ Len(answers) \in Nat /\ \A i \in DOMAIN answers : answers[i] \in Int
  OBVIOUS
<1>2. IsFiniteSet(DOMAIN answers) /\ there \in SUBSET (DOMAIN answers)
  BY <1>1, FS_Interval
<1>3. there \in SUBSET Int /\ IsFiniteSet(there) /\ \A i \in there : answers[i] \in Int
  BY <1>1, <1>2, FS_Subset
<1>4. /\ n \in Nat /\ order \in [1..n -> there]
      /\ \A i \in there : \E k \in 1..n : order[k] = i
      /\ \A k \in 1..n : Cardinality(NotAfter(there, answers, order[k])) = k
      /\ \A k, l \in 1..n : k < l => IsBefore(answers, order[k], order[l])
  <2>. HIDE DEF there
  <2>. QED
    BY <1>3, PlacesInOrder
<1>. HIDE DEF n, order
<1>5. times = [k \in 1..n |-> answers[order[k]]]
  BY <1>4 DEF Times, order
<1>6. \A k \in 1..n : times[k] \in Int /\ times[k] \in Range(answers) \ {0}
  BY <1>1, <1>2, <1>3, <1>4, <1>5 DEF Range
<1>7. times \in Seq(Int) /\ Len(times) = n /\ DOMAIN times = 1..n
  BY <1>4, <1>5, <1>6
<1>. HIDE DEF times
<1>8. stats.total = n /\ (n > 0 => stats.first = times[1] /\ stats.last = times[n])
                      /\ (n > 1 => stats.second = times[2])
  <2>1. n > 0 => times # <<>>
    BY <1>4, <1>7
  <2>2. Last(times) = times[n]
    BY <1>7 DEF Last
  <2>. QED
    BY <1>4, <1>7, <2>1, <2>2 DEF Stats
<1>. HIDE DEF stats
<1>9. \A k, l \in 1..n : k <= l => times[k] <= times[l]
  <2>. SUFFICES ASSUME NEW k \in 1..n, NEW l \in 1..n, k <= l PROVE times[k] <= times[l]
    OBVIOUS
  <2>1. CASE k = l
    BY <1>6, <2>1
  <2>2. CASE k < l
    <3>1. times[k] = answers[order[k]] /\ times[l] = answers[order[l]]
      BY <1>5
    <3>2. IsBefore(answers, order[k], order[l])
      BY <1>4, <2>2
    <3>3. times[k] \in Int /\ times[l] \in Int
      BY <1>6
    <3>. QED
      BY <3>1, <3>2, <3>3 DEF IsBefore
  <2>. QED
    BY <1>4, <2>1, <2>2
<1>10. \A i \in there : \E k \in 1..n : times[k] = answers[i]
  BY <1>4, <1>5
<1>11. ASSUME n > 0 PROVE \A time \in Range(answers) \ {0} : time \in stats.first..stats.last
  <2>. SUFFICES ASSUME NEW time \in Range(answers) \ {0} PROVE time \in times[1]..times[n]
    BY <1>8, <1>11
  <2>1. PICK i \in there : answers[i] = time
    BY DEF Range
  <2>2. PICK k \in 1..n : times[k] = time
    BY <1>10, <2>1
  <2>3. times[1] <= time /\ time <= times[n]
    BY <1>4, <1>9, <2>2
  <2>. QED
    BY <1>4, <1>6, <1>11, <2>2, <2>3
<1>12. ASSUME n > 0 PROVE {stats.first, stats.last} \subseteq Range(answers) \ {0}
  BY <1>4, <1>6, <1>8, <1>12
<1>13. ASSUME n > 1
       PROVE  /\ stats.second \in Range(answers) /\ stats.second \in stats.first..stats.last
              /\ Cardinality({i \in DOMAIN answers :
                                answers[i] \notin {0} \cup (stats.second..stats.last)}) <= 1
  <2>1. 1 \in 1..n /\ 2 \in 1..n /\ n \in 1..n
    BY <1>4, <1>13
  <2>2. stats.second \in Range(answers) /\ stats.second \in stats.first..stats.last
    BY <1>4, <1>6, <1>8, <1>9, <1>13, <2>1
  <2>. DEFINE second == order[2]
              early == {i \in DOMAIN answers : answers[i] \notin {0} \cup (stats.second..stats.last)}
              before == NotAfter(there, answers, second)
  <2>3. second \in there /\ answers[second] = times[2] /\ Cardinality(before) = 2
    BY <1>4, <1>5, <2>1
  <2>4. before \in SUBSET there /\ second \in before
    BY <1>1, <1>2, <2>3 DEF NotAfter
  <2>5. IsFiniteSet(before)
    BY <1>3, <2>4, FS_Subset
  <2>6. IsFiniteSet(before \ {second}) /\ Cardinality(before \ {second}) = 1
    <3>1. second \in before
      BY <2>4
    <3>. HIDE DEF before, second
    <3>2. IsFiniteSet(before \ {second}) /\ Cardinality(before \ {second}) = Cardinality(before) - 1
      BY <2>5, <3>1, FS_RemoveElement
    <3>. QED
      BY <2>3, <3>2
  <2>7. ASSUME NEW i \in early PROVE i \in before \ {second}
    <3>1. i \in there /\ answers[i] \in Int
      BY <1>1
    <3>2. answers[i] <= times[n]
      <4>1. PICK k \in 1..n : times[k] = answers[i]
        BY <1>10, <3>1
      <4>. QED
        BY <1>4, <1>9, <2>1, <4>1
    <3>3. times[2] \in Int /\ times[n] \in Int
      BY <1>6, <2>1
    <3>4. stats.second = times[2] /\ stats.last = times[n]
      BY <1>4, <1>8, <1>13
    <3>5. answers[i] \notin times[2]..times[n]
      BY <3>4
    <3>6. answers[i] < times[2]
      BY <3>1, <3>2, <3>3, <3>5
    <3>. QED
      BY <2>3, <3>1, <3>3, <3>6 DEF NotAfter
  <2>8. Cardinality(early) <= 1
    <3>. HIDE DEF before, second, early
    <3>. QED
      BY <2>6, <2>7, FS_Subset
  <2>. QED
    BY <2>2, <2>8
<1>14. stats.total = Cardinality({i \in DOMAIN answers : answers[i] # 0})
  BY <1>8 DEF n
<1>15. stats.total = n
  BY <1>8
<1>. HIDE DEF there
<1>. QED
  BY <1>11, <1>12, <1>13, <1>14, <1>15 DEF stats, times
LEMMA TimesOfListing ==
  ASSUME NEW read, read.creds \in Credentials, ListingIsWhole(read)
  PROVE  TimesAreTrue(read)
<1>. SUFFICES ASSUME read.kind = "times" PROVE TimesAreTrue(read)
  BY DEF TimesAreTrue
<1>1. read.got = Account[read.creds].answers /\ read.got \in Seq(Int)
  BY AccountAssumption DEF ListingIsWhole
<1>. QED
  BY <1>1, StatsOfTimes DEF TimesAreTrue

\* The names of the grids of a spreadsheet: each once, as its sheets stand.
LEMMA NamesOfGrids ==
  ASSUME NEW c \in Credentials
  PROVE  LET names == Names(Account[c]) IN
         /\ Range(names) = GridSheets(Account[c])
         /\ \A i, j \in DOMAIN names : i < j => names[i] < names[j]
<1>. DEFINE sheets == Account[c].sheets
            grids == GridSheets(Account[c])
            key == [i \in DOMAIN sheets |-> i]
            names == Names(Account[c])
<1>1. DOMAIN sheets = 1..Len(sheets) /\ Len(sheets) \in Nat
  BY AccountAssumption
<1>2. grids \in SUBSET (1..Len(sheets)) /\ IsFiniteSet(1..Len(sheets))
  BY <1>1, FS_Interval DEF GridSheets
<1>3. grids \in SUBSET Int /\ IsFiniteSet(grids) /\ \A i \in grids : key[i] = i /\ key[i] \in Int
  <2>1. IsFiniteSet(grids)
    BY <1>2, FS_Subset
  <2>. HIDE DEF grids, sheets
  <2>2. grids \in SUBSET Int
    BY <1>1, <1>2
  <2>3. \A i \in grids : key[i] = i
    BY <1>1, <1>2
  <2>. HIDE DEF key
  <2>. QED
    BY <2>1, <2>2, <2>3
<1>. HIDE DEF grids, key
<1>4. /\ names \in [1..Cardinality(grids) -> grids]
      /\ \A i \in grids : \E k \in 1..Cardinality(grids) : names[k] = i
      /\ \A k, l \in 1..Cardinality(grids) : k < l => IsBefore(key, names[k], names[l])
  <2>1. names = InOrder(grids, key)
    BY DEF Names, grids, key
  <2>. HIDE DEF names
  <2>. QED
    BY <1>3, <2>1, PlacesInOrder
<1>. HIDE DEF names
<1>5. Range(names) = grids
  BY <1>4 DEF Range
<1>6. ASSUME NEW i \in DOMAIN names, NEW j \in DOMAIN names, i < j PROVE names[i] < names[j]
  <2>1. IsBefore(key, names[i], names[j]) /\ names[i] \in grids /\ names[j] \in grids
    BY <1>4, <1>6
  <2>. QED
    BY <1>3, <2>1 DEF IsBefore
<1>. QED
  BY <1>5, <1>6 DEF names, grids

LEMMA InitReadsInv == ReadInit => ReadsInv
  BY DEF ReadInit, ReadsInv, Reading, NoRead

LEMMA ListingsAreSequences ==
  ASSUME NEW c \in Credentials, NEW kind
  PROVE  Whole(kind, c) \in Seq(Range(Whole(kind, c))) /\ Len(Whole(kind, c)) \in Nat
<1>1. /\ Account[c].files \in Seq(Range(Account[c].files))
      /\ Account[c].answers \in Seq(Range(Account[c].answers))
  <2>1. Account[c].files \in Seq(Range(Account[c].files)) /\ Account[c].answers \in Seq(Int)
    BY AccountAssumption
  <2>. DEFINE answers == Account[c].answers
  <2>2. answers \in [1..Len(answers) -> Range(answers)] /\ Len(answers) \in Nat
    BY <2>1 DEF Range
  <2>. HIDE DEF answers
  <2>3. answers \in Seq(Range(answers))
    BY <2>2
  <2>. QED
    BY <2>1, <2>3 DEF answers
<1>2. Whole(kind, c) \in Seq(Range(Whole(kind, c)))
  BY <1>1 DEF Whole
<1>. QED
  BY <1>2, LenProperties

\* forms_service gives a thread a client of its own, for what it asked.
LEMMA ServiceIsOwn ==
  ASSUME ReadsInv, NEW t \in Threads, NEW c, NEW timeout \in {"catalog", "default"}
  PROVE  FormsService(t, c, timeout).by = t /\ FormsService(t, c, timeout).of = c
<1>1. clients[t] = NoClient \/ clients[t].by = t
  BY DEF ReadsInv
<1>2. NoClient.timeout # timeout
  BY DEF NoClient
<1>. QED
  BY <1>1, <1>2 DEF FormsService

\* A step of a read alone.
LEMMA ReadChanges ==
  ASSUME ReadsInv, NEW t \in Threads, NEW new,
         reads' = [reads EXCEPT ![t] = new], clients' = clients,
         new.state = "reading" => /\ OwnRead(t, new)
                                  /\ new.kind \in Paged => PartOf(new)
                                  /\ new.kind = "grids" => NamesFirst(new),
         new.state = "done" => EndsWell(new)
  PROVE  ReadsInv'
<1>1. \A u \in Threads : reads'[u] = IF u = t THEN new ELSE reads[u]
  BY DEF ReadsInv
<1>. QED
  BY <1>1 DEF ReadsInv, Reading

\* A read that goes on or ends.
Further(read, got, after) == [[read EXCEPT !.got = got] EXCEPT !.state = after]

LEMMA FurtherRead ==
  ASSUME NEW t, NEW read, OwnRead(t, read), NEW got, NEW after
  PROVE  /\ OwnRead(t, Further(read, got, after))
         /\ Further(read, got, after).kind = read.kind
         /\ Further(read, got, after).creds = read.creds
         /\ Further(read, got, after).client = read.client
         /\ Further(read, got, after).got = got
         /\ Further(read, got, after).state = after
<1>. DEFINE kind == read.kind
            creds == read.creds
            client == read.client
            Record(g, s) == [kind |-> kind, creds |-> creds, client |-> client, got |-> g, state |-> s]
            old == Record(read.got, read.state)
            new == Record(got, after)
<1>1. Further(read, got, after) = new
  <2>1. read = old
    BY DEF OwnRead
  <2>. HIDE DEF kind, creds, client
  <2>2. [old EXCEPT !.got = got] = Record(got, read.state)
    OBVIOUS
  <2>3. [Record(got, read.state) EXCEPT !.state = after] = new
    OBVIOUS
  <2>. QED
    BY <2>1, <2>2, <2>3 DEF Further
<1>. QED
  BY <1>1 DEF OwnRead

LEMMA StartKeepsReads ==
  ASSUME ReadsInv, NEW t \in Threads, NEW kind \in Kinds, NEW c \in Credentials, StartRead(t, kind, c)
  PROVE  ReadsInv'
<1>. DEFINE own == kind \in {"files", "grids"}
            client == IF own THEN [of |-> c, timeout |-> "default", by |-> t]
                      ELSE FormsService(t, c, Timeout(kind))
            new == [kind |-> kind, creds |-> c, client |-> client, got |-> <<>>, state |-> "reading"]
<1>1. /\ reads' = [reads EXCEPT ![t] = new]
      /\ clients' = IF own THEN clients ELSE [clients EXCEPT ![t] = client]
  BY DEF StartRead
<1>2. client.by = t /\ client.of = c
  BY ServiceIsOwn DEF Timeout
<1>. HIDE DEF client
<1>3. OwnRead(t, new)
  BY <1>2 DEF OwnRead
<1>4. PartOf(new)
  <2>1. Len(Whole(kind, c)) \in Nat
    BY ListingsAreSequences
  <2>2. SubSeq(Whole(kind, c), 1, 0) = <<>> /\ Len(<<>>) = 0
    OBVIOUS
  <2>. QED
    BY <1>2, <2>1, <2>2, FormsClientAssumption DEF PartOf
<1>5. new.state = "reading" /\ NamesFirst(new)
  BY DEF NamesFirst
<1>. HIDE DEF new
<1>6. \A u \in Threads : /\ reads'[u] = IF u = t THEN new ELSE reads[u]
                         /\ clients'[u] = clients[u] \/ (u = t /\ clients'[u] = client)
  BY <1>1 DEF ReadsInv
<1>7. DOMAIN clients' = Threads /\ DOMAIN reads' = Threads
  BY <1>1 DEF ReadsInv
<1>. QED
  BY <1>2, <1>3, <1>4, <1>5, <1>6, <1>7 DEF ReadsInv, Reading

\* A page: as many as came are a beginning of the listing, and the read ends with
\* all of it or with as many forms as are kept.
LEMMA PageKeepsReads ==
  ASSUME ReadsInv, NEW t \in Threads, NextPage(t)
  PROVE  ReadsInv'
<1>. DEFINE read == reads[t]
            whole == Whole(read.kind, read.client.of)
<1>1. Reading(t) /\ read.kind \in Paged /\ OwnRead(t, read) /\ PartOf(read) /\ clients' = clients
  BY DEF NextPage, ReadsInv
<1>2. read.state = "reading" /\ read.client.of = read.creds /\ read.creds \in Credentials
  BY <1>1 DEF Reading, OwnRead
<1>3. whole \in Seq(Range(whole)) /\ Len(whole) \in Nat
  BY <1>2, ListingsAreSequences
<1>4. Len(read.got) \in 0..Len(whole) /\ (read.kind = "files" => Len(read.got) < DRIVE_MAX_FORMS)
  BY <1>1 DEF PartOf
<1>5. PICK n \in 0..(Len(whole) - Len(read.got)), token \in BOOLEAN :
        LET got == SubSeq(whole, 1, Len(read.got) + n) IN
        /\ read.kind = "files" => n <= PageSize(read.got)
        /\ n < Len(whole) - Len(read.got) => token
        /\ reads' = [reads EXCEPT ![t].got = got,
                                  ![t].state = IF Ends(read, got, token) THEN "done" ELSE @]
  BY DEF NextPage
<1>. DEFINE many == Len(read.got) + n
            got == SubSeq(whole, 1, many)
            after == IF Ends(read, got, token) THEN "done" ELSE "reading"
            new == Further(read, got, after)
<1>6. reads' = [reads EXCEPT ![t] = new]
  BY <1>2, <1>5 DEF Further
<1>. HIDE DEF after
<1>0. /\ OwnRead(t, new) /\ new.kind = read.kind /\ new.creds = read.creds /\ new.client = read.client
      /\ new.got = got /\ new.state = after
  <2>. HIDE DEF read, got
  <2>. QED
    BY <1>1, FurtherRead
<1>7. many \in Nat /\ many <= Len(whole) /\ (many < Len(whole) => token)
  <2>. DEFINE size == Len(whole)
              had == Len(read.got)
  <2>1. size \in Nat /\ had \in 0..size /\ n \in 0..(size - had)
    BY <1>3, <1>4
  <2>2. n < size - had => token
    BY <1>5
  <2>. HIDE DEF size, had, whole
  <2>3. had + n \in Nat /\ had + n <= size /\ (had + n < size <=> n < size - had)
    BY <2>1
  <2>. QED
    BY <2>2, <2>3 DEF size, had
<1>8. read.kind = "files" => many <= DRIVE_MAX_FORMS
  BY <1>4, <1>5, <1>7, FormsClientAssumption DEF PageSize
<1>. HIDE DEF many
<1>9. Len(got) = many /\ got = SubSeq(whole, 1, Len(got))
  BY <1>3, <1>7, SubSeqProperties
<1>10. Ends(read, got, token) <=> ~token \/ (read.kind = "files" /\ many >= DRIVE_MAX_FORMS)
  BY <1>9 DEF Ends
<1>11. many = Len(whole) => got = whole
  BY <1>3, <1>7, SubSeqProperties
<1>. HIDE DEF whole
<1>12. ASSUME Ends(read, got, token) PROVE EndsWell(new)
  <2>. HIDE DEF got
  <2>1. /\ new.kind = read.kind /\ new.creds = read.creds /\ new.got = got
        /\ whole = IF read.kind = "files" THEN Account[read.creds].files ELSE Account[read.creds].answers
    BY <1>0, <1>2 DEF whole, Whole
  <2>2. FormIsWhole(new) /\ GridsAreWhole(new) /\ new.creds \in Credentials
    BY <1>1, <1>2, <2>1 DEF FormIsWhole, GridsAreWhole, RowsAreOfTheirGrid, Paged
  <2>. SUFFICES ListingIsWhole(new)
    BY <2>2, TimesOfListing DEF EndsWell
  <2>3. CASE read.kind = "files"
    <3>1. whole = Account[new.creds].files
      BY <2>1, <2>3
    <3>2. many = Len(whole) \/ many = DRIVE_MAX_FORMS
      BY <1>3, <1>7, <1>8, <1>10, <1>12, <2>3, FormsClientAssumption
    <3>3. many = IF Len(whole) < DRIVE_MAX_FORMS THEN Len(whole) ELSE DRIVE_MAX_FORMS
      BY <1>3, <1>7, <1>8, <2>3, <3>2, FormsClientAssumption
    <3>4. SubSeq(got, 1, Len(got)) = got
      BY <1>3, <1>7, <1>9, SubSeqProperties DEF got
    <3>5. IsPrefix(got, whole)
      BY <1>7, <1>9, <3>4 DEF IsPrefix
    <3>6. new.kind = "files"
      BY <2>1, <2>3
    <3>. QED
      BY <1>9, <2>1, <3>1, <3>3, <3>5, <3>6 DEF ListingIsWhole
  <2>4. CASE read.kind # "files"
    <3>1. many = Len(whole)
      BY <1>3, <1>7, <1>10, <1>12, <2>4
    <3>2. got = Account[new.creds].answers
      BY <1>11, <2>1, <2>4, <3>1
    <3>. QED
      BY <2>1, <2>4, <3>2 DEF ListingIsWhole
  <2>. QED
    BY <2>3, <2>4
<1>13. ASSUME ~Ends(read, got, token) PROVE OwnRead(t, new) /\ PartOf(new) /\ new.kind # "grids"
  <2>1. OwnRead(t, new)
    BY <1>0
  <2>2. read.kind = "files" => many < DRIVE_MAX_FORMS
    <3>1. read.kind = "files" => ~(many >= DRIVE_MAX_FORMS)
      BY <1>10, <1>13
    <3>. QED
      BY <1>7, <3>1, FormsClientAssumption
  <2>3. new.kind = read.kind /\ new.client = read.client /\ new.got = got
    BY <1>0
  <2>4. new.kind # "grids"
    BY <1>1, <2>3 DEF Paged
  <2>5. many \in 0..Len(whole)
    BY <1>3, <1>7
  <2>6. Whole(new.kind, new.client.of) = whole
    BY <2>3 DEF whole
  <2>7. PartOf(new)
    <3>. HIDE DEF new, got
    <3>. QED
      BY <1>9, <2>2, <2>3, <2>5, <2>6 DEF PartOf
  <2>. QED
    BY <2>1, <2>4, <2>7
<1>14. new.state = IF Ends(read, got, token) THEN "done" ELSE "reading"
  BY <1>0 DEF after
<1>. HIDE DEF new, got
<1>. QED
  BY <1>1, <1>6, <1>12, <1>13, <1>14, ReadChanges

LEMMA FormKeepsReads ==
  ASSUME ReadsInv, NEW t \in Threads, Form(t)
  PROVE  ReadsInv'
<1>1. /\ Reading(t) /\ reads[t].kind \in Single /\ OwnRead(t, reads[t]) /\ clients' = clients
  BY DEF Form, ReadsInv
<1>. DEFINE account == Account[reads[t].creds]
            got == <<IF reads[t].kind = "summary" THEN Summary(account) ELSE account.items>>
            new == Further(reads[t], got, "done")
<1>2. reads' = [reads EXCEPT ![t] = new]
  BY <1>1 DEF Form, OwnRead, Further
<1>3. new.kind = reads[t].kind /\ new.creds = reads[t].creds /\ new.got = got /\ new.state = "done"
  BY <1>1, FurtherRead
<1>. HIDE DEF new
<1>4. new.creds \in Credentials
  BY <1>1, <1>3 DEF OwnRead
<1>5. ListingIsWhole(new) /\ FormIsWhole(new) /\ GridsAreWhole(new)
  BY <1>1, <1>3 DEF ListingIsWhole, FormIsWhole, GridsAreWhole, RowsAreOfTheirGrid, Single
<1>6. EndsWell(new)
  BY <1>4, <1>5, TimesOfListing DEF EndsWell
<1>. QED
  BY <1>1, <1>2, <1>3, <1>6, ReadChanges

LEMMA GridsKeepReads ==
  ASSUME ReadsInv, NEW t \in Threads, GridNames(t) \/ GridValues(t)
  PROVE  ReadsInv'
<1>1. /\ Reading(t) /\ reads[t].kind = "grids" /\ OwnRead(t, reads[t]) /\ clients' = clients
      /\ NamesFirst(reads[t])
  BY DEF GridNames, GridValues, ReadsInv
<1>2. reads[t].creds \in Credentials /\ reads[t].client.of = reads[t].creds /\ reads[t].state = "reading"
  BY <1>1 DEF OwnRead, Reading
<1>. DEFINE account == Account[reads[t].creds]
            names == Names(account)
            rows == [i \in DOMAIN names |-> account.sheets[names[i]].rows]
<1>3. PICK got, after :
        /\ reads' = [reads EXCEPT ![t] = Further(@, got, after)]
        /\ got = <<names>> \/ got = <<names, rows>>
        /\ after = "done" => names = <<>> \/ got = <<names, rows>>
        /\ after = "reading" => got = <<names>>
  <2>. DEFINE Fits(got, after) == /\ got = <<names>> \/ got = <<names, rows>>
                                  /\ after = "done" => names = <<>> \/ got = <<names, rows>>
                                  /\ after = "reading" => got = <<names>>
  <2>1. CASE GridNames(t)
    <3>. DEFINE after == IF names = <<>> THEN "done" ELSE reads[t].state
    <3>1. reads' = [reads EXCEPT ![t].got = <<names>>, ![t].state = after]
      BY <1>2, <2>1 DEF GridNames
    <3>2. Fits(<<names>>, after)
      BY <1>2
    <3>. HIDE DEF names, after, Fits
    <3>3. reads' = [reads EXCEPT ![t] = Further(@, <<names>>, after)]
      BY <3>1 DEF Further
    <3>. QED
      BY <3>2, <3>3 DEF Fits
  <2>2. CASE GridValues(t)
    <3>. DEFINE got == <<names, rows>>
    <3>1. reads[t].got = <<names>>
      BY <1>1, <2>2 DEF GridValues, NamesFirst
    <3>2. reads' = [reads EXCEPT ![t].state = "done", ![t].got = got]
      BY <1>2, <2>2, <3>1 DEF GridValues
    <3>3. Fits(got, "done")
      OBVIOUS
    <3>. HIDE DEF got, Fits
    <3>4. reads' = [reads EXCEPT ![t] = Further(@, got, "done")]
      BY <1>1, <3>2 DEF Further, OwnRead
    <3>. QED
      BY <3>3, <3>4 DEF Fits
  <2>. QED
    BY <2>1, <2>2
<1>. DEFINE new == Further(reads[t], got, after)
<1>4. reads' = [reads EXCEPT ![t] = new]
  BY <1>3
<1>5. OwnRead(t, new) /\ new.kind = "grids" /\ new.creds = reads[t].creds /\ new.got = got /\ new.state = after
  BY <1>1, FurtherRead
<1>6. /\ Range(names) = GridSheets(account)
      /\ \A i, j \in DOMAIN names : i < j => names[i] < names[j]
  BY <1>2, NamesOfGrids
<1>. HIDE DEF new, names
<1>7. ListingIsWhole(new) /\ FormIsWhole(new) /\ TimesAreTrue(new) /\ new.kind \notin Paged
  BY <1>5 DEF ListingIsWhole, FormIsWhole, TimesAreTrue, Paged
<1>8. got[1] = names
  BY <1>3
<1>9. ASSUME after = "done" PROVE GridsAreWhole(new)
  <2>1. RowsAreOfTheirGrid(new)
    <3>1. CASE names = <<>>
      BY <1>5, <1>8, <3>1 DEF RowsAreOfTheirGrid
    <3>2. CASE got = <<names, rows>>
      <4>1. got[2] = rows /\ \A i \in DOMAIN names : rows[i] = account.sheets[names[i]].rows
        BY <3>2
      <4>. HIDE DEF rows
      <4>. QED
        BY <1>5, <1>8, <4>1 DEF RowsAreOfTheirGrid
    <3>. QED
      BY <1>3, <1>9, <3>1, <3>2
  <2>. QED
    BY <1>5, <1>6, <1>8, <2>1 DEF GridsAreWhole
<1>10. after = "reading" => NamesFirst(new)
  BY <1>3, <1>5 DEF NamesFirst, names
<1>. QED
  BY <1>1, <1>2, <1>4, <1>5, <1>7, <1>9, <1>10, ReadChanges DEF EndsWell

LEMMA FailKeepsReads ==
  ASSUME ReadsInv, NEW t \in Threads, Fail(t)
  PROVE  ReadsInv'
<1>1. OwnRead(t, reads[t]) /\ clients' = clients
  BY DEF Fail, ReadsInv
<1>. DEFINE new == [reads[t] EXCEPT !.state = "failed", !.got = <<>>]
<1>2. reads' = [reads EXCEPT ![t] = new]
  BY DEF Fail
<1>3. new.state = "failed"
  BY <1>1 DEF OwnRead
<1>. HIDE DEF new
<1>. QED
  BY <1>1, <1>2, <1>3, ReadChanges

LEMMA NextReadsInv == ReadsInv /\ [ReadNext]_readVars => ReadsInv'
<1>. SUFFICES ASSUME ReadsInv, [ReadNext]_readVars PROVE ReadsInv'
  OBVIOUS
<1>1. CASE UNCHANGED readVars
  BY <1>1 DEF ReadsInv, Reading, readVars
<1>. QED
  BY <1>1, StartKeepsReads, PageKeepsReads, FormKeepsReads, GridsKeepReads, FailKeepsReads DEF ReadNext

\* In every reachable state a read that goes on uses a client that its thread made
\* for its own credentials, and holds a beginning of their listing
\* (core/forms_api.py, forms_service; core/forms_catalog.py).
THEOREM ReadsInvariance == ReadSpec => []ReadsInv
  BY InitReadsInv, NextReadsInv, PTL DEF ReadSpec

\* No two threads ever send over one connection (core/forms_api.py, forms_service).
THEOREM ClientsAreNotSharedHolds == ReadSpec => []ClientsAreNotShared
<1>1. ReadsInv => ClientsAreNotShared
  BY DEF ReadsInv, OwnRead, ClientsAreNotShared
<1>. QED
  BY <1>1, ReadsInvariance, PTL

\* Two lists of questions that speak of the same ones.
Agree(parsed, drawn) ==
  /\ Len(parsed) = Len(drawn)
  /\ \A i \in DOMAIN parsed :
       /\ parsed[i].id = drawn[i].id
       /\ (parsed[i].type = "MULTIPLE_CHOICE") <=> drawn[i].type \in {"RADIO", "DROP_DOWN"}

LEMMA AgreeFurther ==
  ASSUME NEW V, NEW p \in Seq(V), NEW q \in Seq(V), NEW d \in Seq(V), NEW e \in Seq(V),
         Agree(p, d), Agree(q, e)
  PROVE  Agree(p \o q, d \o e)
<1>1. Len(p) = Len(d) /\ Len(q) = Len(e) /\ Len(p) \in Nat /\ Len(q) \in Nat
  BY DEF Agree
<1>2. /\ p \o q \in Seq(V) /\ d \o e \in Seq(V)
      /\ Len(p \o q) = Len(p) + Len(q) /\ Len(d \o e) = Len(d) + Len(e)
  BY ConcatProperties
<1>3. ASSUME NEW i \in DOMAIN (p \o q)
      PROVE  \/ i \in DOMAIN p /\ (p \o q)[i] = p[i] /\ (d \o e)[i] = d[i]
             \/ i - Len(p) \in DOMAIN q /\ (p \o q)[i] = q[i - Len(p)]
                                      /\ (d \o e)[i] = e[i - Len(p)]
  <2>1. i \in 1..(Len(p) + Len(q))
    BY <1>2
  <2>. QED
    BY <1>1, <2>1
<1>. QED
  BY <1>1, <1>2, <1>3 DEF Agree

\* What an item adds to each of the lists.
ParsedOf(item) ==
  IF item.kind = "question" \/ (item.kind = "grid" /\ item.columns)
  THEN RowsOf(item, TypeOf(item)) ELSE <<>>
DrawnOf(item) ==
  IF item.kind = "question" THEN RowsOf(item, item.type)
  ELSE IF item.kind = "grid" THEN RowsOf(item, IF item.columns THEN item.type ELSE "other") ELSE <<>>
IsOneItem(item) ==
  /\ item.rows \in Seq(Range(item.rows))
  /\ item.kind = "question" => Len(item.rows) = 1
  /\ item.kind = "grid" => item.columns /\ Len(item.rows) > 0

LEMMA ItemAgrees ==
  ASSUME NEW item, IsOneItem(item), NEW V,
         \A i \in DOMAIN item.rows : [id |-> item.rows[i], type |-> TypeOf(item)] \in V,
         \A i \in DOMAIN item.rows : [id |-> item.rows[i], type |-> item.type] \in V
  PROVE  /\ ParsedOf(item) \in Seq(V) /\ DrawnOf(item) \in Seq(V)
         /\ Agree(ParsedOf(item), DrawnOf(item))
         /\ item.kind \in {"question", "grid"} => Len(ParsedOf(item)) >= 1
<1>1. DOMAIN item.rows = 1..Len(item.rows) /\ Len(item.rows) \in Nat
  BY DEF IsOneItem
<1>2. CASE item.kind \in {"question", "grid"}
  <2>. DEFINE parsed == RowsOf(item, TypeOf(item))
              drawn == RowsOf(item, item.type)
  <2>1. ParsedOf(item) = parsed /\ DrawnOf(item) = drawn
    BY <1>2 DEF ParsedOf, DrawnOf, IsOneItem
  <2>2. parsed \in Seq(V) /\ Len(parsed) = Len(item.rows) /\ drawn \in Seq(V) /\ Len(drawn) = Len(item.rows)
    BY <1>1 DEF RowsOf
  <2>3. \A i \in 1..Len(item.rows) : /\ parsed[i].id = item.rows[i] /\ parsed[i].type = TypeOf(item)
                                     /\ drawn[i].id = item.rows[i] /\ drawn[i].type = item.type
    BY <1>1 DEF RowsOf
  <2>4. (TypeOf(item) = "MULTIPLE_CHOICE") <=> item.type \in {"RADIO", "DROP_DOWN"}
    BY DEF TypeOf
  <2>. HIDE DEF parsed, drawn
  <2>5. Agree(parsed, drawn)
    BY <2>2, <2>3, <2>4 DEF Agree
  <2>6. Len(item.rows) >= 1
    <3>1. item.kind = "question" \/ item.kind = "grid"
      BY <1>2
    <3>2. Len(item.rows) = 1 \/ Len(item.rows) > 0
      BY <3>1 DEF IsOneItem
    <3>. QED
      BY <1>1, <3>2
  <2>. QED
    BY <2>1, <2>2, <2>5, <2>6
<1>3. CASE item.kind \notin {"question", "grid"}
  <2>1. ParsedOf(item) = <<>> /\ DrawnOf(item) = <<>>
    BY <1>3 DEF ParsedOf, DrawnOf
  <2>. QED
    BY <1>3, <2>1 DEF Agree
<1>. QED
  BY <1>2, <1>3

\* The two lists of the questions of a form agree, and miss none of them.
LEMMA ListsOfQuestions ==
  ASSUME NEW items, items \in Seq(Range(items)), \A item \in Range(items) : IsOneItem(item)
  PROVE  /\ Agree(ParseQuestionTypes(items), IterQuestions(items))
         /\ Len(ParseQuestionTypes(items)) >= Cardinality(OfKind(items, {"question", "grid"}))
<1>. DEFINE n == Len(items)
            V == UNION {{[id |-> item.rows[i], type |-> type] : i \in DOMAIN item.rows,
                         type \in {TypeOf(item), item.type}} : item \in Range(items)}
            parts == [i \in DOMAIN items |-> ParsedOf(items[i])]
            drawings == [i \in DOMAIN items |-> DrawnOf(items[i])]
<1>1. n \in Nat /\ DOMAIN items = 1..n /\ \A i \in 1..n : items[i] \in Range(items)
  BY DEF Range
<1>2. ASSUME NEW i \in 1..n
      PROVE  /\ ParsedOf(items[i]) \in Seq(V) /\ DrawnOf(items[i]) \in Seq(V)
             /\ Agree(ParsedOf(items[i]), DrawnOf(items[i]))
             /\ items[i].kind \in {"question", "grid"} => Len(ParsedOf(items[i])) >= 1
  <2>1. items[i] \in Range(items) /\ IsOneItem(items[i])
    BY <1>1
  <2>2. /\ \A j \in DOMAIN items[i].rows : [id |-> items[i].rows[j], type |-> TypeOf(items[i])] \in V
        /\ \A j \in DOMAIN items[i].rows : [id |-> items[i].rows[j], type |-> items[i].type] \in V
    BY <2>1
  <2>. HIDE DEF V
  <2>. QED
    BY <2>1, <2>2, ItemAgrees
<1>. HIDE DEF V
<1>3. /\ parts \in Seq(Seq(V)) /\ Len(parts) = n /\ \A i \in 1..n : parts[i] = ParsedOf(items[i])
      /\ drawings \in Seq(Seq(V)) /\ Len(drawings) = n /\ \A i \in 1..n : drawings[i] = DrawnOf(items[i])
  BY <1>1, <1>2
<1>4. ParseQuestionTypes(items) = FlattenSeq(parts) /\ IterQuestions(items) = FlattenSeq(drawings)
  BY DEF ParseQuestionTypes, IterQuestions, ParsedOf, DrawnOf
<1>. HIDE DEF parts, drawings, n
<1>5. PICK p : Joins(V, parts, n, p)
  BY <1>3, Joined
<1>6. PICK d : Joins(V, drawings, n, d)
  BY <1>3, Joined
<1>. DEFINE Questions(m) == {i \in 1..m : items[i].kind \in {"question", "grid"}}
            S == {m \in Nat : m <= n => /\ Agree(p[m], d[m])
                                       /\ IsFiniteSet(Questions(m))
                                       /\ Len(p[m]) >= Cardinality(Questions(m))}
<1>7. 0 \in S
  <2>1. Questions(0) = {} /\ Len(<<>>) = 0 /\ Agree(<<>>, <<>>)
    BY DEF Agree
  <2>. QED
    BY <1>5, <1>6, <2>1, FS_EmptySet DEF Joins
<1>8. ASSUME NEW m \in Nat, m \in S PROVE m + 1 \in S
  <2>. SUFFICES ASSUME m + 1 <= n
                PROVE  /\ Agree(p[m + 1], d[m + 1])
                       /\ IsFiniteSet(Questions(m + 1))
                       /\ Len(p[m + 1]) >= Cardinality(Questions(m + 1))
    <3>. HIDE DEF Questions
    <3>. QED
      OBVIOUS
  <2>. DEFINE item == items[m + 1]
  <2>1. m <= n /\ m \in 0..n /\ m + 1 \in 1..n /\ (m + 1) - 1 = m
    BY <1>1
  <2>2. Agree(p[m], d[m]) /\ IsFiniteSet(Questions(m)) /\ Len(p[m]) >= Cardinality(Questions(m))
    BY <1>8, <2>1
  <2>3. /\ p[m + 1] = p[m] \o ParsedOf(item) /\ d[m + 1] = d[m] \o DrawnOf(item)
        /\ p[m] \in Seq(V) /\ d[m] \in Seq(V)
    BY <1>3, <1>5, <1>6, <2>1 DEF Joins
  <2>4. /\ ParsedOf(item) \in Seq(V) /\ DrawnOf(item) \in Seq(V) /\ Agree(ParsedOf(item), DrawnOf(item))
        /\ item.kind \in {"question", "grid"} => Len(ParsedOf(item)) >= 1
    BY <1>2, <2>1
  <2>5. Agree(p[m + 1], d[m + 1])
    BY <2>2, <2>3, <2>4, AgreeFurther
  <2>6. Len(p[m + 1]) = Len(p[m]) + Len(ParsedOf(item)) /\ Len(p[m]) \in Nat /\ Len(ParsedOf(item)) \in Nat
    BY <2>3, <2>4, ConcatProperties
  <2>7. Questions(m + 1) = IF item.kind \in {"question", "grid"} THEN Questions(m) \cup {m + 1} ELSE Questions(m)
    BY <2>1
  <2>8. m + 1 \notin Questions(m)
    OBVIOUS
  <2>. HIDE DEF Questions
  <2>9. /\ IsFiniteSet(Questions(m) \cup {m + 1}) /\ Cardinality(Questions(m)) \in Nat
        /\ Cardinality(Questions(m) \cup {m + 1}) = Cardinality(Questions(m)) + 1
    BY <2>2, <2>8, FS_AddElement, FS_CardinalityType
  <2>10. IsFiniteSet(Questions(m + 1))
    BY <2>2, <2>7, <2>9
  <2>11. Len(p[m + 1]) >= Cardinality(Questions(m + 1))
    <3>. DEFINE before == Cardinality(Questions(m))
                after == Cardinality(Questions(m + 1))
                had == Len(p[m])
                more == Len(ParsedOf(item))
    <3>1. \/ after = before
          \/ after = before + 1 /\ more >= 1
      BY <2>4, <2>7, <2>9
    <3>2. before \in Nat /\ had \in Nat /\ more \in Nat /\ had >= before
      BY <2>2, <2>6, <2>9
    <3>. HIDE DEF before, after, had, more
    <3>3. had + more >= after
      BY <3>1, <3>2
    <3>. QED
      BY <2>6, <3>3 DEF had, more, after
  <2>. QED
    BY <2>5, <2>10, <2>11
<1>9. n \in S
  <2>. HIDE DEF S
  <2>. QED
    BY <1>1, <1>7, <1>8, Induction
<1>10. OfKind(items, {"question", "grid"}) = Questions(n)
  BY <1>1 DEF OfKind
<1>. HIDE DEF Questions
<1>. QED
  BY <1>1, <1>4, <1>5, <1>6, <1>9, <1>10 DEF Joins
\* A read that ends well brings all there is in the account of its own
\* credentials, for any cut of a listing into pages and any end of their tokens:
\* a form, its times sorted, the grids under their names; no two threads send over
\* one connection; and the two listings of a form's questions agree
\* (core/forms_catalog.py, list_forms_with_drive_meta; core/forms_api.py;
\* core/sheets_api.py, fetch_all_grids; core/forms_quality.py, _iter_questions).
THEOREM ReadsAreTheirOwnHolds == ReadSpec => []ReadsAreTheirOwn
<1>1. ReadsInv => ReadsAreWhole /\ ClientsAreNotShared
  BY DEF ReadsInv, EndsWell, ReadsAreWhole, OwnRead, ClientsAreNotShared
<1>2. ReadsInv => ListingsAgree
  <2>. SUFFICES ASSUME ReadsInv, NEW t \in Threads, reads[t].kind = "structure", reads[t].state = "done"
                PROVE  LET items == reads[t].got[1] IN
                       /\ Agree(ParseQuestionTypes(items), IterQuestions(items))
                       /\ Len(ParseQuestionTypes(items)) >= Summary([items |-> items, publish |-> {}]).questions
    BY DEF ListingsAgree, Agree
  <2>. DEFINE items == reads[t].got[1]
              c == reads[t].creds
  <2>1. c \in Credentials /\ items = Account[c].items
    BY DEF ReadsInv, EndsWell, FormIsWhole
  <2>2. items \in Seq(Range(items)) /\ \A item \in Range(items) : IsOneItem(item)
    BY <2>1, AccountAssumption, ItemAssumption DEF IsOneItem
  <2>. HIDE DEF items
  <2>3. Summary([items |-> items, publish |-> {}]).questions = Cardinality(OfKind(items, {"question", "grid"}))
    BY DEF Summary
  <2>. QED
    BY <2>2, <2>3, ListsOfQuestions DEF items
<1>. QED
  BY <1>1, <1>2, ReadsInvariance, PTL DEF ReadsAreTheirOwn

-----------------------------------------------------------------------------
\* The reason that is kept is about scopes whenever one of them is.
LEMMA ScopeReasonIsKept ==
  ASSUME NEW reasons \in Seq(STRING)
  PROVE  Api!Reason(reasons) \in Api!ScopeReasons <=> Api!ToSet(reasons) \cap Api!ScopeReasons # {}
<1>. DEFINE places == {i \in 1..Len(reasons) : reasons[i] \in Api!ScopeReasons}
            first == IF places # {} THEN Api!Min(places) ELSE 0
<1>1. Api!Reason(reasons) =
        CASE first # 0 -> reasons[first]
          [] first = 0 /\ reasons # <<>> -> reasons[1]
          [] OTHER -> "none"
  BY DEF Api!Reason, Api!SelectInSeq, Api!Min
<1>2. places # {} => Api!Min(places) \in places
  <2>1. places \in SUBSET Nat
    OBVIOUS
  <2>. HIDE DEF places
  <2>2. Api!Min(places) = Min(places)
    BY Zenon DEF Min, Api!Min
  <2>. QED
    BY <2>1, <2>2, FirstPlace
<1>3. CASE places # {}
  <2>1. first \in 1..Len(reasons) /\ reasons[first] \in Api!ScopeReasons
    BY <1>2, <1>3
  <2>. QED
    BY <1>1, <2>1 DEF Api!ToSet
<1>4. CASE places = {}
  <2>1. \A i \in 1..Len(reasons) : reasons[i] \notin Api!ScopeReasons
    BY <1>4
  <2>2. reasons # <<>> => 1 \in 1..Len(reasons)
    OBVIOUS
  <2>3. Api!Reason(reasons) = (IF reasons # <<>> THEN reasons[1] ELSE "none")
    BY <1>1, <1>4
  <2>4. "none" \notin Api!ScopeReasons
    BY DEF Api!ScopeReasons
  <2>. QED
    BY <2>1, <2>2, <2>3, <2>4 DEF Api!ToSet
<1>. QED
  BY <1>3, <1>4

\* An answer without a code says no more than its status.
LEMMA PlainAnswer ==
  ASSUME NEW status \in Nat
  PROVE  Api!TypedError(Api!Answer(status, "none")) =
           IF status = 401 THEN "session"
           ELSE IF status = 502 THEN "google"
           ELSE IF status >= 500 THEN "server"
           ELSE IF status = 200 THEN "none"
           ELSE "http"
<1>. DEFINE answer == Api!Answer(status, "none")
<1>1. answer.status = status /\ answer.code = "none"
  BY DEF Api!Answer
<1>2. answer # Api!Lacking
  <2>1. Api!Lacking.code = "google_insufficient_scopes"
    BY DEF Api!Lacking, Api!Answer
  <2>. QED
    BY <1>1, <2>1
<1>. HIDE DEF answer
<1>3. Api!TypedError(answer) =
           IF status = 401 THEN "session"
           ELSE IF status = 502 THEN "google"
           ELSE IF status >= 500 THEN "server"
           ELSE IF status = 200 THEN "none"
           ELSE "http"
  BY <1>1, <1>2 DEF Api!TypedError
<1>. QED
  BY <1>3 DEF answer

\* What becomes of a case whose call does not reach Google.
LEMMA TurnedAwayIsShown ==
  ASSUME NEW c \in Api!Cases, ~(Api!Reaches(c) /\ c.account = "ok")
  PROVE  /\ Api!Shown(c) = "sign_out" <=>
              c.host = 200 /\ (c.session = "refused" \/ c.account = "revoked")
         /\ Api!Reaches(c) /\ c.account \in {"none", "lacks"} /\ c.call \in {"list", "form"} =>
              Api!Shown(c) = "offer_forms"
         /\ Api!Shown(c) # "data"
<1>. DEFINE answer == Api!Respond(c)
            error == Api!TypedError(answer)
<1>a. answer = Api!Respond(c) /\ error = Api!TypedError(answer)
  OBVIOUS
<1>b. Api!Shown(c) = IF c.call = "load" THEN Api!LoadShows(error)
                     ELSE Api!PageShows(c.call, Api!Boundary(error, Api!Purpose(c.call)))
  BY DEF Api!Shown
<1>. HIDE DEF answer, error
<1>1. CASE c.host # 200
  <2>1. answer = Api!Answer(c.host, "none") /\ c.host \in Nat /\ c.host \notin {200, 401}
    BY <1>a, <1>1 DEF Api!Respond, Api!Cases
  <2>2. error \in {"google", "server", "http"}
    BY <1>a, <2>1, PlainAnswer
  <2>. QED
    BY <1>b, <1>1, <2>2 DEF Api!Boundary, Api!LoadShows, Api!PageShows, Api!SaaSApiErrors,
      Api!Reaches, Api!Purpose
<1>2. CASE c.host = 200 /\ c.session = "refused"
  <2>1. error = "session"
    BY <1>a, <1>2 DEF Api!Respond, Api!TypedError, Api!Answer
  <2>. QED
    BY <1>b, <1>2, <2>1 DEF Api!Boundary, Api!LoadShows, Api!PageShows, Api!SaaSApiErrors,
      Api!Reaches, Api!Purpose
<1>3. CASE Api!Reaches(c) /\ c.account # "ok"
  <2>1. answer = Api!AccountAnswer[c.account] /\ c.host = 200 /\ c.session = "valid"
    BY <1>a, <1>3 DEF Api!Respond, Api!Reaches
  <2>2. /\ c.account = "revoked" => error = "revoked"
        /\ c.account = "unrefreshed" => error = "google"
        /\ c.account \in {"none", "lacks"} => error = "scopes"
    BY <1>a, <2>1 DEF Api!TypedError, Api!AccountAnswer, Api!Lacking, Api!Answer
  <2>3. c.account \in {"none", "lacks", "revoked", "unrefreshed"}
    BY <1>3 DEF Api!Cases
  <2>. QED
    BY <1>b, <2>1, <2>2, <2>3 DEF Api!Boundary, Api!PageShows, Api!LoadShows, Api!SaaSApiErrors,
      Api!Purpose
<1>. QED
  BY <1>1, <1>2, <1>3 DEF Api!Reaches, Api!Cases

\* What becomes of a case in which Google is asked.
LEMMA GoogleIsShown ==
  ASSUME NEW c \in Api!Cases, Api!Reaches(c), c.account = "ok"
  PROVE  /\ Api!Shown(c) # "sign_out"
         /\ Api!Shown(c) = "data" <=> c.google.status = 200 \/ c.call = "load"
         /\ c.call # "load" /\ Api!GoogleWantsScopes(c.google) =>
              /\ c.call = "form" => Api!Shown(c) = "offer_forms"
              /\ c.call = "list" =>
                   Api!Shown(c) = IF c.google.phrase THEN "offer_forms" ELSE "error_state"
              /\ c.call = "tables" => Api!Shown(c) = "offer_sheets"
              /\ c.call = "report" => Api!Shown(c) = "without_tables"
<1>. DEFINE answer == Api!Respond(c)
            error == Api!TypedError(answer)
            lacks == Api!IsScopeError(c.google.status, Api!Kept(c.call, c.google), c.google.phrase)
<1>a. answer = Api!Respond(c) /\ error = Api!TypedError(answer)
  OBVIOUS
<1>b. Api!Shown(c) = IF c.call = "load" THEN Api!LoadShows(error)
                     ELSE Api!PageShows(c.call, Api!Boundary(error, Api!Purpose(c.call)))
  BY DEF Api!Shown
<1>. HIDE DEF answer, error
<1>1. c.google.status \in Nat /\ c.google.phrase \in BOOLEAN /\ c.google.reasons \in Seq(STRING)
  BY DEF Api!Cases
<1>2. c.call \in {"list", "form", "load", "tables", "report"}
  BY DEF Api!Cases
<1>3. c.host = 200 /\ c.session = "valid"
  BY DEF Api!Reaches
<1>4. CASE c.google.status = 200 \/ c.call = "load"
  <2>1. answer = Api!Answer(200, "none")
    BY <1>a, <1>3, <1>4 DEF Api!Respond, Api!Reaches
  <2>2. error = "none"
    BY <1>a, <2>1, PlainAnswer
  <2>3. Api!Shown(c) = "data"
    BY <1>b, <2>2 DEF Api!Boundary, Api!PageShows, Api!LoadShows, Api!SaaSApiErrors
  <2>. QED
    BY <1>4, <2>3 DEF Api!GoogleWantsScopes
<1>5. CASE c.google.status = 0 /\ c.call # "load"
  <2>1. answer = Api!Answer(500, "none")
    BY <1>a, <1>3, <1>5 DEF Api!Respond, Api!Failed
  <2>2. error = "server"
    BY <1>a, <2>1, PlainAnswer
  <2>3. Api!Shown(c) = "support_code"
    BY <1>b, <1>5, <2>2 DEF Api!Boundary, Api!PageShows
  <2>4. ~Api!GoogleWantsScopes(c.google)
    BY <1>5 DEF Api!GoogleWantsScopes
  <2>. QED
    BY <1>5, <2>3, <2>4
<1>6. CASE c.google.status \notin {0, 200} /\ c.call # "load"
  <2>1. answer = Api!Translated(c.call, c.google)
    BY <1>a, <1>3, <1>6 DEF Api!Respond, Api!Reaches
  <2>2. CASE lacks
    <3>1. error = "scopes"
      BY <1>a, <2>1, <2>2 DEF Api!TypedError, Api!Translated, Api!Lacking, Api!Answer
    <3>2. /\ c.call \in {"form", "list"} => Api!Shown(c) = "offer_forms"
          /\ c.call = "tables" => Api!Shown(c) = "offer_sheets"
          /\ c.call = "report" => Api!Shown(c) = "without_tables"
      BY <1>b, <1>6, <3>1 DEF Api!Boundary, Api!PageShows, Api!Purpose
    <3>3. c.call = "list" => c.google.phrase
      BY <2>2 DEF Api!IsScopeError, Api!Kept, Api!ScopeReasons
    <3>. QED
      BY <1>2, <1>6, <3>2, <3>3
  <2>3. CASE ~lacks
    <3>1. error \in {"http", "google"}
      BY <1>a, <2>1, <2>3 DEF Api!StatusOf, Api!TypedError, Api!Translated, Api!Lacking,
      Api!Answer
    <3>2. c.google.status \in {401, 403, 404} => error = "http"
      BY <1>a, <2>1, <2>3 DEF Api!StatusOf, Api!TypedError, Api!Translated, Api!Lacking,
      Api!Answer
    <3>3. Api!Shown(c) \notin {"sign_out", "data"}
      BY <1>b, <1>2, <1>6, <3>1 DEF Api!Boundary, Api!PageShows, Api!Purpose
    <3>4. error = "http" /\ c.call = "list" => Api!Shown(c) = "error_state"
      BY <1>b, <1>6 DEF Api!Boundary, Api!PageShows, Api!Purpose
    <3>5. ASSUME Api!GoogleWantsScopes(c.google)
          PROVE  c.call = "list" /\ ~c.google.phrase /\ c.google.status = 403
      <4>1. c.google.status = 403 /\ ~c.google.phrase
        BY <1>1, <2>3, <3>5 DEF Api!GoogleWantsScopes, Api!IsScopeError
      <4>2. Api!Reason(c.google.reasons) \in Api!ScopeReasons
        BY <1>1, <3>5, <4>1, ScopeReasonIsKept DEF Api!GoogleWantsScopes
      <4>3. c.call = "list"
        BY <2>3, <4>1, <4>2 DEF Api!IsScopeError, Api!Kept
      <4>. QED
        BY <4>1, <4>3
    <3>. QED
      BY <1>6, <3>2, <3>3, <3>4, <3>5
  <2>. QED
    BY <2>2, <2>3
<1>. QED
  BY <1>4, <1>5, <1>6

\* The state of the page that each failure ends in.
LEMMA CasesAreTakenRight ==
  ASSUME NEW c \in Api!Cases
  PROVE  Api!FailuresAreTakenRight(c)
<1>1. CASE ~(Api!Reaches(c) /\ c.account = "ok")
  BY <1>1, TurnedAwayIsShown DEF Api!FailuresAreTakenRight
<1>2. CASE Api!Reaches(c) /\ c.account = "ok"
  <2>1. c.host = 200 /\ c.session # "refused" /\ c.account # "revoked"
    BY <1>2 DEF Api!Reaches
  <2>. QED
    BY <1>2, <2>1, GoogleIsShown DEF Api!FailuresAreTakenRight
<1>. QED
  BY <1>1, <1>2

\* A page has a case only by a call.
CasesInv == page.of = "call" => page.c \in Calls

\* Whatever fails between a page and Google, the user is signed out only for a
\* refused session or a revoked grant, and offered to connect again whenever a
\* scope is missing, for any status, any list of reasons and any status of a
\* gateway but 401 (api/google_errors.py, ui/saas_api.py, ui/api_boundary.py).
THEOREM FailuresAreTakenRightHolds == Spec => []FailuresAreTakenRight
<1>1. Init => CasesInv
  BY DEF Init, CasesInv
<1>2. CasesInv /\ [Next]_page => CasesInv'
  BY DEF CasesInv, Next, ShowMap, ShowQuestion, ScanSheet, AssignPopulations, WeighSample, ShowPair,
    ScanPairs, ShowWaves, ShowForecast, PrintReport, CallApi, Leave
<1>3. CasesInv => FailuresAreTakenRight
  BY CallsAssumption, CasesAreTakenRight DEF CasesInv, FailuresAreTakenRight
<1>. QED
  BY <1>1, <1>2, <1>3, PTL DEF Spec

-----------------------------------------------------------------------------
(* The section map (FormFlow).                                              *)

\* The map of any form tells a respondent who follows it the truth: he gets
\* through unless it says that the form loops, it marks just the sections he cannot
\* come to, and it says that the form loops just when its arrows lead him back
\* (core/form_flow.py, parse_form_flow).
THEOREM SectionMapIsTrueHolds == Spec => SectionMapIsTrue
<1>1. ASSUME [Next]_page, NEW p \in {page'}, p.of = "map", page' # page
      PROVE  /\ RespondentsGetThrough(p.form, FlowOf(p.form))
             /\ MarksMatchArrows(p.form, FlowOf(p.form))
  <2>1. PICK form \in Forms : p = [of |-> "map", form |-> form]
    BY <1>1 DEF Next, ShowMap, ShowQuestion, ScanSheet, AssignPopulations, WeighSample, ShowPair,
      ScanPairs, ShowWaves, ShowForecast, PrintReport, CallApi, Leave
  <2>2. p.form = form /\ Len(form) \in Nat \ {0} /\ DOMAIN form = 1..Len(form)
    BY <2>1, FormsAssumption
  <2>. QED
    BY <2>2, MapIsTrue
<1>2. [Next]_page => [\A p \in {page'} : p.of = "map" =>
                        /\ RespondentsGetThrough(p.form, FlowOf(p.form))
                        /\ MarksMatchArrows(p.form, FlowOf(p.form))]_page
  BY <1>1
<1>. QED
  BY <1>2, PTL DEF Spec, SectionMapIsTrue

-----------------------------------------------------------------------------
(* The scan of all pairs (Associations).                                    *)

\* The module of the associations counts as this one does.
LEMMA Counts ==
  ASSUME NEW S
  PROVE  Assoc!Cardinality(S) = Cardinality(S)
BY Zenon DEF Assoc!Cardinality, Cardinality

\* Fractions that are not reduced: positive below.
Ratios == Int \X (Nat \ {0})

LEMMA ScaleUp ==
  ASSUME NEW a \in Int, NEW b \in Int, NEW c \in Nat \ {0}
  PROVE  a <= b <=> a * c <= b * c
<1>1. ASSUME a <= b PROVE a * c <= b * c
  BY <1>1
<1>2. ASSUME b < a PROVE b * c < a * c
  <2>1. a - b >= 1 /\ (a - b) * c >= c /\ a * c = b * c + (a - b) * c
    BY <1>2
  <2>. QED
    BY <2>1
<1>. QED
  BY <1>1, <1>2

\* What is at least a fraction is at least what that one is at least.
LEMMA AtLeast ==
  ASSUME NEW x \in Ratios, NEW y \in Ratios, NEW z \in Ratios, ~Assoc!Less(y, x), ~Assoc!Less(z, y)
  PROVE  ~Assoc!Less(z, x)
<1>. DEFINE xa == x[1]
            xb == x[2]
            ya == y[1]
            yb == y[2]
            za == z[1]
            zb == z[2]
<1>1. xa \in Int /\ ya \in Int /\ za \in Int /\ xb \in Nat \ {0} /\ yb \in Nat \ {0} /\ zb \in Nat \ {0}
  BY DEF Ratios
<1>2. xa * yb <= ya * xb /\ ya * zb <= za * yb
  BY <1>1 DEF Assoc!Less
<1>. HIDE DEF xa, xb, ya, yb, za, zb
<1>3. (xa * yb) * zb <= (ya * xb) * zb
  BY <1>1, <1>2, ScaleUp
<1>4. (ya * zb) * xb <= (za * yb) * xb
  BY <1>1, <1>2, ScaleUp
<1>5. (xa * zb) * yb <= (za * xb) * yb
  BY <1>1, <1>3, <1>4
<1>6. xa * zb <= za * xb
  BY <1>1, <1>5, ScaleUp
<1>7. xa * zb \in Int /\ za * xb \in Int
  BY <1>1
<1>. QED
  BY <1>6, <1>7 DEF Assoc!Less, xa, xb, za, zb

\* Of finitely many fractions one is at most as large as each.
LEMMA LeastRatio ==
  ASSUME NEW n \in Nat, NEW J \in SUBSET (1..n), J # {}, NEW x, \A j \in J : x[j] \in Ratios
  PROVE  \E j \in J : \A k \in J : ~Assoc!Less(x[k], x[j])
<1>. DEFINE Upto(m) == {j \in J : j <= m}
            IsLeast(j, m) == j \in Upto(m) /\ \A k \in Upto(m) : ~Assoc!Less(x[k], x[j])
            S == {m \in Nat : Upto(m) # {} => \E j : IsLeast(j, m)}
<1>0. \A j \in J : j \in Nat /\ 1 <= j /\ j <= n
  OBVIOUS
<1>1. 0 \in S
  <2>1. \A j \in J : ~(j <= 0)
    BY <1>0
  <2>. QED
    BY <2>1
<1>2. ASSUME NEW m \in Nat, m \in S PROVE m + 1 \in S
  <2>. SUFFICES ASSUME Upto(m + 1) # {} PROVE \E j : IsLeast(j, m + 1)
    <3>. HIDE DEF Upto, IsLeast
    <3>. QED
      OBVIOUS
  <2>0. \A j \in J : j <= m + 1 <=> (j <= m \/ j = m + 1)
    BY <1>0
  <2>1. CASE m + 1 \notin J
    <3>1. Upto(m + 1) = Upto(m)
      BY <1>0, <2>0, <2>1
    <3>. HIDE DEF Upto
    <3>. QED
      BY <1>2, <3>1
  <2>2. CASE m + 1 \in J
    <3>1. Upto(m + 1) = Upto(m) \cup {m + 1}
      BY <1>0, <2>0, <2>2
    <3>0. x[m + 1] \in Ratios /\ ~Assoc!Less(x[m + 1], x[m + 1])
      BY <2>2 DEF Assoc!Less, Ratios
    <3>2. CASE Upto(m) = {}
      <4>1. IsLeast(m + 1, m + 1)
        BY <3>0, <3>1, <3>2
      <4>. QED
        BY <4>1
    <3>3. CASE Upto(m) # {}
      <4>1. PICK j : IsLeast(j, m)
        BY <1>2, <3>3
      <4>2. CASE ~Assoc!Less(x[m + 1], x[j])
        <5>1. IsLeast(j, m + 1)
          <6>. HIDE DEF Upto
          <6>. QED
            BY <3>1, <4>1, <4>2
        <5>. QED
          BY <5>1
      <4>3. CASE Assoc!Less(x[m + 1], x[j])
        <5>1. ~Assoc!Less(x[j], x[m + 1])
          BY <2>2, <4>1, <4>3 DEF Assoc!Less, Ratios
        <5>2. ASSUME NEW k \in Upto(m) PROVE ~Assoc!Less(x[k], x[m + 1])
          <6>1. x[k] \in Ratios /\ x[j] \in Ratios /\ ~Assoc!Less(x[k], x[j])
            BY <4>1
          <6>. QED
            BY <3>0, <5>1, <6>1, AtLeast
        <5>3. IsLeast(m + 1, m + 1)
          <6>. HIDE DEF Upto
          <6>. QED
            BY <3>0, <3>1, <5>2
        <5>. QED
          BY <5>3
      <4>. QED
        BY <4>2, <4>3
    <3>. QED
      BY <3>2, <3>3
  <2>. QED
    BY <2>1, <2>2
<1>3. n \in S
  <2>. HIDE DEF S
  <2>. QED
    BY <1>1, <1>2, Induction
<1>4. Upto(n) = J
  BY <1>0
<1>. QED
  BY <1>3, <1>4

LEMMA PairFields ==
  ASSUME NEW pairs \in Seq([p : Int, effect : Int, sparse : BOOLEAN]), NEW i \in DOMAIN pairs
  PROVE  pairs[i].p \in Int /\ pairs[i].effect \in Int /\ pairs[i].sparse \in BOOLEAN
<1>. DEFINE records == [p : Int, effect : Int, sparse : BOOLEAN]
<1>1. pairs[i] \in records
  <2>. HIDE DEF records
  <2>1. pairs \in Seq(records)
    BY DEF records
  <2>. QED
    BY <2>1
<1>. QED
  BY <1>1

\* The procedure as it is computed: a p-value is adjusted to the least ratio of
\* those that are not below it.
LEMMA SignificantIsRejected ==
  ASSUME NEW pairs \in Seq([p : Int, effect : Int, sparse : BOOLEAN]), NEW i \in Assoc!Tested(pairs)
  PROVE  LET m == Assoc!Cardinality(Assoc!Tested(pairs))
             Upto(p) == Assoc!Cardinality({j \in Assoc!Tested(pairs) : pairs[j].p <= p}) IN
         Assoc!Significant(pairs, i) <=>
           \E j \in Assoc!Tested(pairs) : pairs[j].p * m <= 5 * Upto(pairs[j].p) /\ pairs[i].p <= pairs[j].p
<1>. DEFINE n == Len(pairs)
            m == Assoc!Cardinality(Assoc!Tested(pairs))
            Rank(j) == Assoc!Cardinality({k \in Assoc!Tested(pairs) : pairs[k].p <= pairs[j].p})
            J == {k \in Assoc!Tested(pairs) : pairs[k].p >= pairs[i].p}
            x == [j \in Assoc!Tested(pairs) |-> <<pairs[j].p * m, Rank(j)>>]
<1>1. n \in Nat /\ Assoc!Tested(pairs) \subseteq 1..n /\ \A j \in Assoc!Tested(pairs) : pairs[j].p \in Nat
  <2>1. n \in Nat /\ DOMAIN pairs = 1..n
    OBVIOUS
  <2>2. \A j \in DOMAIN pairs : pairs[j].p \in Int
    BY PairFields
  <2>. QED
    BY <2>1, <2>2 DEF Assoc!Tested
<1>2. IsFiniteSet(Assoc!Tested(pairs)) /\ m \in Nat
  <2>1. IsFiniteSet(1..n)
    BY <1>1, FS_Interval, Counts
  <2>. QED
    BY <1>1, <2>1, FS_Subset, FS_CardinalityType, Counts
<1>3. ASSUME NEW j \in Assoc!Tested(pairs) PROVE Rank(j) \in Nat \ {0}
  <2>. DEFINE upto == {k \in Assoc!Tested(pairs) : pairs[k].p <= pairs[j].p}
  <2>1. j \in upto
    BY <1>1
  <2>2. IsFiniteSet(upto)
    BY <1>2, FS_Subset, Counts
  <2>. HIDE DEF upto
  <2>3. Assoc!Cardinality(upto) \in Nat /\ Assoc!Cardinality(upto) # 0
    BY <2>1, <2>2, FS_CardinalityType, FS_EmptySet, Counts
  <2>. QED
    BY <2>3 DEF upto
<1>. HIDE DEF Rank
<1>4. \A j \in Assoc!Tested(pairs) : x[j] \in Ratios /\ x[j][1] = pairs[j].p * m /\ x[j][2] = Rank(j)
  BY <1>1, <1>2, <1>3 DEF Ratios
<1>5. J \in SUBSET (1..n) /\ i \in J /\ J \subseteq Assoc!Tested(pairs)
  BY <1>1
<1>. DEFINE above == {<<pairs[j].p * Assoc!Cardinality(Assoc!Family(pairs)), Rank(j)>> : j \in J}
            least == CHOOSE y \in above : \A z \in above : ~Assoc!Less(z, y)
<1>6. Assoc!Adjusted(pairs, i) = IF Assoc!Less(Assoc!Whole(100), least) THEN Assoc!Whole(100) ELSE least
  BY DEF Assoc!Adjusted, Rank
<1>6a. above = {x[j] : j \in J}
  BY <1>5 DEF Assoc!Family
<1>. HIDE DEF J, x
<1>7. PICK first \in J : \A k \in J : ~Assoc!Less(x[k], x[first])
  BY <1>1, <1>4, <1>5, LeastRatio
<1>. HIDE DEF above
<1>8. least \in above /\ \A z \in above : ~Assoc!Less(z, least)
  BY <1>7, <1>6a
<1>. HIDE DEF least
<1>9. PICK best \in J : least = x[best]
  BY <1>8, <1>6a
<1>10. \A k \in J : ~Assoc!Less(x[k], least)
  BY <1>8, <1>6a
<1>11. least \in Ratios /\ least[1] = pairs[best].p * m /\ least[2] = Rank(best)
  BY <1>4, <1>5, <1>9
<1>12. Assoc!Significant(pairs, i) <=> least[1] <= 5 * least[2]
  <2>. DEFINE a == least[1]
              b == least[2]
  <2>1. a \in Int /\ b \in Nat \ {0}
    BY <1>11 DEF Ratios
  <2>2. /\ Assoc!Less(Assoc!Whole(100), least) <=> 100 * b < a * 1
        /\ Assoc!Less(Assoc!Whole(5), least) <=> 5 * b < a * 1
        /\ Assoc!Less(Assoc!Whole(5), Assoc!Whole(100))
    BY DEF Assoc!Less, Assoc!Whole
  <2>. HIDE DEF a, b
  <2>3. Assoc!Significant(pairs, i) <=> ~Assoc!Less(Assoc!Whole(5), Assoc!Adjusted(pairs, i))
    BY DEF Assoc!Significant
  <2>4. CASE 100 * b < a
    BY <1>6, <2>1, <2>2, <2>3, <2>4 DEF a, b
  <2>5. CASE ~(100 * b < a)
    BY <1>6, <2>1, <2>2, <2>3, <2>5 DEF a, b
  <2>. QED
    BY <2>4, <2>5
<1>. DEFINE Good(j) == pairs[j].p * m <= 5 * Rank(j)
<1>13. ASSUME NEW j \in J, Good(j) PROVE Good(best)
  <2>. DEFINE a == pairs[j].p * m
              b == Rank(j)
              c == pairs[best].p * m
              d == Rank(best)
  <2>1. a \in Nat /\ b \in Nat \ {0} /\ c \in Nat /\ d \in Nat \ {0}
    <3>. DEFINE pj == pairs[j].p
                pb == pairs[best].p
    <3>1. pj \in Nat /\ pb \in Nat
      BY <1>1, <1>5
    <3>2. b \in Nat \ {0} /\ d \in Nat \ {0}
      BY <1>3, <1>5
    <3>. HIDE DEF pj, pb, m, b, d
    <3>3. pj * m \in Nat /\ pb * m \in Nat
      BY <1>2, <3>1
    <3>. QED
      BY <3>2, <3>3 DEF pj, pb
  <2>2. ~(a * d < c * b)
    BY <1>4, <1>5, <1>10, <1>11 DEF Assoc!Less
  <2>3. a <= 5 * b
    BY <1>13
  <2>. HIDE DEF a, b, c, d
  <2>4. a * d <= (5 * b) * d
    BY <2>1, <2>3, ScaleUp
  <2>5. c * b <= (5 * d) * b
    BY <2>1, <2>2, <2>4
  <2>6. c <= 5 * d
    BY <2>1, <2>5, ScaleUp
  <2>. QED
    BY <2>6 DEF c, d
<1>14. Assoc!Significant(pairs, i) <=> Good(best)
  BY <1>11, <1>12
<1>15. Assoc!Significant(pairs, i) <=> \E j \in J : Good(j)
  BY <1>9, <1>13, <1>14
<1>16. \A j \in Assoc!Tested(pairs) : j \in J <=> pairs[i].p <= pairs[j].p
  BY <1>1 DEF J
<1>. QED
  BY <1>5, <1>15, <1>16 DEF Rank

\* The pairs that the page opens with.
LEMMA OverviewIsImportant ==
  ASSUME NEW pairs \in Seq([p : Int, effect : Int, sparse : BOOLEAN])
  PROVE  Assoc!Overview(pairs) = {i \in DOMAIN pairs : Assoc!Classified(pairs, i) \in {"key", "important"}}
<1>1. \A i \in DOMAIN pairs : pairs[i].sparse \in BOOLEAN /\ pairs[i].effect \in Int
  BY PairFields
<1>2. Assoc!Overview(pairs) = {i \in DOMAIN pairs : /\ TRUE => ~pairs[i].sparse
                                              /\ Assoc!Significant(pairs, i) /\ pairs[i].effect >= 15}
  BY Zenon DEF Assoc!Overview, Assoc!Filtered
<1>3. ASSUME NEW i \in DOMAIN pairs
      PROVE  Assoc!Classified(pairs, i) \in {"key", "important"} <=>
               ~pairs[i].sparse /\ Assoc!Significant(pairs, i) /\ pairs[i].effect >= 15
  BY <1>1 DEF Assoc!Classified
<1>. QED
  BY <1>2, <1>3

LEMMA ScanIsRight ==
  ASSUME NEW pairs \in Seq([p : Int, effect : Int, sparse : BOOLEAN])
  PROVE  Assoc!ScanRejectsTheRightPairs(pairs)
<1>1. \A i \in DOMAIN pairs : Assoc!Significant(pairs, i) => i \in Assoc!Tested(pairs)
  BY DEF Assoc!Significant
<1>. QED
  BY <1>1, SignificantIsRejected, OverviewIsImportant DEF Assoc!ScanRejectsTheRightPairs

\* The scan of all pairs of questions rejects what the procedure of Benjamini and
\* Hochberg rejects, whatever the p-values, and the page opens with the important
\* ones (core/associations.py: scan_associations and what is filtered of it).
THEOREM ScanRejectsHolds == Spec => ScanRejectsTheRightPairs
<1>1. ASSUME [Next]_page, NEW p \in {page'}, p.of = "scan", page' # page
      PROVE  Assoc!ScanRejectsTheRightPairs(p.pairs)
  <2>1. PICK s \in Scans : p = [of |-> "scan", pairs |-> s]
    BY <1>1 DEF Next, ShowMap, ShowQuestion, ScanSheet, AssignPopulations, WeighSample, ShowPair,
      ScanPairs, ShowWaves, ShowForecast, PrintReport, CallApi, Leave
  <2>2. s \in Seq([p : Int, effect : Int, sparse : BOOLEAN]) /\ p.pairs = s
    BY <2>1, ScansAssumption
  <2>. QED
    BY <2>2, ScanIsRight
<1>2. [Next]_page => [\A p \in {page'} : p.of = "scan" => Assoc!ScanRejectsTheRightPairs(p.pairs)]_page
  BY <1>1
<1>. QED
  BY <1>2, PTL DEF Spec, ScanRejectsTheRightPairs

-----------------------------------------------------------------------------
(* The waves and the forecast (Forecast).                                   *)

\* However many more answers come, the waves of a form that were found stay where
\* they are, as far apart as its kind asks, indexed by the answers before them
\* (core/forecast/wave_detector.py).
THEOREM WavesStayFoundHolds == Spec => WavesStayFound
<1>1. ASSUME [Next]_page, NEW p \in {page'}, p.of = "waves", page' # page
      PROVE  WavesStay(p.form)
  <2>1. PICK c \in Courses : p = [of |-> "waves", form |-> c]
    BY <1>1 DEF Next, ShowMap, ShowQuestion, ScanSheet, AssignPopulations, WeighSample, ShowPair,
      ScanPairs, ShowWaves, ShowForecast, PrintReport, CallApi, Leave
  <2>2. IsCourse(c) /\ p.form = c
    BY <2>1, CoursesAssumption
  <2>. QED
    BY <2>2, WavesDoStay
<1>2. [Next]_page => [\A p \in {page'} : p.of = "waves" => WavesStay(p.form)]_page
  BY <1>1
<1>. QED
  BY <1>2, PTL DEF Spec, WavesStayFound

\* Whatever curve was fitted to however many answers, falling ones included, and
\* whichever window is looked at, the curve that is drawn goes on from the last
\* answer of the window, in a sane band and not too far (core/forecast/service.py,
\* wave_service.py, wave_estimator.py, ui/pages/dynamics.py).
THEOREM ForecastGoesOnHolds == Spec => ForecastGoesOnFromFacts
<1>1. ASSUME [Next]_page, NEW p \in {page'}, p.of = "forecast", page' # page
      PROVE  GoesOnFromFacts(p.form, p.form.stored)
  <2>1. PICK c \in Pictures : p = [of |-> "forecast", form |-> c]
    BY <1>1 DEF Next, ShowMap, ShowQuestion, ScanSheet, AssignPopulations, WeighSample, ShowPair,
      ScanPairs, ShowWaves, ShowForecast, PrintReport, CallApi, Leave
  <2>2. IsPicture(c) /\ p.form = c
    BY <2>1, PicturesAssumption
  <2>. QED
    BY <2>2, ForecastDoesGoOn
<1>2. [Next]_page => [\A p \in {page'} : p.of = "forecast" => GoesOnFromFacts(p.form, p.form.stored)]_page
  BY <1>1
<1>. QED
  BY <1>2, PTL DEF Spec, ForecastGoesOnFromFacts
=============================================================================
