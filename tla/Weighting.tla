------------------------------- MODULE Weighting -------------------------------
(***************************************************************************)
(* Post-stratification (core/weighting.py, and what the page and the       *)
(* questions page make of it): how much each respondent counts so that the *)
(* strata of the population have their shares, and what that costs.        *)
(*                                                                         *)
(* A dimension is the population of one question: a function from strata   *)
(* to numbers.  A respondent is the tuple of his answers to the            *)
(* dimensions' questions; an answer outside the population is no stratum.  *)
(* The margin of error is in percent.  Square roots, and what is only      *)
(* shown of a stratum, are left out.                                       *)
(***************************************************************************)
EXTENDS Integers, Sequences, FiniteSets, SequencesExt, Fractions

SumOf(seq) == FoldLeft(LAMBDA a, b : a ++ b, Whole(0), seq)
Known(weights) == SelectSeq(weights, LAMBDA w : ~IsNaN(w))
Prefix(seq, k) == SubSeq(seq, 1, k)
People(population) == FoldFunction(LAMBDA a, b : a + b, 0, population)

\* required_sample_size, with z = 1.96 and p = 1/2.
RequiredSampleSize(people, moe) ==
  LET whole == moe * moe * people + 9604 - moe * moe IN
  IF people <= 0 THEN 0 ELSE (9604 * people + whole - 1) \div whole

\* design_effect: Kish's n * sum(w^2) / sum(w)^2 of the weights that are numbers.
DesignEffect(weights) ==
  LET ws == Known(weights)
      sum == SumOf(ws)
  IN  IF ws = <<>> \/ sum[1] = 0 THEN Whole(1)
      ELSE (Whole(Len(ws)) ** SumOf([i \in DOMAIN ws |-> ws[i] ** ws[i]])) // (sum ** sum)

\* Mutation: the place of the weight instead of how many are numbers.
EffectOfPlace(s, place) == place
EffectOf(s, place) == s.k

\* cumulative_design_effect: with running sums.
CumulativeDesignEffect(weights) ==
  LET Add(s, i) ==
        LET w == weights[i]
            t == IF IsNaN(w) THEN s
                 ELSE [s EXCEPT !.sum = @ ++ w, !.squares = @ ++ (w ** w), !.k = @ + 1]
        IN  [t EXCEPT !.out = Append(@, IF t.k = 0 \/ t.sum[1] = 0 THEN Whole(1)
                                        ELSE (Whole(EffectOf(t, i)) ** t.squares) // (t.sum ** t.sum))]
  IN  FoldLeft(Add, [sum |-> Whole(0), squares |-> Whole(0), k |-> 0, out |-> <<>>],
               [i \in DOMAIN weights |-> i]).out

\* Mutation: the larger of the two.
ApplyCapRaised(weight, cap) ==
  IF cap = 0 \/ IsNaN(weight) \/ Less(Whole(cap), weight) THEN weight ELSE Whole(cap)
\* _apply_cap: cap 0 is none.
ApplyCap(weight, cap) ==
  IF cap = 0 \/ IsNaN(weight) \/ Less(weight, Whole(cap)) THEN weight ELSE Whole(cap)

\* stratum_weights: the share of the target over the sample of the stratum.
CountIn(values, stratum) == Len(SelectSeq(values, LAMBDA v : v = stratum))
StratumWeights(population, values, target, cap) ==
  [h \in DOMAIN population |->
     IF CountIn(values, h) = 0 \/ People(population) = 0 THEN NaN
     ELSE ApplyCap(Frac(population[h] * target, People(population) * CountIn(values, h)), cap)]

\* frame[w_dim]: nobody outside the population has a weight.
WeightsIn(population, values, target, cap) ==
  LET w == StratumWeights(population, values, target, cap) IN
  [i \in DOMAIN values |-> IF values[i] \in DOMAIN population THEN w[values[i]] ELSE NaN]

\* _running_normalized_timeline: the weight at the moment of the answer over the
\* mean weight of that moment, in the order of arrival.
Timeline(population, values, target) ==
  LET total == People(population)
      PeopleOf(v) == IF v \in DOMAIN population THEN population[v] ELSE 0
      Arrive(s, i) ==
        LET v == values[i]
            n == CountIn(Prefix(values, i), v)
            present == IF n = 1 THEN s.present + PeopleOf(v) ELSE s.present
            mean == Frac(target * present, total * i)
        IN  [present |-> present,
             out |-> Append(s.out, IF total <= 0 \/ PeopleOf(v) = 0 \/ present = 0 THEN NaN
                                   ELSE Frac(PeopleOf(v) * target, total * n) // mean)]
  IN  FoldLeft(Arrive, [present |-> 0, out |-> <<>>], [i \in DOMAIN values |-> i]).out

\* compute_weighting: dims is a sequence of populations, the first is the main
\* one; people a sequence of respondents.
ComputeWeighting(people, dims, moe, cap) ==
  LET target == RequiredSampleSize(People(dims[1]), moe)
      Values(d) == [i \in DOMAIN people |-> people[i][d]]
      each == [d \in DOMAIN dims |-> WeightsIn(dims[d], Values(d), target, cap)]
      lines == [d \in DOMAIN dims |-> Timeline(dims[d], Values(d), target)]
      Product(w) == [i \in DOMAIN people |-> FoldLeft(LAMBDA a, d : a ** w[d][i], Whole(1),
                                                     [d \in DOMAIN dims |-> d])]
      w == Product(each)
      deff == DesignEffect(w)
  IN  [n |-> Len(people), target |-> target, deff |-> deff, each |-> each, lines |-> lines,
       w |-> w, timeline |-> Product(lines),
       effective |-> Whole(Len(Known(w))) // deff, need |-> Whole(target) ** deff,
       required |-> [d \in DOMAIN dims |-> [h \in DOMAIN dims[d] |->
                       IF People(dims[d]) = 0 THEN Whole(0)
                       ELSE Frac(dims[d][h] * target, People(dims[d]))]]]

-----------------------------------------------------------------------------
(* Properties of a sample.                                                  *)

\* What the answers of a stratum weigh together is its share of the target,
\* however few or many they are; a cap takes from it and never adds; and the
\* sample counts effectively for no more than those who have a weight, and for
\* as many just when they weigh the same.
PopulationIsRestored(people, dims, moe, cap) ==
  LET r == ComputeWeighting(people, dims, moe, cap)
      weighted == Known(r.w)
      Of(d, h) == {i \in DOMAIN people : people[i][d] = h}
      Weigh(d, h) == FoldSet(LAMBDA i, a : r.each[d][i] ++ a, Whole(0), Of(d, h))
  IN  /\ \A d \in DOMAIN dims : \A h \in DOMAIN dims[d] :
           Of(d, h) # {} /\ People(dims[d]) > 0 =>
             /\ ~Less(r.required[d][h], Weigh(d, h))
             /\ Weigh(d, h) = r.required[d][h] \/ \E i \in Of(d, h) : r.each[d][i] = Whole(cap)
      /\ SumOf(weighted)[1] > 0 =>
           /\ ~Less(Whole(Len(weighted)), r.effective)
           /\ r.effective = Whole(Len(weighted)) <=> \A i, j \in DOMAIN weighted : weighted[i] = weighted[j]

\* What is drawn of the moment an answer came is what the page would have shown
\* then: the timeline has the weight the answer had among those who had come,
\* over the mean of all their weights, and the design effect is theirs (a stratum
\* of nobody has the weight 0 and no line).
MomentsAreAsTheyWere(people, dims, moe) ==
  LET r == ComputeWeighting(people, dims, moe, 0)
      deffs == CumulativeDesignEffect(r.w)
  IN  \A k \in DOMAIN people :
        /\ deffs[k] = DesignEffect(Prefix(r.w, k))
        /\ \A d \in DOMAIN dims : (\A h \in DOMAIN dims[d] : dims[d][h] > 0) =>
             LET values == [i \in 1..k |-> people[i][d]]
                 then == WeightsIn(dims[d], values, r.target, 0)
             IN  r.lines[d][k] = (then[k] // SumOf(Known(then))) ** Whole(k)
=============================================================================
