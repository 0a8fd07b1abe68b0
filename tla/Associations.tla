------------------------------ MODULE Associations ------------------------------
(***************************************************************************)
(* Associations between the questions of a form: the variables made of the *)
(* answers (core/crosstab_frame.py), the measure of a pair and the scan of *)
(* all pairs (core/crosstab.py), and what the page shows of it             *)
(* (ui/pages/questions.py).                                                *)
(*                                                                         *)
(* An answer is a number: 0 is blank, 1..9 read as that number, larger are *)
(* words.  Effects are squared, so that they are fractions.  The           *)
(* distributions that give p-values are left out: a p-value is an input.   *)
(***************************************************************************)
EXTENDS Integers, Sequences, FiniteSets, SequencesExt, Fractions

Yes == 11
No == 12
Numeric(v) == v \in 1..9
LOCAL Indices(seq) == [i \in DOMAIN seq |-> i]
LOCAL Total(S, f(_)) == MapThenSumSet(f, S)
LOCAL TotalOf(S, f(_)) == FoldSet(LAMBDA e, a : f(e) ++ a, Whole(0), S)

-----------------------------------------------------------------------------
(* build_analysis_frame: a question is [type, options, answers], with the   *)
(* sequence of the values each respondent gave.                             *)

Columns(q) ==
  LET first == [i \in DOMAIN q.answers |-> IF q.answers[i] = <<>> THEN 0 ELSE q.answers[i][1]]
      given == SelectSeq(first, LAMBDA v : v # 0)
      numbers == 10 * Len(SelectSeq(given, Numeric)) >= 8 * Len(given)
      Ticked(option, values) == IF values = <<>> THEN 0 ELSE IF option \in Range(values) THEN Yes ELSE No
      Of(kind) == <<[kind |-> kind, column |-> first]>>
  IN CASE \A i \in DOMAIN q.answers : q.answers[i] = <<>> -> <<>>
       [] q.type = "CHECKBOX" ->
            LET options == SelectSeq(q.options, LAMBDA o : o # 0) IN
            [k \in DOMAIN options |-> [kind |-> "nominal", column |->
               [i \in DOMAIN q.answers |-> Ticked(options[k], q.answers[i])]]]
       [] given = <<>> -> <<>>
       [] q.type = "LINEAR_SCALE" -> Of("ordinal")
       [] q.type = "MULTIPLE_CHOICE" -> Of(IF numbers THEN "ordinal" ELSE "nominal")
       [] q.type = "SHORT_ANSWER" /\ numbers -> Of("numeric")
       [] OTHER -> <<>>

Variables(questions) ==
  SelectSeq(FoldLeft(LAMBDA vs, q : vs \o Columns(q), <<>>, questions),
            LAMBDA v : Cardinality(Range(v.column) \ {0}) >= 2)

-----------------------------------------------------------------------------
(* The measure of a pair.                                                   *)

\* Mutation: the rows, whichever are fewer.
ShorterRows(rows, cols) == rows
Shorter(rows, cols) == IF rows < cols THEN rows ELSE cols

\* crosstab: the weights of those who answered both questions, by their answers;
\* the table sparse when an expected count is below 1 or a fifth are below 5.
Crosstab(a, b, weights) ==
  LET both == {i \in DOMAIN a : a[i] # 0 /\ b[i] # 0}
      rows == {a[i] : i \in both}
      cols == {b[i] : i \in both}
      Weight(S) == Total(S, LAMBDA i : weights[i])
      Share(S) == Frac(Weight(S), Weight(both))
      Seen(r, c) == Share({i \in both : a[i] = r /\ b[i] = c})
      Expected(r, c) == Share({i \in both : a[i] = r}) ** Share({i \in both : b[i] = c})
      Term(cell) == LET e == Expected(cell[1], cell[2])
                        d == Seen(cell[1], cell[2]) ++ (Whole(-1) ** e)
                    IN (d ** d) // e
      cells == rows \X cols
      Below(x) == {cell \in cells :
                     Less(Expected(cell[1], cell[2]) ** Whole(Cardinality(both)), Whole(x))}
      least == Shorter(Cardinality(rows), Cardinality(cols))
  IN  [n |-> Cardinality(both),
       rows |-> rows, cols |-> cols,
       effect |-> IF least < 2 THEN Whole(0) ELSE TotalOf(cells, Term) // Whole(least - 1),
       sparse |-> Below(1) # {} \/ 5 * Cardinality(Below(5)) > Cardinality(cells)]

\* rankdata: the mean of the places of the equal values, doubled.
Ranks(x) ==
  [i \in DOMAIN x |-> 2 * Cardinality({j \in DOMAIN x : x[j] < x[i]})
                      + Cardinality({j \in DOMAIN x : x[j] = x[i]}) + 1]

\* _weighted_pearson, with its sign; the mean is kept whole by the factor W.
WeightedPearson(x, y, w) ==
  LET W == Total(DOMAIN x, LAMBDA i : w[i])
      Off(z, i) == z[i] * W - Total(DOMAIN z, LAMBDA j : w[j] * z[j])
      Sum(u, v) == Total(DOMAIN x, LAMBDA i : w[i] * Off(u, i) * Off(v, i))
      cov == Sum(x, y)
      spread == Sum(x, x) * Sum(y, y)
  IN  [effect |-> IF spread = 0 THEN Whole(0) ELSE Frac(cov, Sum(x, x)) ** Frac(cov, Sum(y, y)),
       direction |-> IF cov < 0 THEN -1 ELSE 1]

\* ordinal_correlation, numeric_correlation: of those with a number in both.
InPair(a, b, both, measure) ==
  LET x == [k \in DOMAIN both |-> a[both[k]]]
      y == [k \in DOMAIN both |-> b[both[k]]]
  IN  IF measure = "pearson" THEN <<x, y>> ELSE <<Ranks(x), Ranks(y)>>
Correlation(a, b, weights, measure) ==
  LET both == SelectSeq(Indices(a), LAMBDA i : Numeric(a[i]) /\ Numeric(b[i]))
      xy == InPair(a, b, both, measure)
  IN  IF Len(both) < 3 THEN [effect |-> Whole(0), direction |-> 1]
      ELSE WeightedPearson(xy[1], xy[2], [k \in DOMAIN both |-> weights[both[k]]])

\* pair_association: at most one (ValueError: nobody answered both).
PairAssociation(v1, v2, weights) ==
  LET metric == {"ordinal", "numeric"}
      measure == CASE v1.kind = "numeric" /\ v2.kind = "numeric" -> "pearson"
                   [] v1.kind \in metric /\ v2.kind \in metric -> "spearman"
                   [] OTHER -> "cramers_v"
      table == Crosstab(v1.column, v2.column, weights)
      line == Correlation(v1.column, v2.column, weights, measure)
  IN  CASE measure # "cramers_v" ->
             <<[measure |-> measure, effect |-> line.effect, direction |-> line.direction, sparse |-> FALSE]>>
        [] table.n = 0 -> <<>>
        [] OTHER -> <<[measure |-> measure, effect |-> table.effect, direction |-> 0, sparse |-> table.sparse]>>

-----------------------------------------------------------------------------
(* The scan: a pair is [p, effect, sparse], in hundredths; p is -1 if NaN.  *)

Tested(pairs) == {i \in DOMAIN pairs : pairs[i].p >= 0}

\* Mutation: the family is all the pairs, those without a p-value too.
FamilyOfAll(pairs) == DOMAIN pairs
Family(pairs) == Tested(pairs)

\* benjamini_hochberg: the adjusted p-value, capped at one.
Adjusted(pairs, i) ==
  LET Rank(j) == Cardinality({k \in Tested(pairs) : pairs[k].p <= pairs[j].p})
      above == {<<pairs[j].p * Cardinality(Family(pairs)), Rank(j)>> :
                  j \in {k \in Tested(pairs) : pairs[k].p >= pairs[i].p}}
      least == CHOOSE x \in above : \A y \in above : ~Less(y, x)
  IN  IF Less(Whole(100), least) THEN Whole(100) ELSE least
Significant(pairs, i) == i \in Tested(pairs) /\ ~Less(Whole(5), Adjusted(pairs, i))

\* classify_association
Classified(pairs, i) ==
  IF pairs[i].sparse THEN "unreliable"
  ELSE IF ~Significant(pairs, i) THEN "unconfirmed"
  ELSE IF pairs[i].effect >= 30 THEN "key"
  ELSE IF pairs[i].effect >= 15 THEN "important" ELSE "weak"

\* filter_associations, with every measure allowed.
Filtered(pairs, mode, min, hideSparse) ==
  {i \in DOMAIN pairs :
     /\ hideSparse => ~pairs[i].sparse
     /\ CASE mode = "important" -> Significant(pairs, i) /\ pairs[i].effect >= min
          [] mode = "significant" -> Significant(pairs, i)
          [] mode = "strong" -> pairs[i].effect >= 30
          [] mode = "unreliable" -> pairs[i].sparse
          [] OTHER -> TRUE}
\* _render_overview, as the page opens.
Overview(pairs) == Filtered(pairs, "important", 15, TRUE)

-----------------------------------------------------------------------------
(* Properties of a pair of questions, and of a scan.                        *)

\* An effect is between none and full, the same whichever question comes first
\* and whatever unit the weights are in; a table has none just when the answers
\* are independent, and the full one just when the question with more answers
\* tells those of the other.
EffectsAreComparable(questions, weights) ==
  LET vs == Variables(questions)
      twice == [i \in DOMAIN weights |-> 2 * weights[i]]
  IN  \A i, j \in DOMAIN vs :
        LET pair == PairAssociation(vs[i], vs[j], weights)
            a == vs[i].column
            b == vs[j].column
            table == Crosstab(a, b, weights)
            Tells(x, y) == \A k, l \in DOMAIN x :
                             a[k] # 0 /\ b[k] # 0 /\ a[l] # 0 /\ b[l] # 0 /\ x[k] = x[l] => y[k] = y[l]
        IN  i # j /\ pair # <<>> =>
              /\ pair = PairAssociation(vs[j], vs[i], weights)
              /\ pair = PairAssociation(vs[i], vs[j], twice)
              /\ ~Less(Whole(1), pair[1].effect) /\ pair[1].effect[1] >= 0
              /\ pair[1].measure = "cramers_v" /\ Cardinality(table.rows) > 1 /\ Cardinality(table.cols) > 1 =>
                   pair[1].effect = Whole(1) <=>
                     IF Cardinality(table.rows) > Cardinality(table.cols) THEN Tells(a, b) ELSE Tells(b, a)

\* What is called significant is what the classical procedure rejects at five
\* percent, of the pairs that have a p-value; and the page opens with those
\* it counts as important.
ScanRejectsTheRightPairs(pairs) ==
  LET m == Cardinality(Tested(pairs))
      Upto(p) == Cardinality({i \in Tested(pairs) : pairs[i].p <= p})
      Good(p) == p * m <= 5 * Upto(p)
  IN  /\ \A i \in DOMAIN pairs :
           Significant(pairs, i) <=>
             i \in Tested(pairs) /\ \E j \in Tested(pairs) : Good(pairs[j].p) /\ pairs[i].p <= pairs[j].p
      /\ Overview(pairs) = {i \in DOMAIN pairs : Classified(pairs, i) \in {"key", "important"}}
=============================================================================
