---------------------------- MODULE Distributions ----------------------------
(***************************************************************************)
(* The distribution of the answers to one question, as the page shows it   *)
(* (ui/pages/questions.py), as the PDF report prints it (core/reports.py), *)
(* and as it is weighted (core/response_weights.py), over the helpers of   *)
(* core/forms_quality.py.                                                  *)
(*                                                                         *)
(* An answer is <<word, look>>: answers with one word differ by case or    *)
(* spaces only (normalize_label); word 0 is blank.  A Python dict is a     *)
(* sequence of [of, n], in the order of insertion.                         *)
(***************************************************************************)
EXTENDS Integers, Sequences, FiniteSets, SequencesExt, TLC

Word(answer) == answer[1]
Blank(answer) == Word(answer) = 0

IndexOf(dict, key) == SelectInSeq(dict, LAMBDA e : e.of = key)
\* dict[key] = dict.get(key, 0) + n
Plus(dict, key, n) ==
  LET i == IndexOf(dict, key) IN
  IF i = 0 THEN Append(dict, [of |-> key, n |-> n]) ELSE [dict EXCEPT ![i].n = @ + n]
Total(dict) == FoldLeft(LAMBDA sum, e : sum + e.n, 0, dict)
Keys(dict) == {dict[i].of : i \in DOMAIN dict}

\* {normalize_label(option): option}: the last option of a word wins.  An option
\* for answers of one's own has no value, and so the blank word.
Coded(options, word) ==
  LET same == SelectSeq(options, LAMBDA o : Word(o) = word) IN
  IF same = <<>> THEN <<>> ELSE <<Last(same)>>

\* analyze_responses: a response is the sequence of its answers to the question.
Distribution(responses) ==
  FoldLeft(LAMBDA dict, answers : FoldLeft(LAMBDA d, a : Plus(d, a, 1), dict, answers), <<>>, responses)
Answered(responses) == Len(SelectSeq(responses, LAMBDA answers : answers # <<>>))

\* anonymize_distribution.
Anonymous(dict, options, other) ==
  FoldLeft(LAMBDA d, e : Plus(d, IF Coded(options, Word(e.of)) = <<>> THEN other
                                ELSE Coded(options, Word(e.of))[1], e.n), <<>>, dict)

\* Mutation: the count of the label that is shown instead of the sum.
CanonicalLargest(dict, options) ==
  LET words == {Word(k) : k \in Keys(dict)} \ {0}
      Of(word) == SelectSeq(dict, LAMBDA e : Word(e.of) = word)
      Shown(word) == FoldLeft(LAMBDA best, e : IF e.n > best.n THEN e ELSE best, Of(word)[1], Of(word))
  IN  FoldLeft(LAMBDA d, e : IF Word(e.of) = 0 \/ e # Shown(Word(e.of)) THEN d ELSE Append(d, e), <<>>, dict)

\* canonicalize_distribution: one entry for each word, under its coded option
\* or its most frequent look.
Canonical(dict, options) ==
  LET Of(word) == SelectSeq(dict, LAMBDA e : Word(e.of) = word)
      Shown(word) == FoldLeft(LAMBDA best, e : IF e.n > best.n THEN e ELSE best, Of(word)[1], Of(word)).of
      Label(word) == IF Coded(options, word) = <<>> THEN Shown(word) ELSE Coded(options, word)[1]
  IN  FoldLeft(LAMBDA d, e : IF Blank(e.of) THEN d ELSE Plus(d, Label(Word(e.of)), e.n), <<>>, dict)

\* sort_distribution, by count: the label of the others last, if it is kept so.
Sorted(dict, other) ==
  SortSeq(dict, LAMBDA a, b :
    \/ a.of # other /\ b.of = other
    \/ (a.of = other) = (b.of = other) /\ (a.n > b.n \/ (a.n = b.n /\ Word(a.of) < Word(b.of))))

\* The unweighted distribution that the report prints, and that the page shows.
Reported(responses, options, anonymize, other) ==
  LET counted == Distribution(responses) IN
  IF anonymize THEN Anonymous(counted, options, other) ELSE counted
Plain(responses, options, anonymize, other) ==
  Canonical(Reported(responses, options, anonymize, other), options)

\* Mutation: the bars are cut before they are sorted.
CutUnsorted(dict, other) == Sorted(SubSeq(dict, 1, IF Len(dict) < 30 THEN Len(dict) ELSE 30), other)

\* The bars of the page; cfg.top_n of the report is 30 as well unless the user
\* chooses another.
OnScreen(dict, other) ==
  LET sorted == Sorted(dict, other) IN SubSeq(sorted, 1, IF Len(sorted) < 30 THEN Len(sorted) ELSE 30)

-----------------------------------------------------------------------------
(* weighted_response_distribution.                                          *)

NonBlank(answers) == SelectSeq(answers, LAMBDA a : ~Blank(a))
AnsweredIndices(responses) == {i \in DOMAIN responses : NonBlank(responses[i]) # <<>>}

\* _safe_weight: one for what is no positive number.
SafeWeight(w) == IF w > 0 THEN w ELSE 1

\* _weighted_label: the group, and its label when it is new.
WeightedLabel(answer, options, anonymize, other) ==
  IF Coded(options, Word(answer)) # <<>> THEN Coded(options, Word(answer))[1]
  ELSE IF anonymize THEN other ELSE answer

\* Mutation: a respondent's weight is given to the first answer only.
GivenFirst(answers) == IF answers = <<>> THEN <<>> ELSE <<answers[1]>>
Given(answers) == NonBlank(answers)

\* The totals times Scale; normalised to the number of those who answered.
RawWeight(responses, weights) ==
  FoldFunction(LAMBDA a, b : a + b, 0, [i \in AnsweredIndices(responses) |-> SafeWeight(weights[i])])
Weighted(responses, weights, options, anonymize, other) ==
  LET Grouped(dict, label, n) ==
        LET i == SelectInSeq(dict, LAMBDA e : Word(e.of) = Word(label)) IN
        IF i = 0 THEN Append(dict, [of |-> label, n |-> n]) ELSE [dict EXCEPT ![i].n = @ + n]
      share(i) == SafeWeight(weights[i]) * Cardinality(AnsweredIndices(responses))
  IN  FoldLeft(LAMBDA dict, i : FoldLeft(LAMBDA d, a :
                 Grouped(d, WeightedLabel(a, options, anonymize, other), share(i)), dict, Given(responses[i])),
               <<>>, [i \in DOMAIN responses |-> i])
Scale(responses, weights) == RawWeight(responses, weights)

-----------------------------------------------------------------------------
(* Properties of one question.                                              *)

\* Every answer that is not blank is counted in one bar of the page, however its
\* variants are gathered under one label (a blank one is, too, if it is hidden as
\* free text); the bars that find no room are no larger than those that do, but for
\* the one of free text, which is kept last; no label but a coded one is shown of
\* answers that are to be anonymous; and what the report prints of a word, one bar
\* for each spelling, adds up to the bar of the page if it has room for all.
EveryAnswerIsShown(responses, options, anonymize, other) ==
  LET plain == Plain(responses, options, anonymize, other)
      reported == Reported(responses, options, anonymize, other)
      shown == OnScreen(plain, other)
      printed == OnScreen(reported, other)
      blanks == anonymize /\ \A o \in Range(options) : ~Blank(o)
      given == FoldLeft(LAMBDA n, answers : n + Len(IF blanks THEN answers ELSE NonBlank(answers)), 0, responses)
      Printed(e) == Total(SelectSeq(printed, LAMBDA b : Word(b.of) = Word(e.of)))
  IN  /\ Len(plain) <= 30 => Total(shown) = given
      /\ \A i, j \in DOMAIN shown : Word(shown[i].of) = Word(shown[j].of) => i = j
      /\ \A e \in Range(shown), cut \in Range(plain) \ Range(shown) :
           cut.of = other \/ (e.of # other /\ cut.n <= e.n)
      /\ \A e \in Range(shown) : IF Len(reported) <= 30 THEN Printed(e) = e.n ELSE Printed(e) <= e.n
      /\ anonymize => Keys(shown) \subseteq Range(options) \cup {other}

\* A weighted distribution is the plain one when all weigh the same, and whatever the
\* weights are, it adds up to as many answers as were given by as many
\* respondents, if each gave one.
WeightedAgrees(responses, weights, options, anonymize, other) ==
  LET weighted == Weighted(responses, weights, options, anonymize, other)
      scale == Scale(responses, weights)
      plain == Plain(responses, options, anonymize, other)
      noBlanks == \A i \in DOMAIN responses : NonBlank(responses[i]) = responses[i]
      equal == \A i, j \in AnsweredIndices(responses) : SafeWeight(weights[i]) = SafeWeight(weights[j])
      Count(dict, word) == Total(SelectSeq(dict, LAMBDA e : Word(e.of) = word))
  IN  /\ noBlanks /\ equal =>
           \A k \in Keys(plain) \cup Keys(weighted) : Count(weighted, Word(k)) = Count(plain, Word(k)) * scale
      /\ (\A i \in DOMAIN responses : Len(NonBlank(responses[i])) <= 1) =>
           Total(weighted) = Cardinality(AnsweredIndices(responses)) * scale
=============================================================================
