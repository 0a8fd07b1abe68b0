------------------------------- MODULE MCPages -------------------------------
EXTENDS Pages, FiniteSets, SequencesExt, TLC

SmallSets(S, n) == {s \in SUBSET S : s # {} /\ Cardinality(s) <= n}

\* Forms of one to four sections.
OneQuestion(S) == {<<>>} \cup {<<q>> : q \in S}
TwoQuestions(S) == OneQuestion(S) \cup {<<q, r>> : q \in S, r \in S}
MCForms == [1..1 -> TwoQuestions(SmallSets(0..2, 3))]
           \cup {<<p, q>> : p \in TwoQuestions(SmallSets(0..3, 2)), q \in OneQuestion(SmallSets(0..3, 2))}
           \cup [1..3 -> OneQuestion(SmallSets(0..4, 2))]
           \cup [1..4 -> OneQuestion(SmallSets(0..5, 1))]

\* Up to three respondents; two words, the first in two spellings, and a blank; and
\* about as many words as a chart has room for.
FirstWords(n) == [k \in 1..n |-> <<k, 1>>]
Answers == {<<0, 1>>, <<1, 1>>, <<1, 2>>, <<2, 1>>}
UpTo2 == {<<>>} \cup {<<a>> : a \in Answers} \cup {<<a, b>> : a \in Answers, b \in Answers}
UpTo1 == {<<>>} \cup {<<a>> : a \in Answers}
MCTallies ==
  {[responses |-> <<r1, r2, r3>>, options |-> o, weights |-> w] :
     r1 \in UpTo2, r2 \in UpTo1, r3 \in UpTo1,
     o \in {<<>>, <<<<1, 1>>>>, <<<<1, 2>>, <<2, 1>>>>, <<<<2, 1>>, <<0, 1>>>>},
     w \in {<<1, 1, 1>>, <<2, 1, 1>>, <<0, 2, 1>>}}
  \cup
  {[responses |-> <<FirstWords(m), <<<<5, 1>>, <<5, 2>>>>, <<<<31, 1>>, <<2, 2>>>>>>, options |-> FirstWords(n), weights |-> <<2, 1, 1>>] :
     m \in {29, 30, 32}, n \in {0, 29, 30, 31}}

\* Sheets of three rows of two or three cells, and a long one with a repeated label.
A == <<1, 1>>
B == <<2, 1>>
C == <<3, 1>>
Row2 == {<<x, y>> : x \in {<<>>, <<A>>, <<B>>, <<C>>}, y \in {<<>>, <<A>>, <<B, 1>>, <<C, 2>>}}
Long(k) == [i \in 1..10 |-> <<<<<<IF i = 10 THEN k ELSE i, 1>>>>, <<<<20, 1>>, i>>>>]
MCGrids == [1..3 -> Row2]
           \cup {<<r, s, t>> : r \in {<<<<A>>>>, <<>>}, s \in Row2, t \in Row2}
           \cup {<<<<<<A>>, x, y>>, <<<<B>>, y, x>>>> : x \in {<<B, 1>>, <<C>>}, y \in {<<A, 3>>, <<>>}}
           \cup {Long(k) : k \in {1, 10}}
           \cup {<<<<<<A>>, <<B>>>>>> \o Long(k) : k \in {1, 10}}

\* Two questions and three tables over four words.
OptionLists == {<<A, B>>, <<A, <<2, 2>>, C>>, <<B, C>>, <<A, B, C, <<4, 1>>>>, <<A, A>>, <<A>>}
Table(k, words) == [at |-> <<k, 1>>, header |-> 0, population |-> [i \in DOMAIN words |-> [of |-> words[i], n |-> i]]]
WordLists == {<<A, B>>, <<B, C>>, <<A, B, C>>, <<A, <<1, 2>>, B>>, <<C, <<4, 1>>>>}
MCMatchings == {[questions |-> <<p, q>>, tables |-> <<Table(1, s), Table(2, t), Table(3, u)>>] :
                  p \in OptionLists, q \in OptionLists, s \in WordLists, t \in WordLists, u \in WordLists}

\* Samples of up to four people in one or two dimensions; 9 is outside.
Main == {<<3, 1>>, <<2, 2>>, <<4, 0>>}
MCSamples ==
  {[people |-> p, dims |-> <<d>>, moe |-> m, cap |-> c] :
     p \in UNION {[1..n -> {<<1>>, <<2>>, <<9>>}] : n \in 1..4}, d \in Main, m \in {5, 40}, c \in {0, 2}}
  \cup {[people |-> p, dims |-> <<d, e>>, moe |-> 40, cap |-> c] :
     p \in UNION {[1..n -> {1, 2, 9} \X {1, 2}] : n \in 1..3}, d \in {<<3, 1>>}, e \in {<<1, 1>>, <<1, 2>>}, c \in {0, 1}}

\* Two questions of four respondents.
Column(S) == [1..4 -> S]
Choice(S) == {[type |-> "MULTIPLE_CHOICE", options |-> <<>>, answers |-> [i \in 1..4 |-> IF c[i] = 0 THEN <<>> ELSE <<c[i]>>]] : c \in Column(S)}
ScaleOf == {[type |-> "LINEAR_SCALE", options |-> <<>>, answers |-> [i \in 1..4 |-> <<c[i]>>]] : c \in Column({1, 2, 5})}
Ticks == {[type |-> "CHECKBOX", options |-> <<21, 0, 22>>, answers |-> a] : a \in [1..4 -> {<<>>, <<21>>, <<22>>, <<21, 22>>}]}
MCPairs == {[questions |-> <<p, q>>, weights |-> <<1, 1, 2, 3>>] :
              p \in Choice({0, 21, 22, 23}), q \in {c \in Choice({21, 22}) : c.answers[1] = <<21>>}}
           \cup {[questions |-> <<p, q>>, weights |-> <<1, 2, 1, 1>>] : p \in ScaleOf, q \in {c \in Choice({3, 4}) : c.answers[1] = <<3>>}}
           \cup {[questions |-> <<p>>, weights |-> <<1, 1, 2, 1>>] : p \in Ticks}

\* Scans of up to four pairs; -1 is no p-value.
MCScans == UNION {[1..n -> [p : {-1, 1, 2, 3, 60}, effect : {10, 40}, sparse : {FALSE}]
                      \cup [p : {1, 5}, effect : {20}, sparse : {TRUE, FALSE}]] : n \in 1..3}
           \cup [1..4 -> [p : {-1, 1, 2, 3, 4, 5}, effect : {20}, sparse : {FALSE}]]

\* Courses of seven answers.
TimesOf(gaps) == [i \in 1..(Len(gaps) + 1) |-> FoldLeft(+, 5, SubSeq(gaps, 1, i - 1))]
FormKinds == {[silence |-> 1, mult |-> 8], [silence |-> 6, mult |-> 2]}
MCCourses == {[times |-> TimesOf(g), kind |-> k] : g \in [1..6 -> {0, 1, 5, 14}], k \in FormKinds}

\* Pictures: hours, a wave of five late, days, lone answers first.
Runs == {<<0, 1, 0, 2, 1, 1>>, <<1, 20, 0, 1, 0, 1, 3>>, <<1, 1, 30, 0, 1>>, <<60, 50, 1, 0, 1>>, <<60, 50, 40, 41>>,
         <<3, 3>>, <<50, 60, 1, 1, 1, 1, 1, 1, 1, 1, 1, 1, 2>>}
Fit == [converges : {TRUE}, aicc : {1}, level : {-3, 0, 7}, slope : {0, 4}, half : {1, 90}, wellPosed : {TRUE}]
       \cup [converges : {TRUE}, aicc : {1}, level : {-1}, slope : {1}, half : {0}, wellPosed : {FALSE}]
Lost == [converges |-> FALSE, aicc |-> 0, level |-> 0, slope |-> 0, half |-> 0, wellPosed |-> FALSE]
Better == [converges |-> TRUE, aicc |-> 0, level |-> 2, slope |-> 3, half |-> 5, wellPosed |-> TRUE]
MCPictures == {[times |-> TimesOf(r), kind |-> k, fits |-> f, stored |-> s] :
                 r \in Runs, k \in FormKinds, f \in {<<Better, Lost, g>> : g \in Fit} \cup {<<Lost, Lost, Lost>>},
                 s \in {<<>>, <<1, 6>>, <<2, 40>>, <<30, 40>>, <<3, 8>>}}

\* Reports on a form of two or three questions or rows and two respondents; in all
\* ways, and with answers of all kinds in one.
Q(id, type) == [id |-> id, type |-> type, options |-> <<A, B>>, low |-> 1, high |-> 5, flaws |-> {}]
Item(kind, questions, leads) == [kind |-> kind, questions |-> questions, leads |-> leads]
PrintedForms ==
  {<<Item("question", <<Q(1, s)>>, l)>> \o b
     \o <<Item("grid", <<Q(2, "radio"), Q(3, t)>>, <<>>), Item("text", <<>>, <<>>)>> :
     s \in {"radio", "scale"}, l \in {<<0>>, <<2, 0, 2>>, <<1>>}, b \in {<<>>, <<Item("break", <<>>, <<>>)>>},
     t \in {"text", "checkbox"}}
  \cup {<<Item("question", <<Q(1, "radio")>>, <<0>>),
          Item("grid", <<Q(2, "radio"), [Q(3, "checkbox") EXCEPT !.options = <<A, <<0, 1>>>>]>>, <<>>)>>,
        <<Item("question", <<Q(1, "radio")>>, <<3, 3, 4, 2>>), Item("question", <<Q(2, "radio")>>, <<3, 0, 1>>),
          Item("break", <<>>, <<>>), Item("question", <<Q(3, "radio")>>, <<3, 1>>), Item("break", <<>>, <<>>)>>}
Free(spelling) == <<7, spelling>>
GivenAnswers(firsts, seconds, thirds) ==
  {<<[q \in 1..3 |-> IF q = 1 THEN a ELSE IF q = 2 THEN b ELSE c], [q \in 1..3 |-> IF q = 2 THEN d ELSE <<B>>]>> :
     a \in firsts, b \in seconds, c \in thirds, d \in {<<>>, <<Free(2)>>}}
Weigh == [D \in SUBSET {1, 2} |-> IF D = {} THEN <<>> ELSE IF D = {1} THEN <<2, 1>> ELSE <<1, 3>>]
Settings(hide, dims) ==
  [metrics |-> TRUE, audit |-> TRUE, table |-> "flagged", map |-> TRUE, anonymize |-> hide, hideOnlyOther |-> hide,
   topN |-> 30, render |-> "both", dims |-> dims, weigh |-> Weigh]
Cut == [Settings(TRUE, {}) EXCEPT !.metrics = FALSE, !.table = "all", !.map = FALSE, !.topN = 1, !.render = "chart"]
SheetTable == [at |-> <<1, 1>>, header |-> 0, population |-> <<[of |-> A, n |-> 3], [of |-> B, n |-> 4]>>]
AllSections == {"overview", "descriptive", "representativeness", "associations", "dynamics"}
MCPrints ==
  [form : PrintedForms, tables : {<<SheetTable>>}, times : {"enough"}, ticked : {AllSections},
   responses : GivenAnswers({<<>>, <<A>>}, {<<A>>, <<Free(1)>>}, {<<<<0, 1>>>>, <<A, <<1, 2>>>>, <<Free(1)>>}),
   cfg : {Settings(hide, dims) : hide \in BOOLEAN, dims \in {{}, {1, 2}}} \cup {Cut}]
  \cup
  [form : {<<Item("question", <<Q(1, "radio")>>, <<0>>), Item("question", <<Q(2, "radio"), Q(3, "text")>>, <<0>>)>>},
   tables : {<<SheetTable>>, <<>>}, times : {"unread", "few", "enough"}, ticked : SUBSET AllSections \ {{}},
   responses : GivenAnswers({<<A>>}, {<<A>>, <<Free(1)>>}, {<<B>>}),
   cfg : {Settings(TRUE, {1, 2})}]

\* Calls: what goes wrong at each stage.
GoogleErrors ==
  [status : {400, 401, 403, 404, 429, 500}, phrase : BOOLEAN,
   reasons : {<<>>, <<"forbidden">>, <<"forbidden", "insufficientPermissions">>, <<"accessNotConfigured">>}]
MCCalls ==
  [call : {"list", "form", "load", "tables", "report"}, host : {200}, session : {"valid"},
   account : {"none", "lacks", "revoked", "unrefreshed", "ok"},
   google : GoogleErrors \cup [status : {0, 200}, phrase : {FALSE}, reasons : {<<>>}]]
  \cup
  [call : {"list", "form", "load", "tables", "report"}, host : {200, 0, 429, 502, 503, 504},
   session : {"valid", "refused"}, account : {"lacks", "ok"},
   google : [status : {403, 200}, phrase : {FALSE}, reasons : {<<>>}]]

\* The settings of the weights: two questions, the answers of up to three visits, some
\* deleted before the last.
TableOf(k, labels) ==
  [at |-> <<k, 1>>, header |-> 0, population |-> [i \in DOMAIN labels |-> [of |-> labels[i], n |-> k + i]]]
MCStages == <<<<<<A, B>>, <<>>>>, <<<<A, B, C>>, <<C, B>>>>, <<<<>>, <<C, B>>>>>>
MCSheet == <<TableOf(10, <<A, B>>), TableOf(20, <<B, C>>)>>
MCFiles == {TableOf(30, <<A, C>>), TableOf(40, <<>>)}

\* The caches of the report's data.
MCLife == "responses" :> 2 @@ "timestamps" :> 1 @@ "tables" :> 3 @@ "page" :> 3

\* Two accounts: more forms than are kept, a page of them short; one form.
CONSTANTS c1, c2
FormItem(kind, rows, type) == [kind |-> kind, rows |-> rows, type |-> type, columns |-> TRUE]
MCAccount ==
  c1 :> [files |-> <<1, 2, 3, 4>>, answers |-> <<3, 0, 1>>, publish |-> {"isPublished"},
         items |-> <<FormItem("question", <<"q1">>, "RADIO"), FormItem("break", <<>>, ""),
                     FormItem("grid", <<"q2", "q3">>, "CHECKBOX")>>,
         sheets |-> <<[grid |-> TRUE, rows |-> <<1>>], [grid |-> FALSE, rows |-> <<>>],
                      [grid |-> TRUE, rows |-> <<2, 3>>]>>]
  @@ c2 :> [files |-> <<5>>, answers |-> <<2>>, publish |-> {"unsaid"},
            items |-> <<FormItem("text", <<>>, "")>>, sheets |-> <<[grid |-> FALSE, rows |-> <<>>]>>]
=============================================================================
