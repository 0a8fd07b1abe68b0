------------------------------- MODULE Analyses -------------------------------
(***************************************************************************)
(* The analyses of a form and its answers that the pages of the web client *)
(* and the report show, and what a page makes of a call that fails.  They  *)
(* are functions of their input: a page takes an input, and what it shows  *)
(* of it is what the operators of the modules below say.  The constants    *)
(* are the inputs that are tried.                                          *)
(***************************************************************************)
EXTENDS Forecast, FormFlow

CONSTANTS
  Forms,       \* FormFlow: forms, each of a section at least
  Tallies,     \* Distributions: [responses, options, weights]
  Anonymity,   \* Distributions: whether answers are shown anonymously
  Grids,       \* PopulationTables: sheets
  Matchings,   \* PopulationTables: [questions, tables]
  Samples,     \* Weighting: [people, dims, moe, cap]
  Pairs,       \* Associations: [questions, weights]
  Scans,       \* Associations: sequences of the pairs of a scan
  Courses,     \* Forecast: [times, kind]
  Pictures,    \* Forecast: [times, kind, fits, stored]
  Prints,      \* Reports: [form, responses, cfg, tables, times, ticked]
  Calls        \* ApiCalls: cases

VARIABLE page   \* what is looked at

Charts == INSTANCE Distributions
Sheets == INSTANCE PopulationTables
Weights == INSTANCE Weighting
Assoc == INSTANCE Associations
Report == INSTANCE Reports
Pdf == INSTANCE ReportPdf
Api == INSTANCE ApiCalls

ASSUME CallsAssumption == Calls \subseteq Api!Cases
ASSUME FormsAssumption == Forms \subseteq Seq(Seq(SUBSET Nat)) \ {<<>>}
ASSUME CoursesAssumption == \A c \in Courses : IsCourse(c)
ASSUME PicturesAssumption == \A c \in Pictures : IsPicture(c)
ASSUME ScansAssumption == Scans \subseteq Seq([p : Int, effect : Int, sparse : BOOLEAN])

Other == <<99, 1>>
\* A page of the report: charts of two bars of two lines; the boxes of the map.
BodyHeight == 80
BoxHeight == 38

Init == page = [of |-> "nothing"]

\* The section map of a form (ui/pages/form_design.py).
ShowMap == \E form \in Forms : page' = [of |-> "map", form |-> form]
\* A question's chart, on the page and in the report.
ShowQuestion == \E q \in Tallies, anonymize \in Anonymity :
  page' = [of |-> "question", q |-> q, anonymize |-> anonymize]
\* The population of a question from a sheet, and of several questions.
ScanSheet == \E grid \in Grids : page' = [of |-> "sheet", grid |-> grid]
AssignPopulations == \E m \in Matchings : page' = [of |-> "match", m |-> m]
\* The weighting of a sample.
WeighSample == \E s \in Samples : page' = [of |-> "sample", s |-> s]
\* A pair of questions, and all pairs of a form.
ShowPair == \E p \in Pairs : page' = [of |-> "pair", p |-> p]
ScanPairs == \E s \in Scans : page' = [of |-> "scan", pairs |-> s]
\* The dynamics of the answers.
ShowWaves == \E c \in Courses : page' = [of |-> "waves", form |-> c]
ShowForecast == \E p \in Pictures : page' = [of |-> "forecast", form |-> p]
\* A report is printed.
PrintReport == \E r \in Prints : page' = [of |-> "report", r |-> r]
\* A page asks the API for data.
CallApi == \E c \in Calls : page' = [of |-> "call", c |-> c]

\* The user goes on to something else.
Leave == page.of # "nothing" /\ page' = [of |-> "nothing"]

Next ==
  \/ /\ page.of = "nothing"
     /\ \/ ShowMap \/ ShowQuestion \/ ScanSheet \/ AssignPopulations \/ WeighSample
        \/ ShowPair \/ ScanPairs \/ ShowWaves \/ ShowForecast \/ PrintReport \/ CallApi
  \/ Leave
Spec == Init /\ [][Next]_page

-----------------------------------------------------------------------------
(* Properties: what each page promises when it is drawn from an input.      *)

\* A respondent who follows the section map of core/form_flow.py never gets
\* stuck: every reachable section leads on, and to the end unless the map says
\* that the form loops.  What it marks as unreachable are just the sections that
\* no arrows lead to, and it warns of a loop just when its arrows make one.
SectionMapIsTrue ==
  [][\A p \in {page'} : p.of = "map" =>
       /\ RespondentsGetThrough(p.form, FlowOf(p.form))
       /\ MarksMatchArrows(p.form, FlowOf(p.form))]_page

\* The chart of a question counts every answer once, under one label for all its
\* spellings, leaves out none but the least of more than thirty, and shows no free
\* text when answers are anonymous; what the report prints of a word adds up to the
\* bar of the page.  Weighting changes the shares and nothing else: equal weights
\* give the plain numbers, and others keep the number of answers.
ChartsTellAll ==
  [][\A p \in {page'} : p.of = "question" =>
       /\ Charts!EveryAnswerIsShown(p.q.responses, p.q.options, p.anonymize, Other)
       /\ Charts!WeightedAgrees(p.q.responses, p.q.weights, p.q.options, p.anonymize, Other)]_page

\* The scan of a spreadsheet finds each longest run of strata with counts once,
\* wherever it stands, with the first count of each stratum; and tables go to the
\* questions they fit best, none to two questions.
TablesGoWhereTheyFit ==
  [][\A p \in {page'} :
     /\ p.of = "sheet" => Sheets!TablesAreWholeRuns(p.grid)
     /\ p.of = "match" => Sheets!TablesGoToTheStrongest(p.m.questions, p.m.tables)]_page

\* Weighted, each stratum has its share of the population again, a cap only takes
\* from it, and the effective sample is never larger than the real one.  The
\* timelines of weights and of the design effect, computed with running sums,
\* show at each answer what the whole computation would have shown then.
WeightsRestorePopulation ==
  [][\A p \in {page'} : p.of = "sample" =>
       /\ Weights!PopulationIsRestored(p.s.people, p.s.dims, p.s.moe, p.s.cap)
       /\ Weights!MomentsAreAsTheyWere(p.s.people, p.s.dims, p.s.moe)]_page

\* The effect of a pair of questions does not depend on their order nor on the
\* unit of the weights, is between none and full, and full just when one question
\* tells the other.
EffectsAreComparable ==
  [][\A p \in {page'} : p.of = "pair" => Assoc!EffectsAreComparable(p.p.questions, p.p.weights)]_page

\* The scan of all pairs rejects what the procedure of Benjamini and Hochberg
\* rejects, and the page opens with the associations it calls important.
ScanRejectsTheRightPairs ==
  [][\A p \in {page'} : p.of = "scan" => Assoc!ScanRejectsTheRightPairs(p.pairs)]_page

\* A wave of answers that was found stays found when more answers come, as far from
\* the others as its kind asks, with the count of the answers before it as its index.
WavesStayFound ==
  [][\A p \in {page'} : p.of = "waves" => WavesStay(p.form)]_page

\* The forecast drawn goes on from the last answer of the chosen window, whatever
\* was fitted: later, never lower, in a sane band, not too far.
ForecastGoesOnFromFacts ==
  [][\A p \in {page'} : p.of = "forecast" => GoesOnFromFacts(p.form, p.form.stored)]_page

\* The report has a page for every question that is not hidden, no blank page, the
\* same words weighted or not, its outline without gaps, all of it drawn, no chart
\* higher than a page, and the arrows of its section map on lanes of their own.
ReportIsWhole ==
  [][\A p \in {page'} : p.of = "report" =>
       /\ Report!EveryQuestionHasItsPage(p.r)
       /\ Pdf!DrawnWhole(Report!Generated(p.r), BodyHeight, 2)
       /\ Pdf!ArrowsApart(Report!OptionLeads(p.r.form), BoxHeight)]_page

\* What a page makes of a call that fails: the user is signed out only for a
\* refused session or a revoked grant, and offered to connect again whenever a
\* scope is missing, whichever way Google or the API says it.
FailuresAreTakenRight == page.of = "call" => Api!FailuresAreTakenRight(page.c)

\* ui/api_boundary.py:3-5: the boundary replaces a traceback with a proper state
\* on every page.
EveryPageHasAProperState == page.of = "call" => Api!ProperState(page.c)

\* ui/pages/catalog.py:493-494: an error of the background load is handled as for
\* any page call.
LoadErrorsAreSurfaced == page.of = "call" => Api!HandledAsAnyCall(page.c)
=============================================================================
