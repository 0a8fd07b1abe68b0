------------------------------- MODULE Reports -------------------------------
(***************************************************************************)
(* What the PDF report says (core/reports.py) and where it has it from     *)
(* (ui/report_data.py): its sections as sequences of blocks.               *)
(*                                                                         *)
(* A form is the sequence of its items: page breaks, grids, questions, and *)
(* texts.  A question is [id, type, options, low, high, flaws]: types that *)
(* the report treats alike have one name, flaws are what the linter says   *)
(* of its title.  A response gives every question its sequence of answers  *)
(* (see Distributions).  cfg.weigh[D] are the weights by the dimensions D  *)
(* (module Weighting), none if they cannot be computed.                    *)
(***************************************************************************)
EXTENDS Integers, Sequences, FiniteSets, SequencesExt

LOCAL Charts == INSTANCE Distributions
LOCAL Map == INSTANCE FormFlow
LOCAL Tables == INSTANCE PopulationTables

MAX_OPTIONS == 11
Other == <<99, 1>>

\* _iter_questions.
Questions(form) == FlattenSeq([i \in DOMAIN form |-> form[i].questions])
HasOptions(q) == q.type \in {"radio", "checkbox"}
Options(q) == IF HasOptions(q) THEN q.options ELSE <<>>
Given(responses, q) == [i \in DOMAIN responses |-> responses[i][q.id]]

\* analyze_form_design.
NOptions(q) == IF q.type = "scale" THEN q.high - q.low + 1 ELSE Len(Options(q))
Flagged(q) == q.flaws # {} \/ NOptions(q) > MAX_OPTIONS

\* The questions of each section by where their options lead, and as FormFlow has them.
OptionLeads(form) ==
  FoldLeft(LAMBDA sections, item :
             IF item.kind = "break" THEN Append(sections, <<>>)
             ELSE IF item.leads = <<>> THEN sections
             ELSE [sections EXCEPT ![Len(sections)] = Append(@, item.leads)],
           <<<<>>>>, form)
SectionsOf(form) == Map!OfChoices(OptionLeads(form))

\* Blocks: q is the question that a heading or a chart is of, if any.
Block(of) == [of |-> of, level |-> 0, q |-> 0, items |-> <<>>, weighted |-> FALSE]
Heading(level, q) == [Block("heading") EXCEPT !.level = level, !.q = q]
PageBreak == Block("break")
OnlyIf(condition, blocks) == IF condition THEN blocks ELSE <<>>

-----------------------------------------------------------------------------
(* overview_section                                                         *)

QuestionTable(form, mode) ==
  LET shown == IF mode = "all" THEN Questions(form) ELSE SelectSeq(Questions(form), Flagged) IN
  IF mode = "none" THEN <<>>
  ELSE IF shown = <<>> THEN <<Block("para")>>
  ELSE <<Heading(3, 0), [Block("table") EXCEPT !.items = shown]>>

\* _overview_flow_map, flow_has_interesting_structure.
FlowMap(form) ==
  LET sections == SectionsOf(form)
      flow == Map!FlowOf(sections)
  IN  OnlyIf(\/ Len(sections) > 1 \/ Map!ConditionalEdges(sections) # {}
             \/ flow.unreachable # {} \/ flow.cycles,
             <<PageBreak, Heading(3, 0), [Block("map") EXCEPT !.items = sections]>>
             \o OnlyIf(flow.unreachable # {}, <<Block("para")>>))

OverviewSection(form, responses, cfg) ==
  LET questions == Questions(form)
      metrics == OnlyIf(cfg.metrics, <<Len(responses), Len(questions),
                                       Len(SelectSeq(questions, LAMBDA q : q.type = "text"))>>)
                 \o OnlyIf(cfg.audit, <<1 + Len(SelectSeq(form, LAMBDA item : item.kind = "break")),
                                        Len(SelectSeq(questions, Flagged))>>)
  IN  <<Heading(2, 0)>>
      \o OnlyIf(metrics # <<>>, <<[Block("metrics") EXCEPT !.items = metrics]>>)
      \o OnlyIf(cfg.audit, QuestionTable(form, cfg.table))
      \o OnlyIf(cfg.map, FlowMap(form))

-----------------------------------------------------------------------------
(* descriptive_section                                                      *)

\* Mutation: a question is weighted by itself, too.
ActiveAll(dims, q) == dims
\* compute_configured_response_weights: no question weighs itself.
Active(dims, q) == dims \ {q.id}

\* _descriptive_distribution.
Chart(responses, q, cfg) ==
  LET given == Given(responses, q)
      weights == cfg.weigh[Active(cfg.dims, q)]
      weighted == /\ Active(cfg.dims, q) # {} /\ weights # <<>>
                  /\ Charts!AnsweredIndices(given) # {}
  IN  [weighted |-> weighted,
       bars |-> IF weighted THEN Charts!Weighted(given, weights, Options(q), cfg.anonymize, Other)
                ELSE Charts!Reported(given, Options(q), cfg.anonymize, Other)]

HasChart(responses, q) == q.type # "text" /\ \E i \in DOMAIN responses : responses[i][q.id] # <<>>
Hidden(responses, q, cfg) ==
  /\ cfg.hideOnlyOther /\ HasChart(responses, q)
  /\ Charts!Keys(Chart(responses, q, cfg).bars) = {Other}

QuestionBlocks(responses, q, cfg) ==
  LET chart == Chart(responses, q, cfg)
      drawn == HasChart(responses, q)
      sorted == Charts!Sorted(chart.bars, Other)
      bars == [k \in DOMAIN sorted \cap 1..cfg.topN |-> sorted[k]]
  IN  <<Heading(3, q.id), [Block("para") EXCEPT !.weighted = drawn /\ chart.weighted]>>
      \o OnlyIf(~drawn /\ (q.type # "text" \/ \E i \in DOMAIN responses : responses[i][q.id] # <<>>), <<Block("para")>>)
      \o OnlyIf(drawn /\ cfg.render # "chart", <<[Block("table") EXCEPT !.q = q.id, !.items = bars]>>)
      \o OnlyIf(drawn /\ cfg.render # "table", <<[Block("chart") EXCEPT !.q = q.id, !.items = bars]>>)

\* Mutation: every question but the first of the form begins with a break.
BreakBeforeLater(blocks, place) == OnlyIf(place > 1, <<PageBreak>>)
BreakBefore(blocks, place) == OnlyIf(blocks # <<>>, <<PageBreak>>)

DescriptiveSection(form, responses, cfg) ==
  LET questions == Questions(form)
      blocks == FoldLeft(LAMBDA done, k :
                  IF Hidden(responses, questions[k], cfg) THEN done
                  ELSE done \o BreakBefore(done, k) \o QuestionBlocks(responses, questions[k], cfg),
                  <<>>, [k \in DOMAIN questions |-> k])
  IN  OnlyIf(blocks # <<>>, <<Heading(2, 0)>> \o blocks)

-----------------------------------------------------------------------------
(* The other sections, and the report.                                      *)

\* _single_choice, _first_answers
SingleChoice(form) == SelectSeq(Questions(form), LAMBDA q : q.type = "radio")
First(responses, q) ==
  LET given == Given(responses, q) IN
  [i \in DOMAIN given |-> IF given[i] = <<>> THEN <<0, 1>> ELSE given[i][1]]
Distinct(answers) ==
  FoldLeft(LAMBDA seen, a : IF Charts!Blank(a) \/ Contains(seen, a) THEN seen ELSE Append(seen, a), <<>>, answers)

\* auto_weighting, weighting_from_tables: the questions that have a table of the
\* linked sheet (none if there is no sheet, or it cannot be read).
AutoWeighted(form, responses, tables) ==
  LET asked == SelectSeq(SingleChoice(form), LAMBDA q : Distinct(First(responses, q)) # <<>>)
      assigned == Tables!AssignTables([k \in DOMAIN asked |-> Distinct(First(responses, asked[k]))], tables)
  IN  {asked[a.question].id : a \in Range(assigned)}
RepresentativenessSection == <<Heading(2, 0), Block("metrics"), Block("para"), Heading(3, 0), Block("para"), Block("table")>>

\* top_association_rows: the pairs that somebody answered both of.
Associated(form, responses) ==
  LET eligible == SelectSeq(SingleChoice(form), LAMBDA q : Len(Distinct(First(responses, q))) >= 2)
      Both(q, r) == \E i \in DOMAIN responses : ~Charts!Blank(First(responses, q)[i]) /\ ~Charts!Blank(First(responses, r)[i])
  IN  {p \in (DOMAIN eligible) \X (DOMAIN eligible) : p[1] < p[2] /\ Both(eligible[p[1]], eligible[p[2]])}
AssociationsSection(pairs) == <<Heading(2, 0), Block("para")>> \o OnlyIf(pairs # {}, <<Block("table")>>)

\* dynamics_metrics: nothing if the times cannot be read, no forecast if it fails.
DynamicsSection(forecast) == <<Heading(2, 0), Block("metrics")>> \o OnlyIf(forecast, <<Block("para")>>)

FullReport(sections) ==
  FoldLeft(LAMBDA blocks, k : blocks \o OnlyIf(k > 1, <<PageBreak>>) \o sections[k], <<>>, [k \in DOMAIN sections |-> k])

\* What the button makes of the ticked sections (ui/pages/export.py).
Generated(r) ==
  FullReport(OnlyIf("overview" \in r.ticked, <<OverviewSection(r.form, r.responses, r.cfg)>>)
             \o OnlyIf("descriptive" \in r.ticked, <<DescriptiveSection(r.form, r.responses, r.cfg)>>)
             \o OnlyIf("representativeness" \in r.ticked /\ AutoWeighted(r.form, r.responses, r.tables) # {},
                       <<RepresentativenessSection>>)
             \o OnlyIf("associations" \in r.ticked, <<AssociationsSection(Associated(r.form, r.responses))>>)
             \o OnlyIf("dynamics" \in r.ticked /\ r.times # "unread", <<DynamicsSection(r.times = "enough")>>))

-----------------------------------------------------------------------------
(* Properties of a report r.                                                *)

\* The blocks between the breaks.
PagesOf(blocks) ==
  FoldLeft(LAMBDA pages, b : IF b.of = "break" THEN Append(pages, <<>>)
                             ELSE [pages EXCEPT ![Len(pages)] = Append(@, b)], <<<<>>>>, blocks)
Heads(blocks) == LET heads == SelectSeq(blocks, LAMBDA b : b.of = "heading" /\ b.q # 0)
                 IN  [k \in DOMAIN heads |-> heads[k].q]

\* The report has a page for every question, in the form's order, but for those
\* that nobody gave a coded answer to when they are to be hidden (a blank answer is
\* none when it is weighted); it has the same pages, and the same words on them when
\* none are cut or hidden, whether it weighs or not, if blanks are not coded; no
\* weights that a question has a part in bear on its own page; no page is blank,
\* unless every question is hidden; and the overview counts as many sections as the
\* map draws.
EveryQuestionHasItsPage(r) ==
  LET section == DescriptiveSection(r.form, r.responses, r.cfg)
      plain == DescriptiveSection(r.form, r.responses, [r.cfg EXCEPT !.dims = {}])
      pages == PagesOf(section)
      blanksAreFree == \A q \in Range(Questions(r.form)) : \A o \in Range(Options(q)) : ~Charts!Blank(o)
      OnlyOther(q) == /\ HasChart(r.responses, q) /\ r.cfg.hideOnlyOther /\ r.cfg.anonymize
                      /\ \A i \in DOMAIN r.responses : \A a \in Range(r.responses[i][q.id]) :
                           \/ Charts!Coded(Options(q), Charts!Word(a)) = <<>>
                           \/ Charts!Blank(a) /\ Chart(r.responses, q, r.cfg).weighted
      unweighed(q) == [r.cfg EXCEPT !.weigh = [D \in DOMAIN @ |-> IF q.id \in D THEN <<>> ELSE @[D]]]
      left == SelectSeq(Questions(r.form), LAMBDA q : ~OnlyOther(q))
      Words(blocks, id) == UNION {{Charts!Word(e.of) : e \in Range(b.items)} :
                                  b \in {c \in Range(blocks) : c.of \in {"chart", "table"} /\ c.q = id}} \ {0}
      maps == SelectSeq(Generated(r), LAMBDA b : b.of = "map")
      numbers == SelectSeq(OverviewSection(r.form, r.responses, r.cfg), LAMBDA b : b.of = "metrics")
  IN  /\ Heads(section) = [k \in DOMAIN left |-> left[k].id]
      /\ left # <<>> => \A page \in Range(pages) : Len(Heads(page)) = 1
      /\ blanksAreFree => Heads(plain) = Heads(section)
      /\ r.cfg.topN >= 30 /\ ~r.cfg.anonymize => \A id \in Range(Heads(section)) : Words(plain, id) = Words(section, id)
      /\ \A q \in Range(Questions(r.form)) :
           QuestionBlocks(r.responses, q, r.cfg) = QuestionBlocks(r.responses, q, unweighed(q))
      /\ Generated(r) # <<>> /\ ("descriptive" \in r.ticked => left # <<>>) =>
           \A page \in Range(PagesOf(Generated(r))) : page # <<>>
      /\ r.cfg.metrics /\ r.cfg.audit /\ maps # <<>> => numbers[1].items[4] = Len(maps[1].items)
=============================================================================
