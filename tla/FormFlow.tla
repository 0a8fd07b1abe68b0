------------------------------- MODULE FormFlow -------------------------------
(***************************************************************************)
(* The map of a form's sections (core/form_flow.py): which section follows *)
(* which, what cannot be reached, where the form ends, whether it loops.   *)
(*                                                                         *)
(* A form is the sequence of its sections, the first is the start; a       *)
(* section is the sequence of its questions, a question the set of what    *)
(* its options lead to: the number of a section, one past the last for     *)
(* "submit", or 0 for an option that leads nowhere.  (RESTART_FORM is 1,   *)
(* NEXT_SECTION the number after its own.)  Labels and colours are left    *)
(* out.                                                                    *)
(***************************************************************************)
EXTENDS Integers, Sequences, FiniteSets, SequencesExt

Submit(form) == Len(form) + 1
Sections(form) == DOMAIN form
\* A form whose questions say for each option in turn what it leads to.
OfChoices(form) == [s \in DOMAIN form |-> [q \in DOMAIN form[s] |-> ToSet(form[s][q])]]

\* _conditional_edges: a question branches when an option of it leads somewhere.
Branching(section) == SelectSeq(section, LAMBDA options : options \ {0} # {})
ConditionalEdges(form) ==
  {e \in Sections(form) \X (1..Submit(form)) :
     \E q \in Range(Branching(form[e[1]])) : e[2] \in q}

\* The last branching question of a section says whether its default is needed.
NeedsDefault(section) ==
  LET branching == Branching(section) IN branching # <<>> /\ 0 \in Last(branching)
DefaultEdges(form) ==
  {<<s, s + 1>> : s \in {t \in Sections(form) : Len(form) = 1 \/ NeedsDefault(form[t])}}

\* _reachable_section_ids: breadth first, with what was seen.
Spread(edges, steps) ==
  LET Step(seen) == seen \cup {e[2] : e \in {d \in edges : d[1] \in seen}}
      reach[n \in Nat] == IF n = 0 THEN {1} ELSE Step(reach[n - 1])
  IN  reach[steps]
Reached(form, edges) == Spread({e \in edges : e[2] # Submit(form)}, Len(form))

\* Mutation: sections with an edge of their own kind only.
TerminalEdgesOfStart(form, edges) ==
  {<<s, Submit(form)>> : s \in {t \in {1} : \A e \in edges : e[1] # t}}

\* _terminal_edges.
TerminalEdges(form, edges) ==
  {<<s, Submit(form)>> : s \in {t \in Reached(form, edges) : \A e \in edges : e[1] # t}}

\* _has_cycle: depth first, a section is left with nothing found below it.
Founds == [cycle : BOOLEAN, visited : SUBSET Nat]
Visits == [of : Nat, visiting : SUBSET Nat, found : Founds]
InTurn(visit, sections, visiting, found) ==
  FoldLeft(LAMBDA f, s : visit[[of |-> s, visiting |-> visiting, found |-> f]], found, sections)
Targets(edges, section) == {e[2] : e \in {d \in edges : d[1] = section}}
Visit(edges) ==
  LET visit[v \in Visits] ==
        IF v.found.cycle \/ v.of \in v.visiting THEN [v.found EXCEPT !.cycle = TRUE]
        ELSE IF v.of \in v.found.visited THEN v.found
        ELSE [InTurn(visit, SetToSeq(Targets(edges, v.of)), v.visiting \cup {v.of}, v.found)
                EXCEPT !.visited = @ \cup {v.of}]
  IN  visit
\* Mutation: what is being visited stays so.
HasCycleUnderGraph(form, edges) == \E s \in Sections(form) : Cardinality({e \in edges : e[2] = s}) > 1
HasCycle(form, edges) ==
  LET inner == {e \in edges : e[2] # Submit(form)} IN
  InTurn(Visit(inner), [s \in Sections(form) |-> s], {}, [cycle |-> FALSE, visited |-> {}]).cycle

\* parse_form_flow.
FlowOf(form) ==
  LET own == ConditionalEdges(form) \cup DefaultEdges(form)
      edges == own \cup TerminalEdges(form, own)
  IN [edges       |-> edges,
      unreachable |-> Sections(form) \ Reached(form, edges),
      terminal    |-> {s \in Sections(form) : <<s, Submit(form)>> \in edges},
      cycles      |-> HasCycle(form, edges)]

-----------------------------------------------------------------------------
(* Properties of a form.                                                    *)

\* <<s, t>> when the arrows lead from s to t: by way of each section in turn.
Leads(form, flow) ==
  FoldLeft(LAMBDA paths, via : paths \cup
             {<<p[1], q[2]>> : p \in {d \in paths : d[2] = via}, q \in {d \in paths : d[1] = via}},
           flow.edges, [s \in Sections(form) |-> s])

\* A respondent who follows the map never gets stuck: from every section that
\* is not marked unreachable the map goes on, and it comes to an end unless the
\* form is said to loop.
GoesOn(form, flow) ==
  \A s \in Sections(form) \ flow.unreachable : \E t \in 1..Submit(form) : <<s, t>> \in flow.edges
RespondentsGetThrough(form, flow) ==
  LET leads == Leads(form, flow) IN
  /\ GoesOn(form, flow)
  /\ \A s \in Sections(form) \ flow.unreachable : <<s, Submit(form)>> \in leads \/ flow.cycles

\* What is marked is what the arrows say: a section no path leads to, and a way
\* back to a section that was left.
MarksMatchArrows(form, flow) ==
  LET leads == Leads(form, flow) IN
  /\ flow.unreachable = {s \in Sections(form) \ {1} : <<1, s>> \notin leads}
  /\ flow.cycles = \E s \in Sections(form) : <<s, s>> \in leads
=============================================================================
