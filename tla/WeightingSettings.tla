--------------------------- MODULE WeightingSettings ---------------------------
(***************************************************************************)
(* The settings of the weighting page (ui/pages/weighting.py) for one form *)
(* in one browser tab: for every question of a single choice a population, *)
(* from the form's sheet or from a file, and a box to tick.  What is       *)
(* ticked is kept twice: as a draft, which the page itself reads when it   *)
(* is drawn again, and as the configuration that the results, the          *)
(* questions page and the report weigh by.                                 *)
(*                                                                         *)
(* A run of the page draws the questions one after another and stores the  *)
(* configuration at its end; the next thing the user does cuts it short.   *)
(* A box or a file that a run does not draw may lose its state (Streamlit).*)
(* Populations are those of PopulationTables.                              *)
(***************************************************************************)
EXTENDS Integers, Sequences, FiniteSets

CONSTANTS
  Stages,      \* Stages[k][q]: the answers given to q, after k arrivals
  SheetTables, \* the tables of the form's sheet
  Files,       \* tables read from files that the user may choose
  WithFiles,   \* bound: the questions he chooses files for
  NoFile

LOCAL Tables == INSTANCE PopulationTables

VARIABLES
  stage,    \* the answers that the page has
  mode,     \* of the page: "settings", or one of those that show results
  box,      \* box[q]: the state of the tick box
  chosen,   \* chosen[q]: the file of the file box
  draft,    \* weighting_draft_...: [included, saved]
  config,   \* weighting_config_...: the populations to weigh by
  \* History.
  offered,  \* offered[q]: the box can be ticked
  clicked,  \* clicked[q]: what the user clicked that no run has drawn yet
  wish,     \* wish[q]: what the user clicked last, as far as it was drawn
  accepted, \* accepted[q]: the population of the last file that fitted
  misfit,   \* misfit[q]: at the last run q had a file that did not fit
  settled   \* the last run with the settings reached its end

settingsVars == <<stage, mode, box, chosen, draft, config, offered, clicked, wish, accepted, misfit, settled>>

Chosen == DOMAIN Stages[1]
Boxes == {"gone", "on", "off"}
NoPopulation == <<>>
NoConfig == <<>>   \* nothing to weigh by: the key is not there
Everywhere(x) == [q \in Chosen |-> x]

SettingsInit ==
  /\ stage = 1 /\ mode = "settings" /\ settled = FALSE
  /\ box = Everywhere("gone") /\ chosen = Everywhere(NoFile)
  /\ draft = [included |-> Everywhere("none"), saved |-> Everywhere(NoPopulation)]
  /\ config = NoConfig
  /\ offered = Everywhere(FALSE) /\ clicked = Everywhere("none") /\ wish = Everywhere("none")
  /\ accepted = Everywhere(NoPopulation) /\ misfit = Everywhere(FALSE)

-----------------------------------------------------------------------------
(* A run of the page.                                                       *)

Given(q) == Stages[stage][q]   \* option_sets
Asked(q) == Given(q) # <<>>

\* assign_tables_to_questions, when the sheet could be read.
Assigned == [k \in DOMAIN Stages |-> Tables!AssignTables(Stages[k], SheetTables)]
FromSheet(q, readable) ==
  LET mine == SelectSeq(Assigned[stage], LAMBDA a : a.question = q)
  IN  IF mine = <<>> \/ ~readable THEN NoPopulation ELSE mine[1].match.population

\* A file that fits no answer is an error, and the sheet's table is taken.
FromFile(q) ==
  IF chosen[q] = NoFile THEN NoPopulation ELSE Tables!MatchPopulation(Given(q), chosen[q]).population
Saved(q) == IF FromFile(q) # NoPopulation THEN FromFile(q) ELSE draft.saved[q]

\* Mutation: a table of the sheet comes before what was saved.
PopulationSheetFirst(q, readable) ==
  IF FromFile(q) # NoPopulation THEN FromFile(q)
  ELSE IF FromSheet(q, readable) = NoPopulation THEN draft.saved[q] ELSE FromSheet(q, readable)

Population(q, readable) ==
  IF FromFile(q) # NoPopulation THEN FromFile(q)
  ELSE IF chosen[q] = NoFile /\ draft.saved[q] # NoPopulation THEN draft.saved[q]
  ELSE FromSheet(q, readable)

\* Mutation: a box is ticked whenever there is a population.
DrawnAnew(q, found) == IF box[q] # "gone" THEN box[q] ELSE IF found THEN "on" ELSE "off"

\* The box, with its value from the draft if it has no state.
Drawn(q, found) ==
  IF box[q] # "gone" THEN box[q]
  ELSE IF draft.included[q] # "none" THEN draft.included[q]
  ELSE IF found THEN "on" ELSE "off"

\* The questions up to the last one are drawn; a whole run stores the
\* configuration and forgets the boxes it has not drawn.
DrawSettings(last, whole, readable) ==
  LET D == {q \in Chosen : q <= last /\ Asked(q)}
      population == [q \in D |-> Population(q, readable)]
      found == [q \in D |-> population[q] # NoPopulation]
      drawn == [q \in D |-> Drawn(q, found[q])]
      dims == {q \in D : drawn[q] = "on" /\ found[q]}
      Update(f, New(_)) == [q \in Chosen |-> IF q \in D THEN New(q) ELSE f[q]]
      Last(q) == IF q \in D /\ clicked[q] # "none" THEN clicked[q] ELSE wish[q]
      Found(q) == q \in D /\ found[q]
  IN
  /\ mode = "settings"
  /\ whole => last = Len(Stages[1])
  /\ draft' = [included |-> Update(draft.included, LAMBDA q : IF q \in dims THEN "on" ELSE "off"),
               saved |-> Update(draft.saved, Saved)]
  /\ box' = [q \in Chosen |-> IF q \in D THEN drawn[q] ELSE IF whole THEN "gone" ELSE box[q]]
  /\ config' = IF whole THEN [q \in dims |-> population[q]] ELSE config
  /\ offered' = Update(offered, LAMBDA q : found[q])
  /\ wish' = [q \in Chosen |-> IF (q \in D \/ whole) /\ Last(q) = "on" /\ ~Found(q) THEN "none" ELSE Last(q)]
  /\ clicked' = [q \in Chosen |-> IF q \in D \/ whole THEN "none" ELSE clicked[q]]
  /\ accepted' = Update(accepted, LAMBDA q : IF FromFile(q) # NoPopulation THEN FromFile(q) ELSE accepted[q])
  /\ misfit' = Update(misfit, LAMBDA q : chosen[q] # NoFile /\ FromFile(q) = NoPopulation)
  /\ settled' = whole
  /\ UNCHANGED <<stage, mode, chosen>>

\* Results are computed from the configuration, and nothing is written; the
\* settings' boxes are kept by a run that is cut short.
DrawResults(lost) ==
  /\ mode = "results"
  /\ IF lost THEN /\ box' = Everywhere("gone") /\ chosen' = Everywhere(NoFile)
                  /\ clicked' = Everywhere("none") /\ offered' = Everywhere(FALSE)
     ELSE UNCHANGED <<box, chosen, clicked, offered>>
  /\ UNCHANGED <<stage, mode, draft, config, wish, accepted, misfit, settled>>

\* What the user does, each with a run after it.
Click(q) ==
  LET new == IF box[q] = "on" THEN "off" ELSE "on" IN
  /\ offered[q] /\ box[q] # "gone"
  /\ box' = [box EXCEPT ![q] = new] /\ clicked' = [clicked EXCEPT ![q] = new]
  /\ UNCHANGED <<stage, mode, chosen, draft, config, offered, wish, accepted, misfit, settled>>

ChooseFile(q, file) ==
  /\ box[q] # "gone" /\ chosen[q] # file
  /\ chosen' = [chosen EXCEPT ![q] = file]
  /\ UNCHANGED <<stage, mode, box, draft, config, offered, clicked, wish, accepted, misfit, settled>>

SwitchMode(m) ==
  /\ m # mode /\ mode' = m
  /\ UNCHANGED <<stage, box, chosen, draft, config, offered, clicked, wish, accepted, misfit, settled>>

\* The page's cache of answers is loaded again.
Arrive ==
  /\ stage < Len(Stages) /\ stage' = stage + 1
  /\ UNCHANGED <<mode, box, chosen, draft, config, offered, clicked, wish, accepted, misfit, settled>>

SettingsNext ==
  \/ \E last \in {0} \cup Chosen, whole \in BOOLEAN, readable \in BOOLEAN : DrawSettings(last, whole, readable)
  \/ \E lost \in BOOLEAN : DrawResults(lost)
  \/ \E q \in Chosen : Click(q)
  \/ \E q \in WithFiles, file \in Files \cup {NoFile} : ChooseFile(q, file)
  \/ \E m \in {"settings", "results"} : SwitchMode(m)
  \/ Arrive
SettingsSpec == SettingsInit /\ [][SettingsNext]_settingsVars

\* The questions that the results and the other pages weigh by.
Dims == DOMAIN config

-----------------------------------------------------------------------------
(* Properties.                                                              *)

\* A box that the user cleared keeps its question out of all weighting, and one
\* that he ticked keeps it in as long as a population is found for it at every
\* run, through changes of the mode that lose the boxes, runs that are cut
\* short, files and new answers: once a run with the settings reached its end.
TicksAreKept ==
  settled => \A q \in Chosen : /\ wish[q] = "off" => q \notin Dims
                               /\ wish[q] = "on" => q \in Dims

\* A file that fitted is weighed by from then on, though the file box forgets
\* it, and never the sheet's table, except while a file that does not fit is chosen.
FilesAreKept ==
  settled => \A q \in Dims : accepted[q] # NoPopulation /\ ~misfit[q] => config[q] = accepted[q]

\* The page never forgets what the user asked for: ticks and files.
SettingsAreKept == TicksAreKept /\ FilesAreKept
=============================================================================
