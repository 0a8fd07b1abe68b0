--------------------------- MODULE PopulationTables ---------------------------
(***************************************************************************)
(* How tables of a population are found in the form's spreadsheet or in a  *)
(* file, and matched with questions by their options                       *)
(* (core/context_tables.py).                                               *)
(*                                                                         *)
(* A grid is a sequence of rows, which may be ragged.  A cell is <<>> when *)
(* blank, <<label>>, or <<label, n>> when the label reads as the whole     *)
(* number n.  A label is <<word, look>>: labels of one word differ by case *)
(* or spaces only (_norm).  A dict is a sequence of [of, n].               *)
(***************************************************************************)
EXTENDS Integers, Sequences, FiniteSets, SequencesExt, TLC

MinTableRows == 2
MinMatchedStrata == 2
LOCAL Word(label) == label[1]

\* list.sort: equal elements keep their order.
StablySorted(seq, Before(_, _)) ==
  LET order == SortSeq([i \in DOMAIN seq |-> i],
                       LAMBDA i, j : \/ Before(seq[i], seq[j])
                                     \/ ~Before(seq[j], seq[i]) /\ i < j)
  IN  [i \in DOMAIN seq |-> seq[order[i]]]

LOCAL IndicesOf(dict, key) == {i \in DOMAIN dict : dict[i].of = key}

\* population[key] = val, unless key is there
KeepFirst(population, label, n) ==
  IF IndicesOf(population, label) # {} THEN population ELSE Append(population, [of |-> label, n |-> n])

-----------------------------------------------------------------------------
(* The scan of a sheet.                                                     *)

\* _column: a short row is filled up with blanks.
Cell(grid, r, c) == IF c \in DOMAIN grid[r] THEN grid[r][c] ELSE <<>>
IsCount(cell) == Len(cell) = 2
IsRow(grid, r, c) ==
  r \in DOMAIN grid /\ Cell(grid, r, c) # <<>> /\ IsCount(Cell(grid, r, c + 1))
LOCAL Width(grid) == IF grid = <<>> THEN 0 ELSE Max({Len(grid[r]) : r \in DOMAIN grid})

\* _build_table: the rows from first to last of the columns c and c + 1, as a
\* sequence of at most one table.  At least nine labels in ten are different.
BuildTable(grid, c, first, last) ==
  LET population == FoldLeft(LAMBDA p, r : KeepFirst(p, Cell(grid, r, c)[1], Cell(grid, r, c + 1)[2]),
                             <<>>, [i \in 1..(last - first + 1) |-> first + i - 1])
      headed == first > 1 /\ ~IsCount(Cell(grid, first - 1, c + 1))
  IN  IF Len(population) < MinTableRows \/ 10 * Len(population) < 9 * (last - first + 1) THEN <<>>
      ELSE <<[at |-> <<c, first>>, header |-> IF headed THEN first - 1 ELSE 0, population |-> population]>>

\* Mutation: the last row is seen, what follows it is not.
ScannedRowsOnly(grid) == [r \in DOMAIN grid |-> r]
ScannedRows(grid) == [r \in 1..(Len(grid) + 1) |-> r]

\* scan_grid_for_tables: runs of rows, closed by the first row that is none.
ScanGrid(grid) ==
  LET Scan(c, s, r) ==
        IF IsRow(grid, r, c) THEN [s EXCEPT !.start = IF @ = 0 THEN r ELSE @]
        ELSE IF s.start = 0 THEN s
        ELSE [start |-> 0, tables |-> s.tables \o BuildTable(grid, c, s.start, r - 1)]
      Column(found, c) ==
        FoldLeft(LAMBDA s, r : Scan(c, s, r), [start |-> 0, tables |-> found],
                 ScannedRows(grid)).tables
  IN  StablySorted(FoldLeft(Column, <<>>, [c \in 1..(Width(grid) - 1) |-> c]),
                   LAMBDA s, t : Len(s.population) > Len(t.population))

\* parse_population_csv: at most one table (none: ValueError).
ParseCsv(grid) ==
  LET rows == SelectSeq(grid, LAMBDA row : \E i \in DOMAIN row : row[i] # <<>>)
      headed == rows # <<>> /\ Len(rows[1]) >= 2 /\ ~IsCount(rows[1][2])
      Read(p, row) == IF Len(row) < 2 \/ row[1] = <<>> \/ ~IsCount(row[2]) THEN p
                      ELSE KeepFirst(p, row[1][1], row[2][2])
      population == FoldLeft(Read, <<>>, IF headed THEN Tail(rows) ELSE rows)
  IN  IF population = <<>> THEN <<>>
      ELSE <<[at |-> <<1, 1>>, header |-> IF headed THEN 1 ELSE 0, population |-> population]>>

-----------------------------------------------------------------------------
(* Tables and questions.                                                    *)

\* match_population: the options that are labels of the table, with its counts;
\* of two labels that are one word, the last.
MatchPopulation(options, table) ==
  LET distinct == FoldLeft(LAMBDA seen, o : IF Contains(seen, o) THEN seen ELSE Append(seen, o), <<>>, options)
      Same(o) == SelectSeq(table.population, LAMBDA e : Word(e.of) = Word(o))
      known == SelectSeq(distinct, LAMBDA o : Same(o) # <<>>)
  IN  [table |-> table, options |-> Len(distinct),
       population |-> [i \in DOMAIN known |-> [of |-> known[i], n |-> Last(Same(known[i])).n]]]

Matched(match) == Len(match.population)
\* At least two strata and half of the options.
Confident(match) == Matched(match) >= MinMatchedStrata /\ 2 * Matched(match) >= match.options
\* (matched, coverage) > (matched, coverage)
Stronger(a, b) ==
  \/ Matched(a) > Matched(b)
  \/ Matched(a) = Matched(b) /\ Matched(a) * b.options > Matched(b) * a.options

\* best_match, as a sequence of at most one.
BestMatch(options, tables) ==
  FoldLeft(LAMBDA best, table : LET m == MatchPopulation(options, table) IN
             IF Confident(m) /\ (best = <<>> \/ Stronger(m, best[1])) THEN <<m>> ELSE best,
           <<>>, tables)

\* Mutation: the order the candidates were found in.
RankedNot(candidates) == candidates
Ranked(candidates) == StablySorted(candidates, LAMBDA a, b : Stronger(a.match, b.match))

\* assign_tables_to_questions: questions is a sequence of options; each table
\* goes to its strongest question that has none yet.
AssignTables(questions, tables) ==
  LET pairs == [k \in 1..(Len(questions) * Len(tables)) |->
                  LET q == ((k - 1) \div Len(tables)) + 1
                      t == ((k - 1) % Len(tables)) + 1
                  IN [question |-> q, table |-> t, match |-> MatchPopulation(questions[q], tables[t])]]
      Give(assigned, pair) ==
        IF \E a \in Range(assigned) : a.question = pair.question \/ a.table = pair.table THEN assigned
        ELSE Append(assigned, pair)
  IN  FoldLeft(Give, <<>>, Ranked(SelectSeq(pairs, LAMBDA p : Confident(p.match))))

-----------------------------------------------------------------------------
(* Properties of a sheet, and of questions and tables.                      *)

\* The tables of a sheet are the longest runs of rows, each found once wherever
\* it stands, the last row included, unless their labels repeat; a stratum has
\* the first count that is given for it.
TablesAreWholeRuns(grid) ==
  LET tables == ScanGrid(grid)
      Labels(c, i, j) == {Cell(grid, r, c)[1] : r \in i..j}
      runs == {run \in [col : 1..Width(grid), first : DOMAIN grid, last : DOMAIN grid] :
                 LET Of == Labels(run.col, run.first, run.last) IN
                 /\ run.first < run.last
                 /\ \A r \in run.first..run.last : IsRow(grid, r, run.col)
                 /\ ~IsRow(grid, run.first - 1, run.col) /\ ~IsRow(grid, run.last + 1, run.col)
                 /\ Cardinality(Of) >= 2 /\ 10 * Cardinality(Of) >= 9 * (run.last - run.first + 1)}
  IN  /\ Len(tables) = Cardinality(runs)
      /\ \A run \in runs : \E k \in DOMAIN tables :
           /\ tables[k].at = <<run.col, run.first>>
           /\ {e.of : e \in Range(tables[k].population)} = Labels(run.col, run.first, run.last)
           /\ \A e \in Range(tables[k].population) : \E r \in run.first..run.last :
                /\ Cell(grid, r, run.col)[1] = e.of /\ Cell(grid, r, run.col + 1)[2] = e.n
                /\ \A s \in run.first..(r - 1) : Cell(grid, s, run.col)[1] # e.of

\* No table goes to two questions and no question gets two; and a table that
\* fits a question well and is not given to it went to a question it fits no
\* worse, or the question has another that fits it no worse.  One question
\* alone gets its best match.
TablesGoToTheStrongest(questions, tables) ==
  LET assigned == Range(AssignTables(questions, tables)) IN
  /\ \A a, b \in assigned : a.question = b.question <=> a.table = b.table
  /\ \A q \in DOMAIN questions, t \in DOMAIN tables :
       LET m == MatchPopulation(questions[q], tables[t]) IN
       Confident(m) => \E a \in assigned : (a.question = q \/ a.table = t) /\ ~Stronger(m, a.match)
  /\ \A q \in DOMAIN questions :
       LET alone == AssignTables(<<questions[q]>>, tables) IN
       BestMatch(questions[q], tables) = [i \in DOMAIN alone |-> alone[i].match]
=============================================================================
