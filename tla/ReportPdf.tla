------------------------------ MODULE ReportPdf ------------------------------
(***************************************************************************)
(* How the blocks of a report become a PDF (core/report.py): the table of  *)
(* contents and the outline, bar charts cut so that each fits a page, and  *)
(* the arrows of the section map, each on a lane of its own.  Sizes are    *)
(* in points; text, colours and what is drawn inside a block are left out. *)
(* Blocks are those of Reports, arrows <<source, target, kind, label>>.    *)
(***************************************************************************)
EXTENDS Integers, Sequences, FiniteSets, SequencesExt

LOCAL Map == INSTANCE FormFlow
LOCAL Highest(S) == CHOOSE x \in S : \A y \in S : y <= x
LOCAL Lower(a, b) == IF a < b THEN a ELSE b

OutlineLevel(raw, entries) == IF entries = <<>> THEN raw ELSE Lower(raw, Last(entries) + 1)

\* _collect_heading_entries: their levels.
HeadingEntries(blocks) ==
  LET heads == SelectSeq(blocks, LAMBDA b : b.of = "heading")
      least == CHOOSE l \in {b.level : b \in Range(heads)} : \A b \in Range(heads) : l <= b.level
  IN  FoldLeft(LAMBDA entries, b : Append(entries, OutlineLevel(b.level - least, entries)), <<>>, heads)

\* _barchart_flowables: rows are higher when labels are wrapped.
BAR_V_PAD == 28
BAR_ROW_H == 16
RowHeight(lines) == BAR_ROW_H + 8 * (lines - 1)
MaxItems(height, lines) == Highest({1, (height - BAR_V_PAD) \div RowHeight(lines)})
BarCharts(bars, height, lines) ==
  LET most == MaxItems(height, lines) IN
  IF Len(bars) <= most THEN <<bars>>
  ELSE [k \in 1..((Len(bars) + most - 1) \div most) |-> SubSeq(bars, (k - 1) * most + 1, Lower(k * most, Len(bars)))]

\* _to_flowables.
Flowables(blocks, height, lines) ==
  <<"title">>
  \o (IF HeadingEntries(blocks) = <<>> THEN <<>> ELSE <<"break", "contents", "break">>)
  \o FlattenSeq([k \in DOMAIN blocks |->
       IF blocks[k].of = "chart" THEN [c \in DOMAIN BarCharts(blocks[k].items, height, lines) |-> "chart"]
       ELSE <<blocks[k].of>>])

-----------------------------------------------------------------------------
(* _flowchart_page_flowable: the nodes are in a row, the last is "submit".  *)

MARGIN == 12
LANE_GAP == 18

\* An arrow for each option that leads somewhere, once for those of one label: the
\* k-th options of the questions are taken to have the same.
OptionArrows(s, leads) ==
  SelectSeq([k \in DOMAIN leads |-> <<s, leads[k], "conditional", k>>], LAMBDA a : a[2] # 0)
DefaultArrows(edges, s) == SetToSeq({<<e[1], e[2], "default", 0>> : e \in {d \in edges : d[1] = s}})

\* The arrows of the map in their order, the terminal ones last.
Arrows(choices) ==
  LET sections == Map!OfChoices(choices)
      default == Map!DefaultEdges(sections)
      own == FlattenSeq([s \in DOMAIN choices |->
               DefaultArrows(default, s) \o FlattenSeq([q \in DOMAIN choices[s] |-> OptionArrows(s, choices[s][q])])])
      terminal == Map!FlowOf(sections).edges \ (default \cup Map!ConditionalEdges(sections))
      Deduped == FoldLeft(LAMBDA seen, a : IF a \in ToSet(seen) THEN seen ELSE Append(seen, a), <<>>, own)
  IN  Deduped \o FlattenSeq([s \in DOMAIN choices |-> DefaultArrows(terminal, s)])

\* Mutation: a lane for each section that arrows start from.
LaneOfSource(routed, side, arrow) == arrow[1] - 1
Lane(routed, side, arrow) == Len(SelectSeq(routed, LAMBDA r : r.side = side))

Routed(choices) ==
  LET submit == Len(choices) + 1
      Dashed(a) == a[3] = "default" \/ a[2] = submit
      Side(a) == IF a[3] = "default" /\ a[2] = a[1] + 1 /\ a[2] # submit THEN "straight"
                 ELSE IF Dashed(a) \/ a[2] <= a[1] THEN "bottom" ELSE "top"
  IN  FoldLeft(LAMBDA routed, a : Append(routed, [arrow |-> a, side |-> Side(a), lane |-> Lane(routed, Side(a), a)]),
               <<>>, Arrows(choices))
Count(routed, side) == Len(SelectSeq(routed, LAMBDA r : r.side = side))
NodeY(routed) == MARGIN + Count(routed, "bottom") * LANE_GAP + (IF Count(routed, "bottom") > 0 THEN 8 ELSE 0)
\* Twice the height of a lane; the nodes are heights high.
LaneY2(routed, r, nodeHeight) ==
  IF r.side = "top" THEN 2 * (NodeY(routed) + nodeHeight + 16 + r.lane * LANE_GAP)
  ELSE 2 * MARGIN + (2 * (Count(routed, "bottom") - r.lane) - 1) * LANE_GAP
Height(routed, nodeHeight) ==
  NodeY(routed) + nodeHeight + Count(routed, "top") * LANE_GAP + MARGIN + (IF Count(routed, "top") > 0 THEN 20 ELSE 0)

-----------------------------------------------------------------------------
(* Properties of a report with these blocks and choices.                    *)

\* Everything in the report is drawn, in its order, each bar once and no chart
\* higher than a page; and no entry of the outline is more than one level below
\* the one before, which the PDF library refuses.
DrawnWhole(blocks, height, lines) ==
  LET entries == HeadingEntries(blocks) IN
  /\ \A k \in DOMAIN entries : entries[k] <= (IF k = 1 THEN 0 ELSE entries[k - 1] + 1)
  /\ \A b \in Range(blocks) : b.of = "chart" =>
       LET parts == BarCharts(b.items, height, lines) IN
       /\ FlattenSeq(parts) = b.items
       /\ \A p \in Range(parts) : Len(p) * RowHeight(lines) + BAR_V_PAD <= height \/ Len(p) = 1
  /\ \A of \in {b.of : b \in Range(blocks)} \ {"chart", "break"} :
       Len(SelectSeq(Flowables(blocks, height, lines), LAMBDA f : f = of)) = Len(SelectSeq(blocks, LAMBDA b : b.of = of))

\* Every arrow of the section map, one for each option that leads somewhere, can be followed: no two have one lane, no lane
\* goes through the boxes, a straight arrow is between neighbours, and all is
\* inside the picture.
ArrowsApart(choices, nodeHeight) ==
  LET routed == Routed(choices)
      Y2(r) == LaneY2(routed, r, nodeHeight)
  IN  /\ {r.arrow : r \in Range(routed)} = Range(Arrows(choices))
      /\ \A r \in Range(routed) :
           IF r.side = "straight" THEN r.arrow[2] = r.arrow[1] + 1
           ELSE /\ Y2(r) > 0 /\ Y2(r) < 2 * Height(routed, nodeHeight)
                /\ Y2(r) < 2 * NodeY(routed) \/ Y2(r) > 2 * (NodeY(routed) + nodeHeight)
      /\ \A r, s \in Range(routed) :
           r # s /\ "straight" \notin {r.side, s.side} => Y2(r) # Y2(s)
=============================================================================
