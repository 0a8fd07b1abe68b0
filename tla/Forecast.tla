------------------------------- MODULE Forecast -------------------------------
(***************************************************************************)
(* The page of a form's dynamics (ui/pages/dynamics.py): the waves of      *)
(* answers (core/forecast/wave_detector.py), the forecast of the current   *)
(* one (wave_service.py, wave_estimator.py) or, when it is too short, of   *)
(* all answers (service.py), and the curve drawn of it                     *)
(* (core/charts_timeline.py).                                              *)
(*                                                                         *)
(* Times are ticks since a midnight, Hour of them in an hour.  What the    *)
(* curve fitting returns is an input: for each model whether it converges, *)
(* its aicc, its value at the k-th point ahead as level + slope * k over   *)
(* the answers of the fit, the half-width of its delta interval, and       *)
(* whether its covariance is usable.  Values are whole numbers.            *)
(***************************************************************************)
EXTENDS Integers, Sequences, FiniteSets, FiniteSetsExt, SequencesExt

Hour == 2
Day == 24 * Hour
CeilDiv(a, b) == (a + b - 1) \div b
Larger(a, b) == Max({a, b})
Smaller(a, b) == Min({a, b})

\* Times are sorted: what is not before a time is the rest of them.
Before(times, t) == Cardinality({i \in DOMAIN times : times[i] < t})
Between(times, after, until) == Cardinality({i \in DOMAIN times : after < times[i] /\ times[i] <= until})
From(times, t) == SubSeq(times, Before(times, t) + 1, Len(times))

\* The answers to a form, and how it is watched for waves.
IsCourse(form) ==
  /\ form.times \in Seq(Nat) /\ IsSorted(form.times, <=)
  /\ form.kind \in [silence : Nat \ {0}, mult : Nat]

\* A look at them: what the three fits of their curve give, and the window that
\* the session keeps, if it does.
IsPicture(form) ==
  /\ IsCourse(form) /\ form.times # <<>>
  /\ form.fits \in [1..3 -> [converges : BOOLEAN, aicc : Int, level : Int, slope : Int, half : Nat, wellPosed : BOOLEAN]]
  /\ form.stored = <<>> \/ form.stored \in Int \X Int

-----------------------------------------------------------------------------
(* detect_wave_starts; kind = [silence |-> hours, mult |-> times the rate].  *)

\* Mutation: answers that come later count as recent, too.
RecentAnyLater(times, i) == Between(times, times[i] - Hour, times[Len(times)])
Recent(times, i) == Between(times, times[i] - Hour, times[i])

\* The last hour against the rate of the six hours before it.
Spike(times, i, since, kind) ==
  LET base == Between(times, times[i] - 7 * Hour, times[i] - Hour) IN
  /\ Recent(times, i) >= 3
  /\ base = 0 \/ 6 * Recent(times, i) > kind.mult * base
  /\ times[i] - since >= kind.silence * Hour

WaveStarts(times, kind) ==
  FoldLeft(LAMBDA starts, i :
             IF i > 1 /\ Spike(times, i, times[Last(starts)], kind) THEN Append(starts, i) ELSE starts,
           <<1>>, [i \in DOMAIN times |-> i])

\* _wave_changepoints: all but the first are marked, at what came before them.
Changepoints(times, kind) ==
  [w \in DOMAIN Tail(WaveStarts(times, kind)) |->
     LET at == times[WaveStarts(times, kind)[w + 1]] IN [at |-> at, index |-> Before(times, at)]]

\* detect_test_responses: lone answers that lead a form of twelve or more.
TestSkip(times) ==
  LET gaps == [k \in 1..Len(times) - 1 |-> times[k + 1] - times[k]]
      tail == SortSeq(SelectSeq(SubSeq(gaps, 11, Len(gaps)), LAMBDA g : g > 0), <)
      twiceMedian == tail[(Len(tail) + 1) \div 2] + tail[Len(tail) \div 2 + 1]
      Lone(k) == gaps[k] > Larger(10 * twiceMedian, Hour)
  IN  IF Len(times) < 10 \/ Len(gaps) <= 10 \/ tail = <<>> THEN 0
      ELSE Max({k \in 0..10 : \A j \in 1..k : Lone(j)})

-----------------------------------------------------------------------------
(* The fits of a curve, the three models in their order.                    *)

\* models_for_n_points, select_best_model: <<>> is its ForecastError.
BestFit(fits, n) ==
  LET IsBetter(f, best) == f.converges /\ (best = <<>> \/ f.aicc < best[1].aicc) IN
  FoldLeft(LAMBDA best, f : IF IsBetter(f, best) THEN <<f>> ELSE best, <<>>,
           IF n < 10 THEN <<fits[3]>> ELSE fits)

\* Mutation: the curve as it was fitted, which need not pass the last answer.
PointAsFitted(fit, n, k) == n + fit.level + fit.slope * k
\* Monotone, and no less than what was observed.
Point(fit, n, k) == Max({n} \cup {n + fit.level + fit.slope * j : j \in 1..k})

DELTA_CI_MAX_ABSOLUTE == 1000000000
\* The wave's interval is capped by the default of cap_width.
MaxWidth(factor) == IF factor = 1 THEN DELTA_CI_MAX_ABSOLUTE ELSE 5000
\* delta_method_ci (factor 1) or _apply_conformal_ci (factor 6), and cap_width;
\* without a usable covariance the interval is the point.
HalfWidth(fit, n, k, factor) ==
  IF fit.wellPosed
  THEN Smaller(factor * fit.half, Larger(Smaller(2 * Point(fit, n, k), MaxWidth(factor)), 10) \div 2)
  ELSE 0

\* The curve over the grid of dates; before is what the fit did not see.
Curve(fit, n, grid, factor, before) ==
  [k \in DOMAIN grid |->
     LET point == Point(fit, n, k) half == HalfWidth(fit, n, k, factor) IN
     [at |-> grid[k], point |-> point + before,
      lower |-> Larger(point - half, n) + before, upper |-> point + half + before]]

-----------------------------------------------------------------------------
(* The two forecasts.  Dates ahead are in ticks times GRID_POINTS.          *)

GRID_POINTS == 24

\* _build_future_grid: by hours for a form of less than two days.
FutureGrid(last, until, subDaily) ==
  LET total == Larger(until - last, Hour) IN
  IF subDaily THEN [k \in 1..CeilDiv(total, Hour) |-> GRID_POINTS * (last + k * Hour)]
  ELSE [k \in 1..CeilDiv(total, Day) |-> GRID_POINTS * (last - (last % Day) + k * Day)]

\* forecast_responses, of all answers: <<>> with fewer than five.
ForecastResponses(times, requested, fits) ==
  LET n == Len(times)
      best == BestFit(fits, n)
      last == Last(times)
      span == Larger(last - times[1], Hour)
      until == Larger(Smaller(requested, last + 3 * span), last + Hour)
  IN  IF n < 5 \/ best = <<>> THEN <<>>
      ELSE Curve(best[1], n, FutureGrid(last, until, span < 2 * Day), 1, 0)

\* forecast_current_wave: from the last start on, three times as far as it reaches.
ForecastCurrentWave(times, kind, requested, fits) ==
  LET start == times[Last(WaveStarts(times, kind))]
      wave == From(times, start)
      best == BestFit(fits, Len(wave))
      span == Last(wave) - start
      ahead == Larger(2 * span, Hour)
      grid == [k \in 1..GRID_POINTS |-> GRID_POINTS * (start + span) + k * ahead]
  IN  IF Len(wave) < 5 THEN ForecastResponses(times, requested, fits)
      ELSE IF best = <<>> THEN <<>>
      ELSE Curve(best[1], Len(wave), grid, 6, Before(times, start))

-----------------------------------------------------------------------------
(* The page: form = [times, kind, fits], stored = the slider's window in the *)
(* session, or <<>>.                                                         *)

\* A window kept from an earlier look is cut to the answers there are.
Window(times, stored) ==
  LET n == Len(times)
      wanted == IF stored = <<>> THEN <<TestSkip(times) + 1, n>> ELSE stored
      start == Larger(1, Smaller(wanted[1], n))
  IN  <<start, Larger(start, Smaller(wanted[2], n))>>

\* _build_from_clean_series: quiet days count, too.
DailyCounts(times) ==
  [d \in times[1] \div Day .. Last(times) \div Day |->
     Cardinality({i \in DOMAIN times : times[i] \div Day = d})]
Cumulative(times) ==
  LET counts == DailyCounts(times)
      first == times[1] \div Day
      total[d \in DOMAIN counts] == IF d = first THEN counts[d] ELSE total[d - 1] + counts[d]
  IN  total

\* The forecast of the window, in the numbering of the form (_shift_forecast).
PageForecast(form, window) ==
  LET times == form.times
      subset == SubSeq(times, window[1], window[2])
      requested == Last(times) + Larger((Last(times) - times[1]) \div (4 * Day), 1) * Day
      offset == window[1] - 1
      curve == ForecastCurrentWave(subset, form.kind, requested, form.fits)
  IN  [k \in DOMAIN curve |-> [at |-> curve[k].at, point |-> curve[k].point + offset,
                               lower |-> curve[k].lower + offset, upper |-> curve[k].upper + offset]]

\* _forecast_frame: from the last answer of the window (_compute_forecast_boundary).
DrawnCurve(form, window) ==
  LET curve == PageForecast(form, window) end == window[2] IN
  IF curve = <<>> THEN <<>>
  ELSE <<[at |-> GRID_POINTS * form.times[end], point |-> end, lower |-> end, upper |-> end]>> \o curve

\* forecast_window_axis_ranges, without the padding.
AxisRanges(form, window) ==
  LET curve == PageForecast(form, window)
      dates == {GRID_POINTS * form.times[i] : i \in {window[1], window[2]}}
                 \cup (IF curve = <<>> THEN {} ELSE {curve[1].at, Last(curve).at})
      values == {window[1], window[2]}
                 \cup UNION {{c.point, c.lower, c.upper} : c \in Range(curve)}
  IN  [x |-> <<Min(dates), Max(dates)>>, y |-> <<Min(values), Max(values)>>]

\* "Wave state": the share of the landing that the window has reached, in percent,
\* the nearest one and of two the even one.
WaveState(form, window) ==
  LET landing == Larger(Last(PageForecast(form, window)).point, window[2])
      reached == 200 * window[2]
  IN  Max({s \in 0..100 : \/ (2 * s - 1) * landing < reached
                          \/ (2 * s - 1) * landing = reached /\ s % 2 = 0})

-----------------------------------------------------------------------------
(* Properties of one form.                                                  *)

\* Waves that were found stay where they are when more answers come, starts are
\* as far apart as the silence of the form's kind asks, and the index of each is the
\* count of the answers before it (the chart draws it at its time only).
WavesStay(form) ==
  LET times == form.times
      starts == WaveStarts(times, form.kind)
      marks == Changepoints(times, form.kind)
  IN  /\ \A n \in 1..Len(times) - 1 : times[n] < times[n + 1] =>
           LET early == WaveStarts(SubSeq(times, 1, n), form.kind) IN
           /\ IsPrefix(early, starts)
           /\ \A w \in DOMAIN starts : starts[w] <= n <=> w <= Len(early)
      /\ \A w \in 2..Len(starts) :
           /\ times[starts[w]] - times[starts[w - 1]] >= form.kind.silence * Hour
           /\ marks[w - 1].index = starts[w] - 1

\* Whatever was fitted and whichever window is chosen, the drawn curve goes on
\* from the last answer of the window: later and never lower, inside its band, the
\* band no wider than the count itself, all of it in the axes; no further ahead
\* than three times what was observed; and a wave that is still expected to grow
\* is never said to be complete.
GoesOnFromFacts(form, stored) ==
  LET window == Window(form.times, stored)
      drawn == DrawnCurve(form, window)
      axes == AxisRanges(form, window)
      span == Larger(form.times[window[2]] - form.times[window[1]], Hour)
      step == IF span < 2 * Day THEN Hour ELSE Day
      counts == Cumulative(form.times)
  IN  /\ counts[Max(DOMAIN counts)] = Len(form.times)
      /\ \A k \in 2..Len(drawn) :
           /\ drawn[k - 1].at < drawn[k].at
           /\ drawn[k - 1].point <= drawn[k].point
           /\ window[2] <= drawn[k].lower
           /\ drawn[k].lower <= drawn[k].point /\ drawn[k].point <= drawn[k].upper
           /\ drawn[k].upper - drawn[k].point <= drawn[k].point
           /\ axes.x[1] <= drawn[k].at /\ drawn[k].at <= axes.x[2]
           /\ axes.y[1] <= drawn[k].lower /\ drawn[k].upper <= axes.y[2]
           /\ drawn[k].at - drawn[1].at <= GRID_POINTS * (3 * span + step)
      /\ drawn # <<>> /\ Last(drawn).point >= 2 * window[2] => WaveState(form, window) <= 50
=============================================================================
