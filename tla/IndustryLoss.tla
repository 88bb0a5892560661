---------------------------- MODULE IndustryLoss ----------------------------
(***************************************************************************)
(* Reported industry losses against modelled ones: the supplied files      *)
(* (services/industry_losses.py), the price level of a past loss           *)
(* (onlevel.py), damage curves (damage_curves.py), the loss of an event    *)
(* (event_loss.py), its back-test (loss_calibration.py) and the monotone   *)
(* fit (curve_fit.py).                                                     *)
(*                                                                         *)
(* Money is an integer, a ratio an integer in hundredths, and a year stands*)
(* for a date (an index holds at the middle of its year). The deductible's *)
(* beta integral, the spread of a loss and the optimiser's objective are   *)
(* left out. The kernel over a storm's stations gives each county a        *)
(* multiplier in hundredths.                                               *)
(***************************************************************************)
EXTENDS HurricaneImpact, SequencesExt

CONSTANTS Every,         \* "*" in an adjustment
          Materiality,   \* MATERIALITY_LOSS
          MinEmployment  \* MIN_COUNTY_EMPLOYMENT

LossSegments == {"RESIDENTIAL", "COMMERCIAL", "AUTO"}
Total(f) == MapThenSumSet(LAMBDA k : f[k], DOMAIN f)
Get(f, k, default) == IF k \in DOMAIN f THEN f[k] ELSE default

(***************************************************************************)
(* Supplied losses: rows [storm, geo, seg, loss, cur, part, claims, date], *)
(* geo None when it is unknown, part TRUE for a loss that is in no county, *)
(* claims and date None when they are not given. One bad row anywhere      *)
(* refuses every file.                                                     *)
(***************************************************************************)
BadRow(rows, i) ==
  LET r == rows[i]
      first == Min({k \in DOMAIN rows : rows[k].storm = r.storm})
  IN \/ r.storm = None \/ r.geo = None \/ r.seg \notin LossSegments \/ r.loss = None
     \/ r.cur # rows[first].cur
     \/ r.part /\ r.geo.level # "STATE"
LoadActuals(rows) ==
  LET of(s) == {i \in DOMAIN rows : rows[i].storm = s}
      county(s) == {i \in of(s) : ~rows[i].part /\ rows[i].geo.level = "COUNTY"}
      states(s) == {i \in of(s) : ~rows[i].part /\ rows[i].geo.level = "STATE"}
      parts(s) == {i \in of(s) : rows[i].part}
      key(i) == <<rows[i].geo, rows[i].seg>>
      sums(S) == [k \in {key(i) : i \in S} |-> MapThenSumSet(LAMBDA i : rows[i].loss, {i \in S : key(i) = k})]
      counted(s) == {i \in county(s) : rows[i].claims # None}
      claims(S) == [k \in {key(i) : i \in S} |-> MapThenSumSet(LAMBDA i : rows[i].claims, {i \in S : key(i) = k})]
      dated(s) == {i \in of(s) : rows[i].date # None}
  IN IF \E i \in DOMAIN rows : BadRow(rows, i) THEN Invalid
     ELSE [s \in {rows[i].storm : i \in DOMAIN rows} |->
             [storm |-> s, cur |-> rows[Min(of(s))].cur, county |-> sums(county(s)), state |-> sums(states(s)),
              unallocated |-> sums(parts(s)), claims |-> claims(counted(s)),
              date |-> IF dated(s) = {} THEN None ELSE rows[Max(dated(s))].date]]

\* A state's own row counts where the segment has no county row in the state.
StateCounts(event, k) == ~\E c \in DOMAIN event.county : c[1].state = k[1].state /\ c[2] = k[2]
SegmentTotals(event) ==
  [seg \in LossSegments |->
     LET of(f) == Total([k \in {j \in DOMAIN f : j[2] = seg} |-> f[k]])
     IN of(event.county) + of(event.unallocated)
          + of([k \in {j \in DOMAIN event.state : StateCounts(event, j)} |-> event.state[k]])]

(***************************************************************************)
(* Insured values: year -> [cur, asOf, county: geo -> segment -> value], or *)
(* the book. The storm's own year, the latest before it, the earliest after.   *)
(***************************************************************************)
TivForYear(supplied, book, year) ==
  LET years == DOMAIN supplied
      earlier == {y \in years : y <= year}
  IN IF years = {} THEN [kind |-> "book", year |-> None, tiv |-> book]
     ELSE LET pick == IF earlier # {} THEN Max(earlier) ELSE Min(years)
          IN [kind |-> "supplied", year |-> pick, tiv |-> supplied[pick]]
SegmentsWithoutTiv(tiv) == {s \in LossSegments : ~\E g \in DOMAIN tiv.county : Get(tiv.county[g], s, 0) > 0}

(***************************************************************************)
(* On-levelling: what a loss of one year would cost in another. series:    *)
(* <<geo id, metric>> -> year -> value; prices: metric -> year -> value;   *)
(* no index file at all is None. An index is carried at most 1.5 years     *)
(* beyond its last two points, and straight between them.                  *)
(***************************************************************************)
AnnualAt(points, y) ==
  LET known == DOMAIN points
      lo == Min(known)
      hi == Max(known)
      below == Max({k \in known : k <= y})
      above == Min({k \in known : k >= y})
      past(edge, next) == IF points[edge] <= 0 \/ points[next] <= 0 THEN None
                          ELSE (points[edge] * points[edge]) \div points[next]
  IN CASE known = {} -> None
       [] Cardinality(known) = 1 -> IF y - lo \in {-1, 0, 1} THEN points[lo] ELSE None
       [] Cardinality(known) > 1 /\ y < lo -> IF lo - y > 1 THEN None ELSE past(lo, Min(known \ {lo}))
       [] Cardinality(known) > 1 /\ y > hi -> IF y - hi > 1 THEN None ELSE past(hi, Max(known \ {hi}))
       [] OTHER -> IF below = above THEN points[y]
                   ELSE points[below] + ((points[above] - points[below]) * (y - below)) \div (above - below)
HasGrowth(series, key, metric, level, d0, d1) ==
  /\ <<key, metric>> \in DOMAIN series
  /\ LET a == AnnualAt(series[<<key, metric>>], d0)
         b == AnnualAt(series[<<key, metric>>], d1)
     IN a # None /\ b # None /\ a > 0
  /\ level = "county" /\ metric \in {"EMP", "WAGES"} =>
       LET emp == Get(series, <<key, "EMP">>, <<>>)
       IN Min({emp[y] : y \in DOMAIN emp} \cup (IF emp = <<>> THEN {0} ELSE {})) >= MinEmployment
\* The county's own growth, else its state's, else none.
Growth(series, geo, metric, d0, d1) ==
  LET grown(key) == (100 * AnnualAt(series[<<key, metric>>], d1)) \div AnnualAt(series[<<key, metric>>], d0)
  IN CASE geo.level = "COUNTY" /\ HasGrowth(series, geo.id, metric, "county", d0, d1) -> <<grown(geo.id), "county">>
       [] ~(geo.level = "COUNTY" /\ HasGrowth(series, geo.id, metric, "county", d0, d1))
            /\ HasGrowth(series, geo.state, metric, "state", d0, d1) -> <<grown(geo.state), "state">>
       [] OTHER -> <<100, "flat">>
Price(prices, key, d0, d1) ==
  LET at(y) == LET known == {k \in DOMAIN prices[key] : k <= y} IN IF known = {} THEN 0 ELSE prices[key][Max(known)]
  IN IF key \in DOMAIN prices /\ at(d0) > 0 /\ at(d1) > 0 THEN (100 * at(d1)) \div at(d0) ELSE 100
Cost(ix, geo, key, d0, d1) ==
  (55 * Price(ix.prices, key, d0, d1) + 45 * Growth(ix.series, [geo EXCEPT !.level = "STATE"], "CONS_PAY", d0, d1)[1]) \div 100
FactorOf(ix, geo, seg, d0, d1) ==
  LET grow(metric) == Growth(ix.series, geo, metric, d0, d1)[1]
  IN CASE seg = "RESIDENTIAL" -> (grow("HU") * Cost(ix, geo, "PPI_RES_INPUTS", d0, d1)) \div 100
       [] seg = "COMMERCIAL" -> (62 * grow("EMP") * Cost(ix, geo, "PPI_NONRES_INPUTS", d0, d1) + 38 * 100 * grow("WAGES")) \div 10000
       [] seg = "AUTO" -> (grow("POP") * Price(ix.prices, "CPI_USED_VEHICLES", d0, d1)) \div 100
Matches(adj, storm, geo, seg) ==
  /\ adj.storm \in {Every, storm}
  /\ adj.seg \in {Every, seg}
  /\ adj.geo \in {Every, geo.id, geo.state}
OnlevelActuals(event, ix, adjustments, target) ==
  LET d0 == IF event.date # None THEN event.date ELSE event.storm.year
      adjusted(k, loss) ==
        FoldLeft(LAMBDA x, adj : IF Matches(adj, event.storm, k[1], k[2]) THEN (x * adj.factor) \div 100 ELSE x, loss, adjustments)
      all(f, factor) == [k \in DOMAIN f |-> adjusted(k, (f[k] * factor[k]) \div 100)]
      keys == DOMAIN event.county \cup DOMAIN event.state \cup DOMAIN event.unallocated
  IN IF ix = None THEN event
     ELSE Given([k \in keys |-> FactorOf(ix, k[1], k[2], d0, target)], LAMBDA factor :
            [event EXCEPT !.county = all(event.county, factor), !.state = all(event.state, factor),
                          !.unallocated = all(event.unallocated, factor)])

(***************************************************************************)
(* Damage curves: files [id, kind, created, shaped, segments: segment ->   *)
(* ratios], a missing segment filled from the prior; the prior alone when  *)
(* there is no file. Ratios are in hundredths per band of 10 mph from 41;  *)
(* "shaped" is a curve fitted on the shape of observed winds.              *)
(***************************************************************************)
ZeroDamage == 39
BandMid(b) == 35 + 10 * b      \* 45.5, 55.5, ... rounded down
LoadCurveSets(files, prior) ==
  LET full(c) == [c EXCEPT !.segments = [s \in LossSegments |-> Get(c.segments, s, prior.segments[s])]]
      ids == {files[i].id : i \in DOMAIN files}
      last(id) == files[Max({i \in DOMAIN files : files[i].id = id})]
  IN IF files = <<>> THEN [id \in {prior.id} |-> prior] ELSE [id \in ids |-> full(last(id))]
DefaultCurveSet(sets, prior) ==
  LET calibrated == {id \in DOMAIN sets : sets[id].kind = "calibrated"}
  IN IF calibrated = {} THEN prior.id
     ELSE CHOOSE id \in calibrated : \A k \in calibrated : sets[id].created >= sets[k].created
ResolveCurveSet(sets, prior, id) == IF id = None \/ id = "retired" THEN DefaultCurveSet(sets, prior) ELSE id
\* Bands and their weights in tenths.
InterpWeights(mph, bands) ==
  CASE mph <= ZeroDamage -> <<>>
    [] mph > ZeroDamage /\ mph <= BandMid(1) -> [b \in {1} |-> (10 * (mph - ZeroDamage)) \div (BandMid(1) - ZeroDamage)]
    [] mph >= BandMid(bands) -> [b \in {bands} |-> 10]
    [] OTHER -> LET i == (mph - 35) \div 10
                IN [b \in {i, i + 1} |-> IF b = i THEN 10 - (mph - BandMid(i)) ELSE mph - BandMid(i)]
LandMph(curve, mph) == IF mph <= 0 THEN 0 ELSE (curve.factor * mph) \div 100
\* What the stations of a past storm make of the wind, county by county.
ObservedWind(wanted, past, evidence, curve, impacts) ==
  IF wanted /\ past /\ curve.shaped /\ evidence # None THEN [g \in DOMAIN impacts |-> evidence[g]] ELSE <<>>
CurveMph(curve, observed, g, mph) == (LandMph(curve, mph) * Get(observed, g, 100)) \div 100
Insured(ratio, deductible) == IF deductible <= 0 THEN ratio ELSE Max({0, ratio - deductible})
Ratio(curve, seg, mph) ==
  LET w == InterpWeights(mph, Len(curve.segments[seg]))
  IN Insured(MapThenSumSet(LAMBDA b : w[b] * curve.segments[seg][b], DOMAIN w) \div 10, curve.deductible)

(***************************************************************************)
(* The loss of an event. impacts: geo -> [bins: mph -> share of the area   *)
(* in hundredths, peak]; an impact without bins is spread over one.        *)
(***************************************************************************)
CountyBins(imp) ==
  IF imp.bins # <<>> THEN [mph \in {m \in DOMAIN imp.bins : imp.bins[m] > 0 /\ m > 0} |-> imp.bins[mph]]
  ELSE IF imp.peak >= 34 THEN [mph \in {(115 * imp.peak) \div 100} |-> 100] ELSE <<>>
EffectiveRatio(bins, curve, observed, g, seg) ==
  MapThenSumSet(LAMBDA mph : bins[mph] * Ratio(curve, seg, CurveMph(curve, observed, g, mph)), DOMAIN bins)
EventLoss(impacts, tiv, curve, exposed, observed) ==
  LET valued == {g \in DOMAIN impacts : Get(tiv.county, g, <<>>) # <<>>}
      share(g) == Max({0, Min({100, Get(exposed, g, 100)})})
      loss(g, s) == (((Get(tiv.county[g], s, 0) * EffectiveRatio(CountyBins(impacts[g]), curve, observed, g, s)) \div 10000)
                       * share(g)) \div 100
      counties == [g \in valued |-> [s \in LossSegments |-> loss(g, s)]]
  IN [counties |-> counties, missing |-> DOMAIN impacts \ valued,
      segments |-> [s \in LossSegments |-> MapThenSumSet(LAMBDA g : counties[g][s], valued)]]

(***************************************************************************)
(* Back-test: each reported county loss is an observation of the fit, or   *)
(* lies outside the wind field, or has no insured value to compare with.   *)
(***************************************************************************)
BelowMateriality(loss, claims) == loss < Materiality \/ (claims # None /\ claims < 25)
InField(impacts, curve, observed, g) ==
  g \in DOMAIN impacts /\ \E mph \in DOMAIN CountyBins(impacts[g]) : CurveMph(curve, observed, g, mph) > ZeroDamage
ValueOf(tiv, k) == Get(Get(tiv.county, k[1], <<>>), k[2], 0)
\* Mutant of MatchEvent: a county with any insured value is an observation.
MatchByCounty(event, impacts, tiv, curve, observed) ==
  LET keys == DOMAIN event.county
      seen == {k \in keys : InField(impacts, curve, observed, k[1])}
      lost(S) == [k \in {j \in S : event.county[j] > 0} |-> event.county[k]]
      valued == {k \in seen : k[1] \in DOMAIN tiv.county}
  IN [observed |-> [k \in valued |-> event.county[k]], miss |-> lost(keys \ seen), gap |-> lost(seen \ valued)]
MatchEvent(event, impacts, tiv, curve, observed) ==
  LET keys == DOMAIN event.county
      seen == {k \in keys : InField(impacts, curve, observed, k[1])}
      lost(S) == [k \in {j \in S : event.county[j] > 0} |-> event.county[k]]
  IN [observed |-> [k \in {j \in seen : ValueOf(tiv, j) > 0} |-> event.county[k]],
      miss |-> lost(keys \ seen), gap |-> lost({j \in seen : ValueOf(tiv, j) <= 0})]
Backtest(event, impacts, tiv, curve, observed) ==
  LET modelled == EventLoss(impacts, tiv, curve, <<>>, observed)
      matched == MatchEvent(event, impacts, tiv, curve, observed)
      of(seg) == {k \in DOMAIN matched.observed : k[2] = seg}
      small(seg) == {k \in of(seg) : BelowMateriality(event.county[k], Get(event.claims, k, None))}
      reported == {k[1] : k \in DOMAIN event.county}
  IN [actual |-> SegmentTotals(event), modelled |-> modelled.segments,
      scored |-> [s \in LossSegments |-> Cardinality(of(s))],
      aboveCeiling |-> [s \in LossSegments |->
        Cardinality({k \in small(s) : modelled.counties[k[1]][s] > Max({event.county[k], Materiality})})],
      observed |-> matched.observed, miss |-> matched.miss, gap |-> matched.gap,
      unreported |-> {g \in DOMAIN modelled.counties \ reported : Total(modelled.counties[g]) > 0},
      missingTiv |-> Cardinality(modelled.missing)]

(***************************************************************************)
(* The endpoints. An unknown curve set is not found; bad files are refused,*)
(* as are losses in another currency than the values they are compared with.      *)
(* "wind" is what is known of a storm's wind: [past, wanted, evidence].    *)
(***************************************************************************)
IndustryLossReply(rows, storm, supplied, book, sets, prior, curveId, impacts, wind, exposed, ix, adjustments) ==
  LET id == ResolveCurveSet(sets, prior, curveId)
      vintage == TivForYear(supplied, book, storm.year)
      events == LoadActuals(rows)
      event == IF events # Invalid /\ storm \in DOMAIN events THEN events[storm] ELSE None
      observed == ObservedWind(wind.wanted, wind.past, wind.evidence, sets[id], impacts)
      loss == EventLoss(impacts, vintage.tiv, sets[id], exposed, observed)
  IN CASE id \notin DOMAIN sets -> NotFound
       [] id \in DOMAIN sets /\ (events = Invalid \/ (event # None /\ event.cur # vintage.tiv.cur)) -> Invalid
       [] OTHER -> [loss |-> loss, observed |-> observed, vintage |-> vintage.year, kind |-> vintage.kind,
                    without |-> SegmentsWithoutTiv(vintage.tiv),
                    actual |-> IF event = None THEN None
                               ELSE OnlevelActuals(event, ix, adjustments, vintage.tiv.asOf)]
BacktestReply(rows, storm, supplied, book, sets, prior, curveId, impacts, wind, ix, adjustments, onLevel) ==
  LET events == LoadActuals(rows)
      known == events # Invalid /\ storm \in DOMAIN events
      id == ResolveCurveSet(sets, prior, curveId)
      vintage == TivForYear(supplied, book, storm.year)
      observed == ObservedWind(wind.wanted, wind.past, wind.evidence, sets[id], impacts)
  IN CASE events = Invalid -> Invalid
       [] events # Invalid /\ (~known \/ id \notin DOMAIN sets) -> NotFound
       [] known /\ id \in DOMAIN sets /\ events[storm].cur # vintage.tiv.cur -> Invalid
       [] OTHER -> Given(IF onLevel THEN OnlevelActuals(events[storm], ix, adjustments, vintage.tiv.asOf) ELSE events[storm],
                         LAMBDA event : [event |-> event, curve |-> id, vintage |-> vintage.year, observed |-> observed,
                                         result |-> Backtest(event, impacts, vintage.tiv, sets[id], observed)])

(***************************************************************************)
(* The monotone projection of the fit. Values are multiples of Scale, so   *)
(* that the mean of a block of up to six of them is an integer.            *)
(***************************************************************************)
Scale == 60
BlockMean(block) == block[1] \div block[2]
\* Pool adjacent violators: a new block swallows the ones before it as long
\* as they lie above it.
MergeStep(blocks) ==
  LET n == Len(blocks)
  IN IF n > 1 /\ BlockMean(blocks[n - 1]) > BlockMean(blocks[n])
     THEN Append(SubSeq(blocks, 1, n - 2), <<blocks[n - 1][1] + blocks[n][1], blocks[n - 1][2] + blocks[n][2]>>)
     ELSE blocks
\* Mutant of Merge: only the block before it.
MergeOnce(blocks) == MergeStep(blocks)
Merge(blocks) ==
  LET merged[k \in 0..Len(blocks)] == IF k = 0 THEN blocks ELSE MergeStep(merged[k - 1])
  IN merged[Len(blocks)]
PavNonDecreasing(values) ==
  LET pooled[k \in 0..Len(values)] == IF k = 0 THEN <<>> ELSE Merge(Append(pooled[k - 1], <<values[k], 1>>))
      spread(blocks) == FlattenSeq([i \in DOMAIN blocks |-> [k \in 1..blocks[i][2] |-> BlockMean(blocks[i])]])
  IN spread(pooled[Len(values)])
Clamp(values, lo, hi) == [i \in DOMAIN values |-> Min({hi, Max({lo, values[i]})})]
\* With pinned bands the projection is repeated and the pins put back.
Pin(values, fixed) == [i \in DOMAIN values |-> Get(fixed, i, values[i])]
Project(theta, fixed, lo, hi) ==
  LET once == Clamp(PavNonDecreasing(theta), lo, hi)
  IN IF fixed = <<>> THEN once
     ELSE Pin(Clamp(PavNonDecreasing(Pin(once, Clamp(fixed, lo, hi))), lo, hi), Clamp(fixed, lo, hi))
\* Beyond the last band with enough data the curve runs parallel to the prior.
PriorTail(theta, prior, supported, fixed, lo, hi) ==
  IF supported = {} THEN theta
  ELSE LET last == Max(supported)
       IN Project([b \in DOMAIN theta |-> IF b <= last THEN theta[b] ELSE theta[last] + prior[b] - prior[last]],
                  fixed, lo, hi)
=============================================================================
