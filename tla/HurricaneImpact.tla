-------------------------- MODULE HurricaneImpact --------------------------
(***************************************************************************)
(* From a storm's track to the counties it blows over and the values there *)
(* (services/ibtracs.py, hurdat2.py, county_wind.py, hurricane_impact.py). *)
(*                                                                         *)
(* Places are nautical miles along one meridian, so that a bearing is one  *)
(* of two sides and a set of quadrants a pair <<south, north>>. The code's *)
(* logarithmic and power-law profiles between two radii are linear here,   *)
(* and distances, means and winds are rounded down to integers.            *)
(***************************************************************************)
EXTENDS HttpErrors, Integers, SequencesExt

CONSTANTS UsBox,        \* the places _within_us_bbox accepts
          StateOf,      \* place -> the first state whose box holds it, or None
          FormulaRmax   \* what the Willoughby formula gives for a wind above 0

AnyPositive(quads) == quads # None /\ \E k \in DOMAIN quads : quads[k] > 0
Mean(quads) == LET hit == {k \in DOMAIN quads : quads[k] > 0}
               IN MapThenSumSet(LAMBDA k : quads[k], hit) \div Cardinality(hit)
Dist(a, b) == IF a < b THEN b - a ELSE a - b

CategoryForWind(kt) ==
  Cardinality({k \in {34, 64, 83, 96, 113, 137} : kt >= k}) - 1

(***************************************************************************)
(* IBTrACS: rows [id, time, season, at, wind, status, landfall, rmw, r64,  *)
(* r50, r34], None for a row that is too short or has no number where one  *)
(* is needed; a file without the columns, or unreachable, is None.         *)
(***************************************************************************)
MinSeason == 1950
ParseCsv(file) ==
  LET rows == IF file = None THEN <<>> ELSE file
      kept == {i \in DOMAIN rows : rows[i] # None /\ rows[i].season >= MinSeason /\ rows[i].id # None}
      key(i) == <<rows[i].id, rows[i].time>>
      last(S) == [k \in {key(i) : i \in S} |-> rows[Max({i \in S : key(i) = k})]]
      placed(id) == {i \in kept : rows[i].id = id /\ rows[i].at # None}
      point(r) == [time |-> r.time, landfall |-> r.landfall, status |-> r.status, at |-> r.at,
                   wind |-> r.wind, source |-> None, rmax |-> 0, r64 |-> None,
                   r50 |-> IF AnyPositive(r.r50) THEN r.r50 ELSE None,
                   r34 |-> IF AnyPositive(r.r34) THEN r.r34 ELSE None]
      earlier(i, k) == rows[i].time < rows[k].time \/ (rows[i].time = rows[k].time /\ i < k)
      track(id) == LET order == SetToSortSeq(placed(id), earlier)
                   IN [n \in DOMAIN order |-> point(rows[order[n]])]
      first(id) == rows[Min(placed(id))]
  IN [rmax   |-> last({i \in kept : rows[i].rmw > 0}),
      quads  |-> last({i \in kept : AnyPositive(rows[i].r64)}),
      storms |-> [id \in {rows[i].id : i \in {k \in kept : rows[k].at # None}} |->
                    [id |-> id, year |-> first(id).season, track |-> track(id)]]]

LookupRmax(index, id, time) == IF <<id, time>> \in DOMAIN index.rmax THEN index.rmax[<<id, time>>].rmw ELSE 0
LookupQuads(index, id, time) == IF <<id, time>> \in DOMAIN index.quads THEN index.quads[<<id, time>>].r64 ELSE None

(***************************************************************************)
(* The list of past storms.                                                *)
(***************************************************************************)
PeakWind(track) == Max({track[i].wind : i \in DOMAIN track} \cup {0})
\* The first of the strongest, as Python's max.
Strongest(track, S) == Min({i \in S : \A k \in S : track[i].wind >= track[k].wind})
LandfallSummary(track) ==
  LET hits == {i \in DOMAIN track : track[i].landfall}
      us == {i \in hits : StateOf[track[i].at] # None}
  IN [category |-> IF hits = {} THEN -2 ELSE CategoryForWind(track[Strongest(track, hits)].wind),
      state |-> IF us = {} THEN None ELSE StateOf[track[Strongest(track, us)].at]]
EffectiveCategory(track) ==
  IF LandfallSummary(track).category # -2 THEN LandfallSummary(track).category
  ELSE CategoryForWind(PeakWind(track))
ListHurricanes(index, years, minCategory, landfallOnly, states) ==
  {id \in DOMAIN index.storms :
     LET s == index.storms[id]
         landfall == LandfallSummary(s.track)
     IN /\ s.year \in years
        /\ landfallOnly => landfall.category # -2
        /\ states # None => landfall.state \in states
        /\ EffectiveCategory(s.track) >= minCategory}

(***************************************************************************)
(* The wind at a distance d from the eye (county_wind.py).                 *)
(***************************************************************************)
Blend(d, r0, v0, r1, v1) == v0 + ((d - r0) * (v1 - v0)) \div (r1 - r0)
\* Without 34 kt radii: full wind in the core, decay to 64 kt at r64; a
\* quadrant no wider than the core stays below hurricane force.
ExperiencedWind(d, vmax, rmax, r64) ==
  LET narrow == 20 * r64 <= 21 * rmax
  IN CASE vmax < 34 \/ rmax <= 0 -> 0
       [] d <= rmax -> vmax
       [] vmax <= 64 -> vmax
       [] narrow -> Min({vmax, 63})
       [] OTHER -> Blend(d, rmax, vmax, r64, 64)
EffectiveRmax(rmax, r64, r50, r34) ==
  LET core == Max({rmax, 8})
  IN CASE r64 > 0 /\ 10 * core > 8 * r64 -> Max({8, (55 * r64) \div 100})
       [] ~(r64 > 0 /\ 10 * core > 8 * r64) /\ r50 > 0 /\ 4 * core > 3 * r50 -> Max({8, (45 * r50) \div 100})
       [] r34 > 0 /\ r64 <= 0 /\ r50 <= 0 /\ core > 20 -> 15
       [] OTHER -> core
\* With them: full wind in the core, then the published radii that widen and
\* weaken it, nothing beyond the last.
AddKnot(knots, radius, speed) ==
  LET k == knots[Len(knots)]
  IN IF 20 * radius > 21 * k[1] /\ speed < k[2] THEN Append(knots, <<radius, speed>>) ELSE knots
BetweenKnots(d, knots) ==
  LET beyond == {k \in DOMAIN knots : k > 1 /\ d <= knots[k][1]}
      upTo(k) == Blend(d, knots[k - 1][1], knots[k - 1][2], knots[k][1], knots[k][2])
  IN IF beyond = {} THEN 0 ELSE upTo(Min(beyond))
RadiiWind(d, vmax, rmax, r64, r50, r34) ==
  IF vmax < 34 THEN 0
  ELSE Given(EffectiveRmax(rmax, r64, r50, r34), LAMBDA core :
         IF d <= core THEN vmax
         ELSE BetweenKnots(d, FoldLeft(LAMBDA knots, band : IF band[3] THEN AddKnot(knots, band[1], band[2]) ELSE knots,
                                       << <<core, vmax>> >>,
                                       << <<r64, 64, r64 > 0 /\ vmax >= 64>>, <<r50, 50, r50 > 0 /\ vmax > 50>>,
                                          <<r34, 34, r34 > 0>> >>)))
SkirtWind(vmax) == IF vmax < 64 THEN vmax ELSE (vmax + 64) \div 2

(***************************************************************************)
(* Fixes to stamps. Live fixes bring their own radii; of a past storm only *)
(* hurricane fixes count, with radii from the archive, unless tsField asks *)
(* for the tropical-storm field its best track gives.                      *)
(***************************************************************************)
MinFootprintWind == 64
RmaxNm(wind, observed) ==
  IF observed > 0 THEN <<Max({8, observed}), "ibtracs">>
  ELSE <<IF wind <= 0 THEN 0 ELSE Max({8, FormulaRmax}), "willoughby">>
Live(pt) == pt.source = "nhc"
R34Of(pt, tsField) == IF Live(pt) \/ tsField THEN pt.r34 ELSE None
Counts(pt, tsField) ==
  LET has34 == AnyPositive(R34Of(pt, tsField))
  IN /\ pt.at \in UsBox
     /\ pt.wind >= 34
     /\ pt.wind >= MinFootprintWind \/ has34
     /\ Live(pt) \/ (IF tsField THEN pt.status \in {"HU", "TS", "SS"} \/ has34
                     ELSE pt.status = "HU" /\ pt.wind >= MinFootprintWind)
StampOf(index, id, pt, multiplier, tsField) ==
  LET rmax == IF Live(pt) THEN (IF pt.rmax > 0 THEN <<Max({8, pt.rmax}), "nhc">> ELSE RmaxNm(pt.wind, 0))
              ELSE RmaxNm(pt.wind, LookupRmax(index, id, pt.time))
      q64 == CASE Live(pt) /\ AnyPositive(pt.r64) -> pt.r64
               [] ~Live(pt) /\ pt.wind >= MinFootprintWind -> LookupQuads(index, id, pt.time)
               [] OTHER -> None
      fallback == ~Live(pt) /\ pt.wind >= MinFootprintWind
      r34 == R34Of(pt, tsField)
      r50 == IF (Live(pt) \/ tsField) /\ AnyPositive(pt.r50) THEN pt.r50 ELSE None
      mean(q) == IF AnyPositive(q) THEN Mean(q) ELSE 0
  IN [at |-> pt.at, vmax |-> pt.wind, rmax |-> rmax[1], source |-> rmax[2],
      r64 |-> IF q64 # None THEN Mean(q64) ELSE IF fallback THEN (rmax[1] * multiplier) \div 10 ELSE 0,
      q64 |-> q64, r50 |-> mean(r50), q50 |-> r50, r34 |-> mean(r34), q34 |-> r34]

\* Synthetic stamps every 12 nm, so that damage is a swath and not beads;
\* a gap of more than 300 nm is left open.
Mix(u, v, i, n) == (u * (n - i) + v * i) \div n
MixQuads(p, q, i, n) == IF p # None /\ q # None THEN [k \in DOMAIN p |-> Mix(p[k], q[k], i, n)]
                        ELSE IF 2 * i < n THEN p ELSE q
Between(a, b, i, n) ==
  [at |-> Mix(a.at, b.at, i, n), vmax |-> Mix(a.vmax, b.vmax, i, n), rmax |-> Mix(a.rmax, b.rmax, i, n),
   source |-> IF 2 * i < n THEN a.source ELSE b.source,
   r64 |-> Mix(a.r64, b.r64, i, n), q64 |-> MixQuads(a.q64, b.q64, i, n),
   r50 |-> Mix(a.r50, b.r50, i, n), q50 |-> MixQuads(a.q50, b.q50, i, n),
   r34 |-> Mix(a.r34, b.r34, i, n), q34 |-> MixQuads(a.q34, b.q34, i, n)]
StampStep == 12
MaxGap == 300
\* Mutant of DensifyTrack: the fixes alone are painted.
FixesOnly(stamps) == stamps
DensifyTrack(stamps) ==
  IF Len(stamps) < 2 THEN stamps
  ELSE LET leg(k) == LET a == stamps[k]
                         b == stamps[k + 1]
                         n == Dist(a.at, b.at) \div StampStep
                     IN IF Dist(a.at, b.at) > MaxGap \/ n < 2 THEN <<b>>
                        ELSE Append([i \in 1..(n - 1) |-> Between(a, b, i, n)], b)
       IN <<stamps[1]>> \o FlattenSeq([k \in 1..(Len(stamps) - 1) |-> leg(k)])

(***************************************************************************)
(* Painting: each sample of a county keeps the strongest wind any stamp    *)
(* gives it. A county is [at, samples, state], its samples the grid of its *)
(* polygons and its centroid.                                              *)
(***************************************************************************)
AtSide(quads, eye, x, mean) == IF quads = None THEN mean ELSE quads[IF x < eye THEN 1 ELSE 2]
Widest(quads, mean) == Max({mean} \cup (IF quads = None THEN {} ELSE {quads[1], quads[2]}))
HasBand(quads, mean) == mean > 0 \/ AnyPositive(quads)
Reach(s) == IF HasBand(s.q34, s.r34) THEN Min({200, Widest(s.q34, s.r34) + 30})
            ELSE Min({180, Widest(s.q64, s.r64) + 70})
\* cap[x]: the model's wind at a place of a live storm, None without one. It
\* may only lower the wind beyond the 64 kt radius.
Blows(s, x, cap) ==
  LET d == Dist(s.at, x)
      r64 == AtSide(s.q64, s.at, x, s.r64)
      r50 == AtSide(s.q50, s.at, x, s.r50)
      r34 == AtSide(s.q34, s.at, x, s.r34)
      wind == RadiiWind(d, s.vmax, EffectiveRmax(s.rmax, r64, r50, r34), r64, r50, r34)
      capped == cap # None /\ (r64 <= 0 \/ d > r64) /\ cap[x] # None
  IN IF HasBand(s.q34, s.r34) THEN (IF capped THEN Min({wind, cap[x]}) ELSE wind)
     ELSE IF r64 <= 0 \/ d > r64 THEN 0 ELSE ExperiencedWind(d, s.vmax, s.rmax, r64)
Near(stamps, county) == {i \in DOMAIN stamps : Reach(stamps[i]) > 0 /\ Dist(stamps[i].at, county.at) <= Reach(stamps[i])}
Paint(stamps, county, cap) ==
  [x \in county.samples |->
     Max({w \in {Blows(stamps[i], x, cap) : i \in Near(stamps, county)} : w >= 34} \cup {0})]

Bands(winds) == [c \in {CategoryForWind(winds[x]) : x \in DOMAIN winds} |->
                   Cardinality({x \in DOMAIN winds : CategoryForWind(winds[x]) = c})]
MphBand(kt) == LET mph == (115078 * kt) \div 100000
               IN CASE mph < 41 -> 0 [] mph >= 171 -> 161 [] OTHER -> 41 + 10 * ((mph - 41) \div 10)
SpeedBins(winds) ==
  LET bin(x) == <<MphBand(winds[x]), CategoryForWind(winds[x])>>
      blown == {x \in DOMAIN winds : winds[x] >= 34}
  IN [b \in {bin(x) : x \in blown} |-> Cardinality({x \in blown : bin(x) = b})]
Peak(winds) == Max({winds[x] : x \in DOMAIN winds})
\* Kept with a hurricane wind anywhere, or 34 kt over 1% of the area.
IncludeCounty(winds) ==
  Peak(winds) >= 64 \/ 100 * Cardinality({x \in DOMAIN winds : winds[x] >= 34}) >= Cardinality(DOMAIN winds)
Weight == <<0, 1, 4, 10, 25, 50, 80>>
Severity(winds) == (1000 * MapThenSumSet(LAMBDA x : Weight[CategoryForWind(winds[x]) + 2], DOMAIN winds))
                     \div Cardinality(DOMAIN winds)

ImpactsFromPaint(stamps, counties, cap) ==
  LET closest(c) == Min({i \in Near(stamps, counties[c]) : \A k \in Near(stamps, counties[c]) :
                           Dist(stamps[i].at, counties[c].at) <= Dist(stamps[k].at, counties[c].at)})
      impact(c, winds, eye) == [geoid |-> c, winds |-> winds, peak |-> Peak(winds), bands |-> Bands(winds),
                                bins |-> SpeedBins(winds), severity |-> Severity(winds),
                                closest |-> Dist(eye.at, counties[c].at), rmax |-> eye.rmax, source |-> eye.source]
      worse(a, b) == a.severity > b.severity \/ (a.severity = b.severity /\ a.peak > b.peak)
  IN Given([c \in {g \in DOMAIN counties : Near(stamps, counties[g]) # {}} |-> Paint(stamps, counties[c], cap)],
           LAMBDA painted :
             SetToSortSeq({impact(c, painted[c], stamps[closest(c)]) : c \in {g \in DOMAIN painted : IncludeCounty(painted[g])}},
                          LAMBDA a, b : worse(a, b) \/ (~worse(b, a) /\ a.geoid < b.geoid)))

\* The map's swaths: one quadrilateral per leg that moves at most 300 nm and
\* is not of width 0 at both ends (the outer) or at either end (the inner).
Legs(points) == {i \in 1..(Len(points) - 1) : Dist(points[i].at, points[i + 1].at) \in 1..MaxGap}
InnerCone(points) == {i \in Legs(points) : points[i].rmax > 0 /\ points[i + 1].rmax > 0}
OuterCone(points) == {i \in Legs(points) : Widest(points[i].q64, IF points[i].q64 = None THEN points[i].r64 ELSE 0) > 0
                                            \/ Widest(points[i + 1].q64, IF points[i + 1].q64 = None THEN points[i + 1].r64 ELSE 0) > 0}
ComputeImpact(index, storm, counties, multiplier, cap, tsField) ==
  LET stamped(track) == [i \in DOMAIN track |-> StampOf(index, storm.id, track[i], multiplier, tsField)]
      found(stamps, footprint) ==
        [impacts |-> ImpactsFromPaint(DensifyTrack(stamps), counties, cap),
         footprint |-> footprint, inner |-> InnerCone(footprint), outer |-> OuterCone(footprint),
         rings |-> [i \in DOMAIN footprint |-> SkirtWind(footprint[i].vmax)]]
  IN Given(stamped(SelectSeq(storm.track, LAMBDA pt : Counts(pt, tsField))), LAMBDA stamps :
           found(stamps, SelectSeq(stamps, LAMBDA s : s.vmax >= MinFootprintWind)))

(***************************************************************************)
(* The values of the selection in the counties: facts [geo, level, dataset,*)
(* segment, tiv, count], only those at county level.                       *)
(***************************************************************************)
JoinTiv(impacts, facts) ==
  LET at(g) == {f \in facts : f.geo = g /\ f.level = "COUNTY"}
      tiv(S) == MapThenSumSet(LAMBDA f : f.tiv, S)
      of(g, ds) == {f \in at(g) : f.dataset = ds}
      seg(g, s) == tiv({f \in at(g) : f.segment = s})
  IN [i \in DOMAIN impacts |->
        LET g == impacts[i].geoid
        IN [impact |-> impacts[i], tiv |-> tiv(at(g)), data |-> at(g) # {},
            locations |-> MapThenSumSet(LAMBDA f : f.count, at(g)),
            segments |-> [s \in {"RESIDENTIAL", "COMMERCIAL", "AUTO"} |-> seg(g, s)],
            programmes |-> [ds \in {f.dataset : f \in at(g)} |-> tiv(of(g, ds))]]]

\* A live track wins; without one the archive is asked, which may be down or
\* not know the storm.
ImpactPayload(index, archive, live, id, facts, counties, multiplier, cap) ==
  IF live = None /\ archive = None THEN BadGateway
  ELSE IF live = None /\ id \notin DOMAIN index.storms THEN NotFound
  ELSE LET sum(joined, Of(_)) == MapThenSumSet(LAMBDA i : Of(joined[i]), DOMAIN joined)
           payload(found, joined) ==
             [source |-> IF live # None THEN "live" ELSE "ibtracs", footprint |-> found.footprint,
              counties |-> joined, totalTiv |-> sum(joined, LAMBDA c : c.tiv),
              locations |-> sum(joined, LAMBDA c : c.locations),
              segments |-> [s \in {"RESIDENTIAL", "COMMERCIAL", "AUTO"} |-> sum(joined, LAMBDA c : c.segments[s])]]
       IN Given(IF live # None THEN ComputeImpact(index, live, counties, multiplier, cap, FALSE)
                ELSE ComputeImpact(index, index.storms[id], counties, multiplier, None, FALSE),
                LAMBDA found : payload(found, JoinTiv(found.impacts, facts)))
=============================================================================
