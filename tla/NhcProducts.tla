---------------------------- MODULE NhcProducts ----------------------------
(***************************************************************************)
(* NHC's KML products (services/nhc_gis.py, nhc_gtwo.py) and the storms    *)
(* built from them (services/live_hurricane.py).                           *)
(*                                                                         *)
(* A file is None when it cannot be fetched or unpacked, NotXml, or a      *)
(* sequence of placemarks [geo, coords, hours, wind, name, range]. A       *)
(* coordinate is a point or None (an unreadable token); "hours" is 0 for   *)
(* an initial advisory point and None without a forecast hour. Times and   *)
(* colours are left out.                                                   *)
(***************************************************************************)
EXTENDS ModelTracks, HttpErrors, SequencesExt

CONSTANT NotXml  \* bytes that are not a KML document

ExtractCoordList(tokens) == SelectSeq(tokens, LAMBDA t : t # None)
Closed(ring) ==
  IF Len(ring) >= 3 /\ ring[1] # ring[Len(ring)] THEN Append(ring, ring[1]) ELSE ring

\* A placemark's ring, <<>> when it has no usable polygon.
Ring(pm) ==
  LET coords == ExtractCoordList(pm.coords)
  IN IF pm.geo = "polygon" /\ Len(coords) >= 3 THEN Closed(coords) ELSE <<>>
Rings(file) == SelectSeq(file, LAMBDA pm : Ring(pm) # <<>>)

(***************************************************************************)
(* The products. The radii swallow a file that is not XML; the others let  *)
(* its parse error out.                                                    *)
(***************************************************************************)
FetchForecastTrack(file) ==
  LET usable == Sift(file, LAMBDA pm : /\ pm.geo = "point" /\ pm.hours # None
                                       /\ ExtractCoordList(pm.coords) # <<>>)
      fix(pm) == [pos |-> ExtractCoordList(pm.coords)[1], wind |-> pm.wind, hours |-> pm.hours]
  IN CASE file = None      -> <<>>
       [] file = NotXml -> Raises
       [] OTHER -> Sorted([i \in DOMAIN usable |-> fix(usable[i])], LAMBDA a, b : a.hours < b.hours)

RadiiBands == {34, 50, 64}
FetchWindRadii(file) ==
  IF file \in {None, NotXml} THEN <<>>
  ELSE LET bands == SelectSeq(Rings(file), LAMBDA pm : pm.name \in RadiiBands /\ Len(Ring(pm)) >= 4)
       IN Sorted([i \in DOMAIN bands |-> [kt |-> bands[i].name, ring |-> Ring(bands[i])]],
                 LAMBDA a, b : a.kt < b.kt)

FetchTrackCone(file) ==
  CASE file = None      -> <<>>
    [] file = NotXml -> Raises
    [] OTHER            -> IF Rings(file) = <<>> THEN <<>> ELSE Ring(Rings(file)[1])

\* The depth comes from the description, else from what follows the name's dots
\* (the placemark's name here).
SurgeRange(pm) == IF pm.range # None THEN pm.range ELSE pm.name
FetchPeakSurge(file) ==
  CASE file = None      -> <<>>
    [] file = NotXml -> Raises
    [] OTHER -> [i \in DOMAIN Rings(file) |->
                  [ring |-> Ring(Rings(file)[i]), range |-> SurgeRange(Rings(file)[i])]]

(***************************************************************************)
(* Earlier advisories: twice as many labels as wanted are tried at once,   *)
(* newest first; the first n that answered in time with a fix are kept.    *)
(* A label is <<number, intermediate>>.                                    *)
(***************************************************************************)
PriorAdvisoryLabels(adv, n) ==
  LET own == IF adv[2] THEN <<<<adv[1], FALSE>>>> ELSE <<>>
      room == 2 * n - Len(own)
      steps == Min({adv[1] - 1, (room + 1) \div 2})
      pairs == [i \in 1..2 * steps |-> <<adv[1] - (i + 1) \div 2, i % 2 = 1>>]
  IN IF adv = None THEN <<>> ELSE own \o (IF room > 0 THEN pairs ELSE <<>>)

KeepNewest(labels, completed, n) ==
  LET arrived == SelectSeq(labels, LAMBDA l : Contains(completed, l))
  IN SubSeq(arrived, 1, Min({n, Len(arrived)}))

(***************************************************************************)
(* A live storm's forecasts. Without a usable track file the points follow *)
(* the motion vector; without motion there is the current fix alone.       *)
(***************************************************************************)
ForecastHourAnchors == <<0, 12, 24, 36, 48, 72, 96, 120>>
Along(e, hours) == <<e.pos[1] + e.move[1] * hours, e.pos[2] + e.move[2] * hours>>
Moves(e) == e.move # None

ForecastPoints(e, fixes) ==
  IF fixes # <<>>
  THEN [i \in DOMAIN fixes |->
          [fixes[i] EXCEPT !.wind = IF @ = 0 THEN e.intensity ELSE @]]
  ELSE IF Moves(e)
       THEN [i \in DOMAIN ForecastHourAnchors |->
               [pos |-> Along(e, ForecastHourAnchors[i]), wind |-> e.intensity,
                hours |-> ForecastHourAnchors[i]]]
       ELSE <<[pos |-> e.pos, wind |-> e.intensity, hours |-> 0]>>

LatestAdvisoryNumber == 100
LiveForecasts(e, fixes, completed) ==
  LET latest == [number |-> LatestAdvisoryNumber, points |-> ForecastPoints(e, fixes)]
      prior == IF e.adv = None THEN <<>>
               ELSE KeepNewest(PriorAdvisoryLabels(e.adv, 4), completed, 4)
  IN <<latest>> \o [i \in DOMAIN prior |-> [number |-> LatestAdvisoryNumber - i, label |-> prior[i]]]

ObservedTrack(e) ==
  IF Moves(e) THEN <<Along(e, -12), Along(e, -6), e.pos>> ELSE <<e.pos>>

(***************************************************************************)
(* A replay storm: "now" is two thirds into the hurricane phase, earlier   *)
(* advisories start two fixes (six hours) earlier each and are shifted     *)
(* sideways. A track of one fix raises (track[1]).                         *)
(***************************************************************************)
ReplayNow(track, asOf) ==
  LET hu == SetToSortSeq({i \in DOMAIN track : track[i].wind >= 64}, <)
      default == IF hu = <<>> THEN (Len(track) * 2) \div 3
                 ELSE hu[(Len(hu) * 2) \div 3 + 1] - 1
  IN Max({1, Min({IF asOf = None THEN default ELSE asOf, Len(track) - 1})})

ReplayAdvisory(track, now, back) ==
  LET anchor == Max({1, now - 2 * back})
      future == SubSeq(track, anchor + 1, Len(track))
      hours == SelectSeq(ForecastHourAnchors, LAMBDA h : h \div 3 < Len(future))
  IN [number |-> 10 - back, issued |-> anchor,
      points |-> [i \in DOMAIN hours |->
                   [at |-> anchor + hours[i] \div 3, hours |-> hours[i],
                    shifted |-> back > 0 /\ hours[i] \div 3 < Len(future) - 1]]]

ReplayStorm(track, asOf, priors) ==
  IF track = <<>> THEN None
  ELSE IF Len(track) = 1 THEN Raises
  ELSE LET now == ReplayNow(track, asOf)
       IN [observed |-> SubSeq(track, 1, now + 1),
           forecasts |-> [b \in 1..priors + 1 |-> ReplayAdvisory(track, now, b - 1)]]

(***************************************************************************)
(* storm_for_impact: the official fixes and the track file joined by lead  *)
(* hour; the file has the position, and the wind unless it says 0. Without *)
(* either, the observed track and the latest forecast's points after now.  *)
(***************************************************************************)
KmzByHour(fixes) ==
  LET last(h) == CHOOSE i \in DOMAIN fixes :
                   fixes[i].hours = h /\ \A k \in DOMAIN fixes : fixes[k].hours = h => k <= i
  IN [h \in {fixes[i].hours : i \in DOMAIN fixes} |-> fixes[last(h)]]

ImpactFix(official, kmz, tau) ==
  LET ofcl == IF tau \in DOMAIN official THEN official[tau] ELSE None
      wind == IF tau \in DOMAIN kmz /\ kmz[tau].wind # 0 THEN kmz[tau].wind
              ELSE IF ofcl # None THEN ofcl.wind ELSE 0
  IN [hours |-> tau, wind |-> wind,
      pos |-> IF tau \in DOMAIN kmz THEN kmz[tau].pos ELSE ofcl.pos,
      r64 |-> IF ofcl = None THEN {} ELSE ofcl.r64]

\* Mutant of ImpactHours: only the official hours are used when there are any.
ImpactHoursOfficial(official, kmz) == IF official = <<>> THEN DOMAIN kmz ELSE DOMAIN official
ImpactHours(official, kmz) == DOMAIN official \cup DOMAIN kmz

StormForImpact(e, official, fixes) ==
  LET kmz == KmzByHour(fixes)
      taus == Ordered(ImpactHours(official, kmz), <)
      later == Sift(ForecastPoints(e, fixes), LAMBDA p : p.hours > 0)
  IN IF official = <<>> /\ fixes = <<>>
     THEN [i \in DOMAIN ObservedTrack(e) |->
             [hours |-> None, wind |-> e.intensity, pos |-> ObservedTrack(e)[i], r64 |-> {}]]
          \o [i \in DOMAIN later |->
             [hours |-> None, wind |-> later[i].wind, pos |-> later[i].pos, r64 |-> {}]]
     ELSE [i \in DOMAIN taus |-> ImpactFix(official, kmz, taus[i])]

(***************************************************************************)
(* The footprint's radii: Rmax and R64 of the official fix, else of        *)
(* IBTrACS, else Rmax of the climatology and 2.5 times Rmax.               *)
(***************************************************************************)
ApplyOfficialRadii(ofcl, storm_id, measured) ==
  [rmax |-> IF ofcl # None /\ ofcl.rmw > 0 THEN "nhc" ELSE "lookup",
   r64 |-> CASE ofcl # None /\ ofcl.r64 # {}      -> "nhc"
             [] storm_id # "" /\ measured # None -> "ibtracs"
             [] OTHER                            -> "fallback"]

MinWindKt == 25
FixesToFootprint(fixes, official, storm_id, measured) ==
  LET strong == SelectSeq(fixes, LAMBDA f : f.wind >= MinWindKt)
  IN [i \in DOMAIN strong |->
        [fix |-> strong[i],
         radii |-> ApplyOfficialRadii(IF strong[i].hours \in DOMAIN official
                                      THEN official[strong[i].hours] ELSE None,
                                      storm_id, measured)]]

(***************************************************************************)
(* The synthetic cone's radius: the basin's table, linear between hours.   *)
(***************************************************************************)
ConeTable == [AL |-> <<<<0, 0>>, <<12, 26>>, <<24, 41>>, <<36, 55>>, <<48, 70>>,
                      <<60, 88>>, <<72, 102>>, <<96, 145>>, <<120, 196>>>>,
              EP |-> <<<<0, 0>>, <<12, 22>>, <<24, 34>>, <<36, 45>>, <<48, 58>>,
                      <<60, 72>>, <<72, 85>>, <<96, 120>>, <<120, 160>>>>]
\* In 24ths of a mile, so that the interpolation is exact.
ConeRadius(basin, hours) ==
  LET table == ConeTable[IF basin = "AL" \/ basin \notin {"EP", "CP"} THEN "AL" ELSE "EP"]
      last == table[Len(table)]
      k == Max({i \in DOMAIN table : table[i][1] <= hours})
      step == table[k + 1][1] - table[k][1]
  IN IF hours <= 0 THEN 0
     ELSE IF hours >= last[1] THEN 24 * last[2]
     ELSE 24 * table[k][2] + (24 \div step) * (hours - table[k][1]) * (table[k + 1][2] - table[k][2])

(***************************************************************************)
(* The Graphical Tropical Weather Outlook: polygons paired with points by  *)
(* position in the file; the chance is in the text, else in the style.     *)
(***************************************************************************)
BucketForPercent(pct) == CASE pct = 0 -> "none" [] pct < 40 -> "low" [] pct < 60 -> "medium" [] OTHER -> "high"
StylePercent == [none |-> 0, low |-> 20, medium |-> 50, high |-> 80]
Classify(style, percent) ==
  IF percent # None THEN [pct |-> Min({100, percent}), bucket |-> BucketForPercent(Min({100, percent}))]
  ELSE IF style \in DOMAIN StylePercent THEN [pct |-> StylePercent[style], bucket |-> style]
  ELSE [pct |-> 0, bucket |-> "none"]

ParseGtwo(file) ==
  LET areas == Rings(file)
      points == SelectSeq(file, LAMBDA pm : pm.geo = "point" /\ ExtractCoordList(pm.coords) # <<>>)
  IN [i \in DOMAIN areas |->
        [ring |-> Ring(areas[i]), chance |-> Classify(areas[i].name, areas[i].range),
         marker |-> IF i \in DOMAIN points THEN ExtractCoordList(points[i].coords)[1] ELSE None]]

FetchGtwo(file) ==
  CASE file = None      -> [areas |-> <<>>, note |-> "unreachable"]
    [] file = NotXml -> [areas |-> <<>>, note |-> "unparsable"]
    [] OTHER -> [areas |-> ParseGtwo(file), note |-> IF ParseGtwo(file) = <<>> THEN "quiet" ELSE "none"]
=============================================================================
