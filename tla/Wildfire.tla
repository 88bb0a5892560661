------------------------------ MODULE Wildfire ------------------------------
(***************************************************************************)
(* Fires of the day (services/live_wildfire.py): official perimeters, and  *)
(* the footprints of clustered satellite detections. A detection is        *)
(* [cell, conf, frp, at]; its cell is that of the footprint's grid.        *)
(***************************************************************************)
EXTENDS Polygons, SequencesExt

CONSTANTS FirmsSources,   \* sequence of the satellites' products
          FirmsMaxDays, FirmsWindowDays,
          ClusterCells,   \* side of a cluster's cell, in cells of the footprint
          HeatShapeCap, HeatPointCap,
          NotCsv          \* a key or quota error, sent as an ordinary answer
ASSUME WildfireAssumption ==
  /\ {FirmsMaxDays, FirmsWindowDays, ClusterCells, HeatPointCap} \subseteq Nat \ {0}
  /\ FirmsSources # <<>>

(***************************************************************************)
(* The outline of a set of cells: its edges, with the cells on their left, *)
(* are walked until they close. Where two cells touch only at a corner two *)
(* edges leave, and which is taken first depends on the order of a Python  *)
(* set, as does the corner a ring starts from: "turns" are the corners     *)
(* where the smaller successor goes first and "low" says where rings start.*)
(***************************************************************************)
Less(a, b) == a[1] < b[1] \/ (a[1] = b[1] /\ a[2] < b[2])
Extreme(S, low) == CHOOSE a \in S : \A b \in S \ {a} : IF low THEN Less(a, b) ELSE Less(b, a)
Edges(cells) ==
  LET free(d) == {c \in cells : <<c[1] + d[1], c[2] + d[2]>> \notin cells}
      edge(d, a, b) == {<<<<c[1] + a[1], c[2] + a[2]>>, <<c[1] + b[1], c[2] + b[2]>>>> : c \in free(d)}
  IN edge(<<0, -1>>, <<0, 0>>, <<1, 0>>) \cup edge(<<1, 0>>, <<1, 0>>, <<1, 1>>)
     \cup edge(<<0, 1>>, <<1, 1>>, <<0, 1>>) \cup edge(<<-1, 0>>, <<0, 1>>, <<0, 0>>)
Pinches(cells) ==
  LET edges == Edges(cells) IN {e[1] : e \in {f \in edges : \E g \in edges : g[1] = f[1] /\ g[2] # f[2]}}
Outlines(cells, turns, low) ==
  LET edges == Edges(cells)
      walk[k \in 0..Cardinality(edges)] ==
        IF k = 0 THEN [left |-> edges, ring |-> <<>>, rings |-> <<>>]
        ELSE LET w == walk[k - 1]
                 ring == IF w.ring = <<>> THEN <<Extreme({e[1] : e \in w.left}, low)>> ELSE w.ring
                 next == {e \in w.left : e[1] = Last(ring)}
                 to == Extreme({e[2] : e \in next}, Last(ring) \in turns)
                 left == w.left \ {<<Last(ring), to>>}
             IN IF to = ring[1] THEN [left |-> left, ring |-> <<>>, rings |-> Append(w.rings, ring)]
                ELSE [left |-> left, ring |-> Append(ring, to), rings |-> w.rings]
  IN walk[Cardinality(edges)].rings
\* Corners only, and closed.
Simplify(ring) ==
  LET at(i) == ring[((i - 1) % Len(ring)) + 1]
      corner(i) == LET a == at(i + Len(ring) - 1)  b == at(i)  c == at(i + 1)
                   IN (b[1] - a[1]) * (c[2] - a[2]) # (b[2] - a[2]) * (c[1] - a[1])
      kept == SelectSeq([i \in DOMAIN ring |-> i], corner)
      out == [i \in DOMAIN kept |-> <<2 * ring[kept[i]][1], 2 * ring[kept[i]][2]>>]
  IN Append(out, out[1])

(***************************************************************************)
(* A pocket runs clockwise: it becomes a hole of the smallest outer ring   *)
(* that holds the middle of a cell on its right.                           *)
(***************************************************************************)
Sign(n) == IF n > 0 THEN 1 ELSE IF n < 0 THEN -1 ELSE 0
\* Mutant of InteriorPoint: a corner of the hole, as the code once took.
CornerOf(hole) == hole[1]
InteriorPoint(hole) ==
  LET a == hole[1]  b == hole[2]
  IN <<(a[1] + b[1]) \div 2 + Sign(b[2] - a[2]), (a[2] + b[2]) \div 2 - Sign(b[1] - a[1])>>
FootprintGeometry(cells, turns, low) ==
  LET simple(raw) == [i \in DOMAIN raw |-> Simplify(raw[i])]
      outers(rings, area) == SelectSeq([i \in DOMAIN rings |-> i], LAMBDA i : area[i] > 0)
      around(rings, outer, i) == {k \in Range(outer) : RingContains(InteriorPoint(rings[i]), rings[k])}
      smallest(S, area) == IF S = {} THEN None
                           ELSE CHOOSE k \in S : \A j \in S : area[k] < area[j] \/ (area[k] = area[j] /\ k <= j)
      holes(rings, area, outer, k) ==
        SelectSeq([i \in DOMAIN rings |-> i], LAMBDA i : area[i] < 0 /\ smallest(around(rings, outer, i), area) = k)
      part(rings, k, pockets) == <<rings[k]>> \o [h \in DOMAIN pockets |-> rings[pockets[h]]]
      geometry(rings, area, outer) ==
        [kind |-> IF Len(outer) = 1 THEN "Polygon" ELSE "MultiPolygon",
         parts |-> [n \in DOMAIN outer |-> part(rings, outer[n], holes(rings, area, outer, outer[n]))]]
  IN Given(simple(Outlines(cells, turns, low)), LAMBDA rings :
     Given([i \in DOMAIN rings |-> SignedArea(rings[i])], LAMBDA area : geometry(rings, area, outers(rings, area))))

(***************************************************************************)
(* Clusters: detections whose coarse cells touch, corners included.        *)
(***************************************************************************)
Coarse(f) == <<f.cell[1] \div ClusterCells, f.cell[2] \div ClusterCells>>
Touch(a, b) == \A i \in 1..2 : a[i] - b[i] \in -1..1
ClusterOf(cells, c) ==
  LET grown[n \in 0..Cardinality(cells)] ==
        IF n = 0 THEN {c} ELSE LET g == grown[n - 1] IN {d \in cells : \E e \in g : Touch(d, e)}
  IN grown[Cardinality(cells)]
\* [cells, fires] of each cluster, in the order of their first detections.
ClusterComponents(fires) ==
  LET cells == {Coarse(f) : f \in Range(fires)}
      cluster == [c \in cells |-> ClusterOf(cells, c)]
      in(i) == cluster[Coarse(fires[i])]
      first == SelectSeq([i \in DOMAIN fires |-> i], LAMBDA i : \A j \in 1..(i - 1) : in(j) # in(i))
  IN [k \in DOMAIN first |-> [cells |-> in(first[k]), fires |-> SelectSeq(fires, LAMBDA f : Coarse(f) \in in(first[k]))]]
Shape(fires, turns, low) ==
  LET frps == {f.frp : f \in Range(fires)} \ {None}
      at == {f.at : f \in Range(fires)} \ {None}
  IN [geometry |-> FootprintGeometry({f.cell : f \in Range(fires)}, turns, low), count |-> Len(fires),
      frp |-> IF frps = {} THEN None ELSE Max(frps),
      from |-> IF at = {} THEN None ELSE Min(at), until |-> IF at = {} THEN None ELSE Max(at)]
Thin(fires) ==
  IF Len(fires) <= HeatPointCap THEN fires
  ELSE [i \in 1..HeatPointCap |-> fires[((i - 1) * Len(fires)) \div HeatPointCap + 1]]

(***************************************************************************)
(* The two feeds. An answer that does not come in time is None.            *)
(***************************************************************************)
\* A confidence is None, [word] or [pct].
ConfidenceRank(raw) ==
  IF raw = None THEN 1
  ELSE IF "word" \in DOMAIN raw THEN (CASE raw.word = "low" -> 0 [] raw.word = "high" -> 2 [] OTHER -> 1)
  ELSE IF raw.pct < 30 THEN 0 ELSE IF raw.pct < 80 THEN 1 ELSE 2
AskedRank == [low |-> 0, nominal |-> 1, high |-> 2]
\* <<first, last>> day of each window, counted back from today.
FirmsWindows(days) ==
  LET total == Max({1, Min({days, FirmsMaxDays})})
  IN [w \in 1..((total + FirmsWindowDays - 1) \div FirmsWindowDays) |->
        <<(w - 1) * FirmsWindowDays, Min({w * FirmsWindowDays, total}) - 1>>]
\* One answer for each window of each source: None, NotCsv or rows. "cache" is
\* what the call leaves to later ones.
Came(answer) == answer \notin {None, NotCsv}
Complete(answers) == \A i \in DOMAIN answers : Came(answers[i])
\* Mutant of MayKeep: whatever came is kept.
MayKeepAny(answers) == \E i \in DOMAIN answers : Came(answers[i])
MayKeep(answers) == Complete(answers)
FetchActiveFires(hasKey, conf, minFrp, answers, held) ==
  LET wanted(f) == /\ f.cell # None /\ ConfidenceRank(f.conf) >= AskedRank[conf]
                   /\ (minFrp > 0 => f.frp # None /\ f.frp >= minFrp)
      rows == FlattenSeq([i \in DOMAIN answers |-> IF Came(answers[i]) THEN SelectSeq(answers[i], wanted) ELSE <<>>])
  IN IF ~hasKey THEN [fires |-> <<>>, notes |-> <<"heat disabled">>, cache |-> held]
     ELSE IF held # None THEN [fires |-> held, notes |-> <<>>, cache |-> held]
     ELSE [fires |-> rows, cache |-> IF MayKeep(answers) THEN rows ELSE None,
           notes |-> IF \A i \in DOMAIN answers : ~Came(answers[i]) THEN <<"heat unavailable">>
                     ELSE IF Complete(answers) THEN <<>> ELSE <<"heat incomplete">>]

\* WFIGS: None, [error], or [features, exceeded].
Acres(p) == IF p.gis \notin {None, 0} THEN p.gis ELSE IF p.size # None THEN p.size ELSE 0
\* An answer that is kept, with its note, for the calls of the next ten minutes.
Usable(answer) == answer # None /\ "error" \notin DOMAIN answer
FetchPerimeters(answer, held) ==
  IF held # None THEN held
  ELSE IF ~Usable(answer)
       THEN [perimeters |-> <<>>, notes |-> <<"perimeters unavailable">>]
  ELSE LET kept == SelectSeq(answer.features, LAMBDA f : f.geometry # None /\ f.category \in {None, "WF"})
       IN [perimeters |-> SortSeq(kept, LAMBDA p, q : Acres(p) > Acres(q)),
           notes |-> IF answer.exceeded THEN <<"perimeters truncated">> ELSE <<>>]

\* build_wildfire_bundle: what was asked is [heat, perimeters, minCells, minDetections,
\* conf, minFrp, days], and "feeds" [perimeters, hasKey, answers].
BuildWildfireBundle(req, feeds, held, turns, low) ==
  LET clusters(fires) == SelectSeq(ClusterComponents(fires),
                            LAMBDA c : Len(c.fires) >= req.minDetections /\ Cardinality(c.cells) >= req.minCells)
      shapes(of) == SortSeq([k \in DOMAIN of |-> Shape(of[k].fires, turns, low)], LAMBDA s, t : s.count > t.count)
      tally(of) == [fires |-> Len(of), acres |-> FoldLeft(LAMBDA n, p : n + Acres(p), 0, of)]
      note(cond, text) == IF cond THEN <<text>> ELSE <<>>
      bundle(perims, heat, kept, drawn) ==
        [perimeters |-> perims.perimeters, fires |-> Thin(kept), total |-> Len(heat.fires),
         shapes |-> SubSeq(drawn, 1, Min({Len(drawn), HeatShapeCap})),
         states |-> [st \in {p.state : p \in Range(perims.perimeters)} \ {None} |->
                       tally(SelectSeq(perims.perimeters, LAMBDA p : p.state = st))],
         notes |-> perims.notes \o note(Len(drawn) > HeatShapeCap, "largest shapes only")
                   \o note(Len(kept) < Len(heat.fires), "cleaned") \o note(Len(kept) > HeatPointCap, "thinned") \o heat.notes
                   \o note(req.perimeters /\ perims.perimeters = <<>>, "no perimeters"),
         keeps |-> heat.cache]
  IN Given(IF req.heat THEN FetchActiveFires(feeds.hasKey, req.conf, req.minFrp, feeds.answers, held.heat)
           ELSE [fires |-> <<>>, notes |-> <<>>, cache |-> held.heat], LAMBDA heat :
     Given(clusters(heat.fires), LAMBDA of :
       bundle(IF req.perimeters THEN FetchPerimeters(feeds.perimeters, held.perimeters)
              ELSE [perimeters |-> <<>>, notes |-> <<>>],
              heat, FlattenSeq([k \in DOMAIN of |-> of[k].fires]), shapes(of))))
=============================================================================
