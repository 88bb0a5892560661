------------------------------ MODULE Polygons ------------------------------
(***************************************************************************)
(* What the portfolio has inside polygons (api/geometry_input.py,          *)
(* services/wildfire_exposure.py). A position is <<x, y>> in half cells of *)
(* a fire's grid: polygons have even corners and locations odd positions,  *)
(* so that no location is on an edge. A geometry is [kind, parts], a part  *)
(* is a sequence of rings and the first ring of a part its outer one. What *)
(* cannot be read as a position is None.                                   *)
(***************************************************************************)
EXTENDS HttpErrors, Integers, SequencesExt

CONSTANTS MaxPolygons, MaxZones, MaxVertices, \* what a request may hold
          MaxWork,      \* point-in-polygon operations of a request
          World,        \* coordinates that exist
          PointsPerCounty,
          Scatter,      \* county -> client -> index of a point -> position
          IndexStep,    \* side of a cell of the index
          Resolution    \* twice the area for each synthetic location
ASSUME PolygonsAssumption == IndexStep \in Nat \ {0} /\ PointsPerCounty \in Nat \ {0}

Areal == {"Polygon", "MultiPolygon"}

(***************************************************************************)
(* A request's polygons.                                                   *)
(***************************************************************************)
RingsOf(g) == FlattenSeq(g.parts)
Acceptable(g) ==
  /\ g.kind \in Areal /\ RingsOf(g) # <<>>
  /\ \A ring \in Range(RingsOf(g)) :
       Len(ring) >= 4 /\ \A p \in Range(ring) : p # None /\ p[1] \in World /\ p[2] \in World
VertexCount(g) == FoldLeft(LAMBDA n, ring : n + Len(ring), 0, RingsOf(g))
Oversized(gs) == FoldLeft(LAMBDA n, g : n + VertexCount(g), 0, gs) > MaxVertices
Validated(gs, most) == Len(gs) <= most /\ (\A g \in Range(gs) : Acceptable(g)) /\ ~Oversized(gs)

(***************************************************************************)
(* Synthetic locations: the most that any peril of any dataset shows for a *)
(* client in a county, spread over a few points. An amount is a multiple   *)
(* of their number.                                                        *)
(***************************************************************************)
OwnCurrency(d, r) == IF r.currency # None THEN r.currency ELSE IF d.currency # None THEN d.currency ELSE "UNKNOWN"
UsableRow(r) == r.level = "COUNTY" /\ r.tiv \notin {None, 0} /\ r.county \in DOMAIN Scatter
CountyTiv(segments) == Max({s[2] : s \in segments})
\* A book is [datasets, facts], and datasets is None when the file cannot be read.
LoadLocations(book) ==
  LET included == {d \in book.datasets : d.included}
      read == {d \in included : d.id \in DOMAIN book.facts}
      rows == UNION {{[d |-> d, r |-> r] : r \in {q \in book.facts[d.id] : UsableRow(q)}} : d \in read}
      currencies == {OwnCurrency(x.d, x.r) : x \in rows}
      insured == {<<x.d.client, x.r.county>> : x \in rows}
      segments(k) ==
        LET of == {x \in rows : x.d.client = k[1] /\ x.r.county = k[2]}
        IN {<<s, MapThenSumSet(LAMBDA x : x.r.tiv, {x \in of : <<x.d.id, x.r.peril>> = s})>> :
              s \in {<<x.d.id, x.r.peril>> : x \in of}}
      warnings == {<<"unreadable", d.id>> : d \in included \ read}
  IN IF Cardinality(currencies) > 1
     THEN [locations |-> <<>>, currency |-> CHOOSE c \in currencies : TRUE, warnings |-> warnings \cup {"currencies"}]
     ELSE [locations |-> [l \in insured \X (1..PointsPerCounty) |->
                            [at |-> Scatter[l[1][2]][l[1][1]][l[2]], client |-> l[1][1],
                             tiv |-> CountyTiv(segments(l[1])) \div PointsPerCounty]],
           currency |-> IF currencies = {} THEN "USD" ELSE CHOOSE c \in currencies : TRUE, warnings |-> warnings]

(***************************************************************************)
(* Even-odd containment: an edge is crossed by the ray from p to the east. *)
(***************************************************************************)
Crosses(p, a, b) ==
  /\ (a[2] > p[2]) # (b[2] > p[2])
  /\ LET left == (p[1] - a[1]) * (b[2] - a[2])
         right == (b[1] - a[1]) * (p[2] - a[2])
     IN IF b[2] > a[2] THEN left < right ELSE left > right
RingContains(p, ring) ==
  Cardinality({i \in DOMAIN ring : Crosses(p, ring[i], ring[IF i = 1 THEN Len(ring) ELSE i - 1])}) % 2 = 1
PolygonContains(p, rings) ==
  rings # <<>> /\ RingContains(p, rings[1]) /\ \A h \in 2..Len(rings) : ~RingContains(p, rings[h])
PointInGeometry(p, g) == g.kind \in Areal /\ \E part \in Range(g.parts) : PolygonContains(p, part)

(***************************************************************************)
(* What a polygon holds: the locations of the cells of the index under its *)
(* box, then those inside the box, then those inside the polygon.          *)
(***************************************************************************)
Positions(g) == UNION {Range(ring) : ring \in Range(RingsOf(g))}
Bounds(g, i) == LET c == {p[i] : p \in Positions(g)} IN <<Min(c), Max(c)>>
CellAt(c) == c \div IndexStep
\* Mutant of UnderBox: range() without the last cell.
UnderHalfBox(c, span) == CellAt(c) >= CellAt(span[1]) /\ CellAt(c) < CellAt(span[2])
UnderBox(c, span) == CellAt(c) >= CellAt(span[1]) /\ CellAt(c) <= CellAt(span[2])
Candidates(ls, g) ==
  IF Positions(g) = {} THEN {}
  ELSE {l \in DOMAIN ls.locations :
          \A i \in 1..2 : LET c == ls.locations[l].at[i]
                              span == Bounds(g, i)
                          IN UnderBox(c, span) /\ span[1] <= c /\ c <= span[2]}
CastCost(ls, g) == Cardinality(Candidates(ls, g)) * Max({1, VertexCount(g)})
Cast(ls, g) == {l \in Candidates(ls, g) : PointInGeometry(ls.locations[l].at, g)}
Rollup(ls, in) ==
  LET of(ids) == [tiv |-> MapThenSumSet(LAMBDA l : ls.locations[l].tiv, ids), count |-> Cardinality(ids)]
      clients == {ls.locations[l].client : l \in in}
  IN [all |-> of(in), byClient |-> [c \in clients |-> of({l \in in : ls.locations[l].client = c})]]
ExposureInPolygons(ls, gs) ==
  IF FoldLeft(LAMBDA n, g : n + CastCost(ls, g), 0, gs) > MaxWork THEN Invalid
  ELSE LET per == [i \in DOMAIN gs |-> Cast(ls, gs[i])]
       IN [results |-> [i \in DOMAIN gs |-> Rollup(ls, per[i])], combined |-> Rollup(ls, UNION Range(per))]
GeometriesWithCandidates(ls, gs) == Sift(gs, LAMBDA g : Candidates(ls, g) # {})

\* /wildfire/exposure, /flood/exposure and /watches-warnings/exposure, which
\* differ in how many polygons they take.
ExposureReply(book, gs, most) ==
  IF ~Validated(gs, most) THEN Invalid
  ELSE IF book.datasets = None THEN Unavailable
  ELSE LET ls == LoadLocations(book)
           priced == ExposureInPolygons(ls, gs)
       IN IF priced = Invalid THEN Invalid
          ELSE [results |-> priced.results, combined |-> priced.combined,
                currency |-> ls.currency, warnings |-> ls.warnings]

\* "west,south,east,north", each a number or None.
ParseBbox(raw) ==
  IF raw = <<>> THEN None
  ELSE IF Len(raw) # 4 \/ None \in Range(raw) THEN Invalid
  ELSE IF raw[1] < raw[3] /\ raw[2] < raw[4] THEN raw ELSE Invalid

(***************************************************************************)
(* Twice the area of a ring, positive when it runs counter-clockwise.      *)
(***************************************************************************)
SignedArea(ring) ==
  FoldLeft(LAMBDA s, i : s + ring[i][1] * ring[i + 1][2] - ring[i + 1][1] * ring[i][2],
           0, [i \in 1..(Len(ring) - 1) |-> i])
ExtentArea(g) ==
  LET area(ring) == LET a == SignedArea(ring) IN IF a < 0 THEN -a ELSE a
      of(part) == IF part = <<>> THEN 0
                  ELSE FoldLeft(LAMBDA s, ring : s - area(ring), area(part[1]), Tail(part))
  IN Max({0, FoldLeft(LAMBDA s, part : s + of(part), 0, g.parts)})
Dissolve(gs) ==
  LET parts == FlattenSeq([i \in DOMAIN gs |-> gs[i].parts])
  IN IF parts = <<>> THEN None ELSE [kind |-> "MultiPolygon", parts |-> parts]
=============================================================================
