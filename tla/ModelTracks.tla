---------------------------- MODULE ModelTracks ----------------------------
(***************************************************************************)
(* ATCF a-decks (services/atcf_adecks.py) and what is computed from them:  *)
(* the model tracks, the ensemble envelope and the strike probabilities.   *)
(*                                                                         *)
(* A file is a sequence of rows [tech, init, tau, pos, wind, rmw, rad,     *)
(* quads], or None for a malformed line: a position is a point of the      *)
(* integer plane, a cycle its hour, rmw 0 when it is absent, quads the     *)
(* radii of the row's band or {} when they are absent or all zero.         *)
(* Labels, colours and rounding are left out.                              *)
(***************************************************************************)
EXTENDS Absent, Integers, Sequences, FiniteSets, FiniteSetsExt

CONSTANTS Anchors,      \* LEAD_ANCHORS_H
          MinMembers    \* least number of members of an envelope, 5 in the code

MaxCycleLag == 24
MinLead == 24
LeadBuckets == {0, 12, 24, 36, 48, 72, 96, 120}

\* One or two techs of each family the code treats differently, in the order
\* in which the families and techs are sorted.
DisplayOrder == <<"OFCL", "GDMI", "AP01", "AP02", "CLIP", "CARQ">>
FamilyOf == [OFCL |-> "official", GDMI |-> "ai", AP01 |-> "gefs_ens",
             AP02 |-> "gefs_ens", CLIP |-> "baseline", CARQ |-> "analysis"]
EnsembleFamilies == {"gefs_ens", "ecmwf_ens", "ai"}

(***************************************************************************)
(* Rows to tracks.                                                         *)
(***************************************************************************)
\* A malformed line is skipped, alone.
ParseLines(file) == Sift(file, LAMBDA r : r # None)

Inits(rows, tech) == {rows[i].init : i \in {k \in DOMAIN rows : rows[k].tech = tech}}
Newest(rows) == Max({rows[i].init : i \in DOMAIN rows})
RecentInits(rows, tech) == {c \in Inits(rows, tech) : Newest(rows) - c <= MaxCycleLag}

OwnCycle(rows, r) ==
  RecentInits(rows, r.tech) # {} /\ r.init = Max(RecentInits(rows, r.tech))

SelectRows(rows, cycle) ==
  IF cycle # None THEN Sift(rows, LAMBDA r : r.init = cycle)
  ELSE Sift(rows, LAMBDA r : OwnCycle(rows, r))

Taus(rows, tech) == {rows[i].tau : i \in {k \in DOMAIN rows : rows[k].tech = tech}}
RowsAt(rows, tech, tau) == {k \in DOMAIN rows : rows[k].tech = tech /\ rows[k].tau = tau}

\* Only the first row of a (tech, lead) counts; a single fix is no track.
FetchModelTracks(file, cycle, baselines) ==
  LET parsed == ParseLines(file)
      rows == IF parsed = <<>> THEN <<>> ELSE SelectRows(parsed, cycle)
      shown(t) == /\ FamilyOf[t] = "baseline" => baselines
                  /\ FamilyOf[t] # "analysis"
                  /\ Cardinality(Taus(rows, t)) >= 2
      fix(t, tau) == LET r == rows[Min(RowsAt(rows, t, tau))] IN [pos |-> r.pos, wind |-> r.wind]
      track(t) == [tech |-> t, init |-> Max(Inits(rows, t)),
                   fixes |-> [tau \in Taus(rows, t) |-> fix(t, tau)]]
      techs == Sift(DisplayOrder, shown)
  IN [i \in DOMAIN techs |-> track(techs[i])]

AvailableCycles(file) == {ParseLines(file)[i].init : i \in DOMAIN ParseLines(file)}

(***************************************************************************)
(* The official fixes: OFCL before CARQ, of the newest cycle that either   *)
(* has. The position is the first of the best tech's; the radii of a band  *)
(* are those of the last row that has them, Rmax of the first.             *)
(***************************************************************************)
OfficialRank == [OFCL |-> 0, CARQ |-> 2]
FetchOfficialFixes(file) ==
  LET rows == Sift(ParseLines(file), LAMBDA r : r.tech \in DOMAIN OfficialRank)
      latest == Sift(rows, LAMBDA r : r.init = Newest(rows))
      group(tau) == SelectSeq(SelectSeq(latest, LAMBDA r : r.tech = "OFCL")
                                \o SelectSeq(latest, LAMBDA r : r.tech = "CARQ"),
                              LAMBDA r : r.tau = tau)
      banded(of, rad) == {i \in DOMAIN of : of[i].rad = rad /\ of[i].quads # {}}
      quads(of, rad) == IF banded(of, rad) = {} THEN {} ELSE of[Max(banded(of, rad))].quads
      sized(of) == {i \in DOMAIN of : of[i].rmw # 0}
      rmw(of) == IF sized(of) = {} THEN 0 ELSE of[Min(sized(of))].rmw
      taus == {latest[i].tau : i \in DOMAIN latest}
  IN IF rows = <<>> THEN <<>>
     ELSE [tau \in taus |-> Given(group(tau), LAMBDA of :
             [pos |-> of[1].pos, wind |-> of[1].wind, rmw |-> rmw(of), r34 |-> quads(of, 34), r64 |-> quads(of, 64)])]

(***************************************************************************)
(* Convex hulls: the vertices are the points that are in no triangle (or   *)
(* segment) of the others, which is what the monotone chain keeps.         *)
(***************************************************************************)
Cross(o, a, b) == (a[1] - o[1]) * (b[2] - o[2]) - (a[2] - o[2]) * (b[1] - o[1])
InTriangle(p, a, b, c) ==
  LET turns == {Cross(a, b, p), Cross(b, c, p), Cross(c, a, p)}
  IN /\ (\A t \in turns : t >= 0) \/ (\A t \in turns : t <= 0)
     /\ \A k \in {1, 2} : /\ p[k] >= Min({a[k], b[k], c[k]})
                          /\ p[k] <= Max({a[k], b[k], c[k]})
InHull(p, S) == \E a, b, c \in S : InTriangle(p, a, b, c)
ConvexHull(S) == IF Cardinality(S) <= 2 THEN S ELSE {p \in S : ~InHull(p, S \ {p})}

(***************************************************************************)
(* build_envelope: the hull of the hulls at the anchors that at least      *)
(* three members reach; without one, or when it has no area, a corridor    *)
(* along the tracks.                                                       *)
(***************************************************************************)
MembersOf(tracks, families) == {i \in DOMAIN tracks : FamilyOf[tracks[i].tech] \in families}

Neighbour(fixes, tau) ==
  LET later == {u \in DOMAIN fixes : u > tau}
  IN IF later # {} THEN <<tau, Min(later)>> ELSE <<Max(DOMAIN fixes \ {tau}), tau>>
CorridorPoints(tracks, members) ==
  UNION {UNION {LET fixes == tracks[i].fixes
                    ends == Neighbour(fixes, tau)
                    p == fixes[ends[1]].pos
                    q == fixes[ends[2]].pos
                    across == <<p[2] - q[2], q[1] - p[1]>>
                    at == fixes[tau].pos
                IN {<<at[1] + across[1], at[2] + across[2]>>, <<at[1] - across[1], at[2] - across[2]>>}
                : tau \in DOMAIN tracks[i].fixes} : i \in members}

\* Mutant of Reporting: an anchor takes what its first two members say.
FirstTwo(tracks, members, h) ==
  LET all == {i \in members : h \in DOMAIN tracks[i].fixes}
  IN {i \in all : Cardinality({k \in all : k < i}) < 2}
Reporting(tracks, members, h) == {i \in members : h \in DOMAIN tracks[i].fixes}
\* Anchors fewer than three members reach are left out.
EnoughAt == 3
AnchorHulls(tracks, members) ==
  LET at(h) == {tracks[i].fixes[h].pos : i \in Reporting(tracks, members, h)}
      used == {h \in Anchors : Cardinality({i \in members : h \in DOMAIN tracks[i].fixes}) >= EnoughAt}
  IN [h \in used |-> ConvexHull(at(h))]

BuildEnvelope(tracks, families, minMembers) ==
  LET outline(corridor, union) ==
        Given(ConvexHull(IF union = {} THEN corridor ELSE union), LAMBDA ring :
          IF Cardinality(ring) < 3 THEN ConvexHull(corridor) ELSE ring)
      envelope(members, hulls, ring) ==
        IF Cardinality(members) < minMembers \/ Cardinality(ring) < 3 THEN None
        ELSE [members |-> Cardinality(members), anchors |-> DOMAIN hulls, ring |-> ring]
  IN Given(MembersOf(tracks, families), LAMBDA members :
     Given(AnchorHulls(tracks, members), LAMBDA hulls :
       envelope(members, hulls, outline(CorridorPoints(tracks, members), UNION {hulls[h] : h \in DOMAIN hulls}))))

(***************************************************************************)
(* compute_ensemble_risk: a county is struck by a member when one of the   *)
(* segments of its track that start at 24 h or later passes it within the  *)
(* threshold.                                                              *)
(***************************************************************************)
Square(x) == x * x
SquaredDistance(p, q) == Square(p[1] - q[1]) + Square(p[2] - q[2])
NearSegment(p, a, b, threshold) ==
  LET len2 == SquaredDistance(a, b)
      along == (p[1] - a[1]) * (b[1] - a[1]) + (p[2] - a[2]) * (b[2] - a[2])
  IN CASE along <= 0    -> SquaredDistance(p, a) <= Square(threshold)
       [] along >= len2 -> SquaredDistance(p, b) <= Square(threshold)
       [] OTHER         -> Square(Cross(a, b, p)) <= Square(threshold) * len2

Segments(fixes) == {s \in (DOMAIN fixes) \X (DOMAIN fixes) :
                      s[1] < s[2] /\ ~\E u \in DOMAIN fixes : s[1] < u /\ u < s[2]}
LateSegments(fixes) ==
  IF Max(DOMAIN fixes) < MinLead THEN {} ELSE {s \in Segments(fixes) : s[1] >= MinLead}
PassesWithin(fixes, county, threshold) ==
  {s \in LateSegments(fixes) : NearSegment(county, fixes[s[1]].pos, fixes[s[2]].pos, threshold)}

MajorityCycle(tracks, members) ==
  LET count(c) == Cardinality({i \in members : tracks[i].init = c})
      most == {i \in members : \A k \in members : count(tracks[i].init) >= count(tracks[k].init)}
  IN tracks[Min(most)].init

ComputeEnsembleRisk(tracks, counties, threshold) ==
  LET members == MembersOf(tracks, EnsembleFamilies)
      passes(c) == {i \in members : PassesWithin(tracks[i].fixes, c, threshold) # {}}
      near(c) == UNION {LET fixes == tracks[i].fixes
                        IN UNION {{fixes[s[1]].wind, fixes[s[2]].wind} :
                                    s \in PassesWithin(fixes, c, threshold)} : i \in passes(c)}
      struck == {c \in counties : passes(c) # {}}
      blowing(h) == {i \in members : h \in DOMAIN tracks[i].fixes /\ tracks[i].fixes[h].wind > 0}
      winds(h) == {tracks[i].fixes[h].wind : i \in blowing(h)}
  IN [total |-> Cardinality(members),
      intensity |-> [h \in {b \in LeadBuckets : Cardinality(blowing(b)) >= 3} |->
                       [count |-> Cardinality(blowing(h)), min |-> Min(winds(h)), max |-> Max(winds(h))]],
      init |-> IF members = {} THEN None ELSE MajorityCycle(tracks, members),
      strikes |-> [c \in struck |-> [hits |-> Cardinality(passes(c)), peak |-> Max(near(c))]]]

(***************************************************************************)
(* The endpoints, with the notes that depend on what was found. A JMA id   *)
(* has no a-deck: it never gets here.                                      *)
(***************************************************************************)
ModelTracksReply(file, cycle, baselines) ==
  LET shown(tracks, inits, envelope) ==
        [tracks |-> tracks, cycles |-> AvailableCycles(file),
         init |-> IF inits = {} THEN None ELSE Max(inits),
         envelope |-> envelope,
         ai |-> IF tracks = <<>> THEN None ELSE BuildEnvelope(tracks, {"ai"}, 1),
         notes |-> (IF tracks = <<>> THEN {"no_adeck"} ELSE {})
                   \cup (IF tracks # <<>> /\ envelope = None THEN {"no_envelope"} ELSE {})
                   \cup (IF Cardinality(inits) > 1 THEN {"mixed_cycles"} ELSE {})]
  IN Given(FetchModelTracks(file, cycle, baselines), LAMBDA tracks :
       shown(tracks, {tracks[i].init : i \in DOMAIN tracks},
             IF tracks = <<>> THEN None ELSE BuildEnvelope(tracks, EnsembleFamilies, MinMembers)))

EnsembleRiskReply(file, counties, threshold) ==
  LET official(tracks) == {tracks[i].init : i \in {k \in DOMAIN tracks : tracks[k].tech = "OFCL"}}
      behind(risk, newest) == risk.init # None /\ newest # {} /\ risk.init < Max(newest)
      reported(tracks, risk) ==
        [total |-> risk.total, init |-> risk.init, strikes |-> risk.strikes, intensity |-> risk.intensity,
         notes |-> (IF tracks = <<>> THEN {"no_adeck"}
                    ELSE IF risk.total = 0 THEN {"no_members"}
                    ELSE IF risk.strikes = <<>> THEN {"no_county"} ELSE {})
                   \cup (IF behind(risk, official(tracks)) THEN {"older_than_official"} ELSE {})]
  IN Given(FetchModelTracks(file, None, FALSE), LAMBDA tracks :
       reported(tracks, ComputeEnsembleRisk(tracks, counties, threshold)))
=============================================================================
