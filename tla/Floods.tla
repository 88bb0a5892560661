------------------------------- MODULE Floods -------------------------------
(***************************************************************************)
(* Flood alerts and modelled inundation (services/live_flood.py,           *)
(* weather_alerts.py, nwm_inundation.py), with the watches and warnings of *)
(* the same alert feed (nhc_watch_warn.py).                                *)
(***************************************************************************)
EXTENDS Polygons, SequencesExt

CONSTANTS FloodEvents, TropicalEvents, RelevantEvents, \* the names of each kind of alert
          WatchRank,     \* tropical event -> its place by rank, then by name
          EsriLimit,     \* features an inundation query returns at most
          MaxBbox        \* square degrees of such a query

SeverityRank == [Unknown |-> 0, Minor |-> 1, Moderate |-> 2, Severe |-> 3, Extreme |-> 4]
Rank(severity) == IF severity \in DOMAIN SeverityRank THEN SeverityRank[severity] ELSE 0

(***************************************************************************)
(* Alerts: [event, severity, geometry, states]. Only a corner inside the   *)
(* box counts as being in it; an alert without a shape always does.        *)
(***************************************************************************)
Meets(g, box) ==
  box = None \/ g = None
  \/ \E p \in Positions(g) : box[1] <= p[1] /\ p[1] <= box[3] /\ box[2] <= p[2] /\ p[2] <= box[4]
FetchActiveAlerts(feed, events, box) ==
  IF feed = None THEN None
  ELSE SortSeq(SelectSeq(feed, LAMBDA a : (events = None \/ a.event \in events) /\ Meets(a.geometry, box)),
               LAMBDA a, b : Rank(a.severity) > Rank(b.severity))
SplitWatchesWarnings(alerts) ==
  [watches |-> SortSeq(SelectSeq(alerts, LAMBDA a : a.event \in TropicalEvents),
                       LAMBDA a, b : WatchRank[a.event] > WatchRank[b.event]),
   residual |-> SelectSeq(alerts, LAMBDA a : a.event \notin TropicalEvents)]

\* fetch_flood_alerts: "held" is what an earlier call left for this box.
FetchFloodAlerts(feed, held, box, floor) ==
  LET fetched == IF held # None THEN held ELSE FetchActiveAlerts(feed, FloodEvents, box)
      raw == IF fetched = None THEN <<>> ELSE fetched
      kept == SelectSeq(raw, LAMBDA a : Rank(a.severity) >= SeverityRank[floor])
      mappable == SelectSeq(kept, LAMBDA a : a.geometry # None)
      states == UNION {a.states : a \in Range(mappable)}
      zoneOnly == Len(kept) - Len(mappable)
  IN [alerts |-> mappable, zoneOnly |-> zoneOnly, keeps |-> fetched,
      states |-> [st \in states |-> Len(SelectSeq(mappable, LAMBDA a : st \in a.states))],
      notes |-> (IF zoneOnly > 0 THEN <<"zone only">> ELSE <<>>)
                \o IF fetched = None THEN <<"unreachable">> ELSE IF mappable = <<>> THEN <<"none active">> ELSE <<>>]
GetActiveFlood(feed, held, raw, floor) ==
  LET box == ParseBbox(raw)
  IN IF box = Invalid \/ floor \notin DOMAIN SeverityRank THEN Invalid
     ELSE FetchFloodAlerts(feed, held, box, floor)

(***************************************************************************)
(* Inundation: an answer is None (no answer, too large or an error) or     *)
(* [features, exceeded]; a feature that is not an area is dropped.         *)
(***************************************************************************)
BboxArea(box) == (box[3] - box[1]) * (box[4] - box[2])
CleanGeometry(g) ==
  /\ g # None /\ g.kind \in Areal /\ g.parts # <<>>
  /\ \A part \in Range(g.parts) : part # <<>> /\ \A ring \in Range(part) : ring # <<>> /\ None \notin Range(ring)
WasCut(answer) == answer.exceeded \/ Len(answer.features) >= EsriLimit
Inundation(answer) == [features |-> Sift(answer.features, CleanGeometry), truncated |-> WasCut(answer)]
FetchInundation(answer, held, box) ==
  IF BboxArea(box) > MaxBbox THEN Invalid
  ELSE IF held = None /\ answer = None THEN Unavailable
  ELSE LET bundle == IF held # None THEN held ELSE Inundation(answer)
       IN [features |-> bundle.features, truncated |-> bundle.truncated,
           notes |-> <<"experimental">> \o IF bundle.truncated THEN <<"cut off">>
                                           ELSE IF bundle.features = <<>> THEN <<"none in view">> ELSE <<>>]
GetFloodInundation(answer, held, raw) ==
  LET box == ParseBbox(raw)
      bundle == FetchInundation(answer, held, box)
  IN IF box \in {None, Invalid} THEN Invalid
     ELSE IF bundle = Invalid THEN Invalid
     ELSE IF bundle = Unavailable
          THEN [features |-> <<>>, truncated |-> FALSE, unavailable |-> TRUE, notes |-> <<"unreachable">>]
     ELSE [features |-> bundle.features, truncated |-> bundle.truncated, unavailable |-> FALSE, notes |-> bundle.notes]

\* Only the reaches that may hold a location are cast; a figure of nothing in
\* an extent that is smaller than a location's share of the map is no figure.
PostInundationExposure(answer, held, box, book) ==
  IF ParseBbox(box) \in {None, Invalid} THEN Invalid
  ELSE LET bundle == FetchInundation(answer, held, box)
       IN IF bundle \in {Invalid, Unavailable} THEN bundle
          ELSE IF Dissolve(bundle.features) = None /\ book.datasets = None THEN Raises
          ELSE IF book.datasets = None THEN Unavailable
          ELSE LET ls == LoadLocations(book)
                   extent == Dissolve(bundle.features)
                   scoreable == IF extent = None THEN None ELSE Dissolve(GeometriesWithCandidates(ls, bundle.features))
                   priced == IF scoreable = None THEN [combined |-> Rollup(ls, {})] ELSE ExposureInPolygons(ls, <<scoreable>>)
               IN IF priced = Invalid THEN Invalid
                  ELSE LET below == extent # None /\ priced.combined.all.count = 0 /\ ExtentArea(extent) < Resolution
                       IN [combined |-> priced.combined, belowResolution |-> below, truncated |-> bundle.truncated,
                           reaches |-> Len(bundle.features), currency |-> ls.currency, warnings |-> ls.warnings,
                           notes |-> bundle.notes \o IF below THEN <<"below resolution">> ELSE <<>>]
=============================================================================
