----------------------------- MODULE HazardApi -----------------------------
(***************************************************************************)
(* The endpoints of fires, floods and hazard maps (api/wildfire.py,        *)
(* api/flood.py, api/hazards.py). What the feeds answer is arbitrary; what *)
(* an earlier call left in a cache is what such a call would have left.    *)
(***************************************************************************)
EXTENDS Wildfire, Floods, Endpoint, SequencesExt

CONSTANTS LocationBooks,  \* exposures the locations are made of
          PolygonLists,      \* sequences of polygons in a request
          FireRequests, FireFeeds, \* what is asked, and what the feeds then answer
          AlertFeeds, InundationAnswers, Boxes,
          GridFiles,      \* hazard -> its file: None or [cells, step]
          Synthetic,      \* hazard -> point of the 0.4 degree grid -> raw value
          OnLand          \* the points within 25 nm of a county's centre

\* Positions are pairs of numbers and a geometry has a kind of GeoJSON; what is
\* sent may have None for a position, and a feed's answer None for a geometry.
\* What a cache holds is not None, and an error is no extent.
OtherKinds == {"Point", "MultiPoint", "LineString", "MultiLineString", "GeometryCollection"}
SentGeometries == [kind : Areal \cup OtherKinds, parts : Seq(Seq(Seq((Int \X Int) \cup {None})))]
ASSUME HazardAssumption ==
  /\ None \notin SentGeometries
  /\ PolygonLists \subseteq Seq(SentGeometries)
  /\ \A answer \in InundationAnswers \ {None} :
       /\ answer.features \in Seq(SentGeometries \cup {None}) /\ answer.exceeded \in BOOLEAN
       /\ Inundation(answer) # None
  /\ Unavailable \notin [features : Seq(SentGeometries \cup {None}), truncated : BOOLEAN,
                         notes : Seq({"experimental", "cut off", "none in view"})]
  /\ \A feeds \in FireFeeds : FetchPerimeters(feeds.perimetersBefore, None) # None
  /\ \A book \in {b \in LocationBooks : b.datasets # None} : \A d \in book.datasets :
       \A county \in DOMAIN Scatter, n \in 1..PointsPerCounty : Scatter[county][d.client][n] \in Int \X Int

(***************************************************************************)
(* Hazard maps (services/hazard_overlay.py): the file, or the formulas     *)
(* where there is none. "normal" counts ten-thousandths.                   *)
(***************************************************************************)
Stops == [tornado |-> <<0, 12, 28, 45, 60, 75, 90>>, hail |-> <<0, 12, 28, 45, 60, 75, 90>>,
          wildfire |-> <<0, 3, 15, 50, 120, 280, 500>>]
LegendFor(hazard, low, high) == [stops |-> Stops[hazard], min |-> low, max |-> high]
LoadGrid(hazard) == IF GridFiles[hazard] = None THEN [cells |-> <<>>, step |-> 4] ELSE GridFiles[hazard]
BuildGrid(hazard) ==
  LET file == LoadGrid(hazard)
      baked == file.cells # <<>>
      raw == IF baked THEN file.cells ELSE [p \in OnLand |-> Synthetic[hazard][p]]
      values == {raw[p] : p \in DOMAIN raw}
      low == IF baked \/ values = {} THEN 0 ELSE Min(values)
      high == IF values = {} THEN 1 ELSE Max(values)
  IN [grid |-> [p \in DOMAIN raw |-> [raw |-> raw[p], normal |-> IF high > low THEN ((raw[p] - low) * 10000) \div (high - low) ELSE 0]],
      step |-> IF baked THEN file.step ELSE 4, legend |-> LegendFor(hazard, low, high)]
GetHazard(hazard) == IF hazard \in DOMAIN GridFiles THEN BuildGrid(hazard) ELSE Invalid

(***************************************************************************)
(* The endpoints.                                                          *)
(***************************************************************************)
HazardMapCall ==
  /\ call = None
  /\ \E hazard \in DOMAIN GridFiles \cup {"flood"} : call' = [op |-> "hazard"] /\ reply' = GetHazard(hazard)

PolygonExposureCall ==
  /\ call = None
  /\ \E book \in LocationBooks, gs \in PolygonLists, most \in {MaxPolygons, MaxZones} :
       /\ call' = [op |-> "polygons", book |-> book, geometries |-> gs]
       /\ reply' = ExposureReply(book, gs, most)

\* Both caches may hold what an earlier call with the same key was answered.
WildfireCall ==
  /\ call = None
  /\ \E req \in FireRequests :
     \E feeds \in {f \in FireFeeds : Len(f.answers) = Len(FirmsSources) * Len(FirmsWindows(req.days))} :
       LET fetch(from, held) == FetchActiveFires(feeds.hasKey, req.conf, req.minFrp, from, held)
           held == IF feeds.before = None THEN None ELSE fetch(feeds.before, None).cache
           kept == IF Usable(feeds.perimetersBefore) THEN FetchPerimeters(feeds.perimetersBefore, None) ELSE None
           cells == {f.cell : f \in Range(fetch(feeds.answers, held).fires)}
       IN \E low \in BOOLEAN, turns \in SUBSET Pinches(cells) :
            /\ call' = [op |-> "wildfire", req |-> req, feeds |-> feeds]
            /\ reply' = BuildWildfireBundle(req, feeds, [perimeters |-> kept, heat |-> held], turns, low)

FloodCall ==
  /\ call = None
  /\ \E feed, before \in AlertFeeds, raw \in Boxes, floor \in DOMAIN SeverityRank \cup {"Bad"} :
       LET held == IF before = None \/ ParseBbox(raw) = Invalid THEN None
                   ELSE FetchFloodAlerts(before, None, ParseBbox(raw), "Unknown").keeps
       IN /\ call' = [op |-> "flood", feed |-> feed, before |-> before]
          /\ reply' = GetActiveFlood(feed, held, raw, floor)

\* The alerts of a storm's bundle: a feed that does not answer has none.
BundleAlertsCall ==
  /\ call = None
  /\ \E feed \in AlertFeeds, box \in {b \in Boxes : ParseBbox(b) \notin {None, Invalid}} :
       LET fetched == FetchActiveAlerts(feed, RelevantEvents, box)
       IN /\ call' = [op |-> "alerts"]
          /\ reply' = SplitWatchesWarnings(IF fetched = None THEN <<>> ELSE fetched)

\* What an earlier call with the same box left: nothing unless it was answered.
HeldInundation(before) == IF before = None THEN None ELSE Inundation(before)
InundationCall ==
  /\ call = None
  /\ \E answer, before \in InundationAnswers, raw \in Boxes :
       /\ call' = [op |-> "inundation", answer |-> answer, before |-> before]
       /\ reply' = GetFloodInundation(answer, HeldInundation(before), raw)

InundationExposureCall ==
  /\ call = None
  /\ \E answer, before \in InundationAnswers, box \in Boxes, book \in LocationBooks :
       /\ call' = [op |-> "wet", answer |-> answer, before |-> before, book |-> book]
       /\ reply' = PostInundationExposure(answer, HeldInundation(before), box, book)

HazardNext == \/ HazardMapCall \/ PolygonExposureCall \/ WildfireCall
              \/ FloodCall \/ BundleAlertsCall \/ InundationCall \/ InundationExposureCall

(***************************************************************************)
(* Properties.                                                             *)
(***************************************************************************)
IsReply(op) == Of(op) /\ reply \notin {Invalid, Unavailable, Raises}
Told(texts) == Range(reply.notes) \cap texts # {}
\* The answer of the service that a reply is made of, now or earlier.
ServedExtent == IF call.before # None THEN call.before ELSE call.answer
ServedPerimeters ==
  IF Usable(call.feeds.perimetersBefore) THEN call.feeds.perimetersBefore ELSE call.feeds.perimeters

\* "combined is the deduped union (each synthetic location counted once)", and
\* the inundation's figure that of all its reaches: every location that is in
\* some polygon counts once, whatever the index, the boxes, the holes and the
\* choice of the reaches worth casting leave out.
Priced == IF call.op = "wet" THEN Inundation(ServedExtent).features ELSE call.geometries
EveryLocationCountsOnce ==
  IsReply("polygons") \/ IsReply("wet") =>
    LET ls == LoadLocations(call.book)
        in == {l \in DOMAIN ls.locations : \E g \in Range(Priced) : PointInGeometry(ls.locations[l].at, g)}
    IN reply.combined = Rollup(ls, in)

\* "Unburned pockets are holes", and two lobes that touch at a corner are both
\* burned: the shapes hold exactly the cells of the detections they are drawn
\* from, wherever the outline starts and whichever way it turns at a corner.
Centre(c) == <<2 * c[1] + 1, 2 * c[2] + 1>>
Around(c) == {<<c[1] + dx, c[2] + dy>> : dx, dy \in -1..1}
FootprintsAreTheirCells ==
  IsReply("wildfire") /\ ~Told({"thinned", "largest shapes only"}) =>
    LET burned == {f.cell : f \in Range(reply.fires)}
    IN \A c \in UNION {Around(b) : b \in burned} :
         c \in burned <=> \E i \in DOMAIN reply.shapes : PointInGeometry(Centre(c), reply.shapes[i].geometry)

\* "This is NOT a statement that there is no flooding": what could not be read
\* in full is said, now and by every later call that is served from a cache:
\* detections of which a part is missing, perimeters that did not come or were
\* cut, alerts that did not come, and an inundation that did not come or was cut.
HeatGapsAreTold ==
  IsReply("wildfire") /\ call.req.heat /\ ~Complete(call.feeds.answers) /\ (call.feeds.before = None \/ ~Complete(call.feeds.before))
    => Told({"heat disabled", "heat unavailable", "heat incomplete"})
PerimeterGapsAreTold ==
  IsReply("wildfire") /\ call.req.perimeters =>
    /\ ~Usable(ServedPerimeters) => Told({"perimeters unavailable"})
    /\ Usable(ServedPerimeters) /\ ServedPerimeters.exceeded => Told({"perimeters truncated"})
AlertGapsAreTold ==
  IsReply("flood") /\ call.feed = None /\ call.before = None => Told({"unreachable"}) /\ ~Told({"none active"})
ExtentGapsAreTold ==
  /\ IsReply("inundation") /\ ServedExtent = None => reply.unavailable /\ ~Told({"none in view"})
  /\ (IsReply("inundation") \/ IsReply("wet")) /\ ServedExtent # None =>
       (ServedExtent.exceeded \/ Len(ServedExtent.features) >= EsriLimit => reply.truncated /\ Told({"cut off"}))
GapsAreTold == HeatGapsAreTold /\ PerimeterGapsAreTold /\ AlertGapsAreTold /\ ExtentGapsAreTold
=============================================================================
