------------------------------ MODULE StormApi ------------------------------
(***************************************************************************)
(* The endpoints of one live storm that are computed from NHC's files      *)
(* (api/live.py, services/live_hurricane.py). A client makes one call at a *)
(* time; what the files hold when it is made is arbitrary.                 *)
(***************************************************************************)
EXTENDS NhcProducts, Endpoint, FiniteSetsExt

CONSTANTS AdeckFiles,  \* contents of the storm's a-deck
          ImpactFiles, \* the same, when the county impact is asked for
          TrackFiles,  \* contents of its forecast track KMZ
          Entries,     \* its entries in CurrentStorms.json
          Counties,    \* centroids
          Threshold,   \* distance of a strike
          GtwoFiles,   \* contents of the outlook KMZ
          ShapeFiles,  \* contents of the radii, cone and surge KMZs
          ReplayWinds, \* winds of the fixes of past tracks
          Completions  \* orders in which earlier advisories answer

\* Times are numbers, and so are the leads of a placemark that has one and of
\* a line that parses, whose position is a point of the plane.
ASSUME StormAssumption ==
  /\ None \notin Int
  /\ \A file \in TrackFiles \ {None, NotXml} :
       file \in Seq(Range(file)) /\ \A i \in DOMAIN file : file[i].hours \in Int \cup {None}
  /\ \A file \in AdeckFiles \cup ImpactFiles :
       file \in Seq(Range(file)) /\ \A i \in DOMAIN file : file[i] = None \/ file[i].tau \in Int
  /\ \A file \in AdeckFiles : \A i \in DOMAIN file : file[i] = None \/ file[i].pos \in Int \X Int

ModelTracksCall ==
  /\ call = None
  /\ \E file \in AdeckFiles, baselines \in BOOLEAN :
       \E cycle \in AvailableCycles(file) \cup {None} :
         /\ call' = [op |-> "model_tracks", file |-> file]
         /\ reply' = ModelTracksReply(file, cycle, baselines)

EnsembleRiskCall ==
  /\ call = None
  /\ \E file \in AdeckFiles :
       /\ call' = [op |-> "ensemble_risk", file |-> file]
       /\ reply' = EnsembleRiskReply(file, Counties, Threshold)

\* The page's own forecast, from the bundle.
ForecastsCall ==
  /\ call = None
  /\ \E e \in Entries, file \in TrackFiles, completed \in Completions :
       LET fixes == FetchForecastTrack(file)
       IN /\ call' = [op |-> "forecasts", entry |-> e, completed |-> completed]
          /\ reply' = IF fixes = Raises THEN Raises
                      ELSE [observed |-> ObservedTrack(e),
                            forecasts |-> LiveForecasts(e, fixes, completed)]

\* The county impact of the same storm (api/hurricanes.py reads it).
ImpactCall ==
  /\ call = None
  /\ \E e \in Entries, file \in TrackFiles, adeck \in ImpactFiles :
       \E fixes \in {FetchForecastTrack(file)}, official \in {FetchOfficialFixes(adeck)} :
          /\ call' = [op |-> "impact", entry |-> e, fixes |-> fixes, official |-> official]
          /\ reply' = IF fixes = Raises THEN Raises
                      ELSE Given(StormForImpact(e, official, fixes), LAMBDA track :
                             [track |-> track, footprint |-> FixesToFootprint(track, official, "AL01", None)])

\* The shapes of the page: NHC's cone, or one built from the basin's radii.
ShapesCall ==
  /\ call = None
  /\ \E file \in ShapeFiles, basin \in {"AL", "CP", "WP"} :
       LET cone == FetchTrackCone(file)
       IN /\ call' = [op |-> "shapes", file |-> file]
          /\ reply' = IF cone = Raises THEN Raises
                      ELSE [radii |-> FetchWindRadii(file), surge |-> FetchPeakSurge(file), cone |-> cone,
                            synthetic |-> IF cone # <<>> THEN <<>>
                                          ELSE [i \in DOMAIN ForecastHourAnchors |->
                                                  ConeRadius(basin, ForecastHourAnchors[i])]]

\* A past storm played as if it were live.
ReplayCall ==
  /\ call = None
  /\ \E winds \in ReplayWinds : \E asOf \in DOMAIN winds \cup {0, None} :
       LET track == [i \in DOMAIN winds |-> [wind |-> winds[i]]]
       IN /\ call' = [op |-> "replay", track |-> track]
          /\ reply' = ReplayStorm(track, asOf, 4)

OutlookCall ==
  /\ call = None
  /\ \E file \in GtwoFiles : /\ call' = [op |-> "gtwo", file |-> file]
                             /\ reply' = FetchGtwo(file)

StormNext == \/ ModelTracksCall \/ EnsembleRiskCall \/ ForecastsCall \/ ImpactCall
        \/ ShapesCall \/ ReplayCall \/ OutlookCall

(***************************************************************************)
(* Properties.                                                             *)
(***************************************************************************)

\* "A genuinely tight polygon that contains every ensemble member at every
\* anchor": no member plotted at an anchor in use lies outside the envelope
\* drawn over it, the corridor around straight tracks included.
EnvelopeHoldsTheMembers ==
  Of("model_tracks") /\ reply.envelope # None =>
    \A i \in MembersOf(reply.tracks, EnsembleFamilies) : \A h \in reply.envelope.anchors :
      h \in DOMAIN reply.tracks[i].fixes =>
        InHull(reply.tracks[i].fixes[h].pos, reply.envelope.ring)

\* The storm whose county losses are computed is the storm on the map: every
\* forecast point drawn is on the impact track, once per lead hour, at the
\* same place and, where the file gives a wind, with the same wind.
ImpactFollowsTheDrawnTrack ==
  Of("impact") /\ reply # Raises =>
    LET drawn == ForecastPoints(call.entry, call.fixes)
        at(h) == {i \in DOMAIN reply.track : reply.track[i].hours = h}
        agrees(p, q) == p.pos = q.pos /\ (p.wind = q.wind \/ q.wind = call.entry.intensity)
    IN /\ call.fixes # <<>> =>
            \A i \in DOMAIN drawn :
              /\ Cardinality(at(drawn[i].hours)) = 1
              /\ \E k \in at(drawn[i].hours), j \in DOMAIN drawn :
                   drawn[j].hours = drawn[i].hours /\ agrees(reply.track[k], drawn[j])
       /\ \A i, k \in DOMAIN reply.track :
            i < k /\ reply.track[i].hours # None => reply.track[i].hours < reply.track[k].hours
=============================================================================
