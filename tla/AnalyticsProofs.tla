-------------------------- MODULE AnalyticsProofs --------------------------
(***************************************************************************)
(* Theorems about the endpoints that compute from data they are given.     *)
(***************************************************************************)
EXTENDS AnalyticsApi, CalculationProofs, TLAPS, FiniteSetTheorems, SequenceTheorems

\* [text] if cond else []
Note(cond, text) == IF cond THEN <<text>> ELSE <<>>

\* A note is added or not.
LEMMA WithNote ==
  ASSUME NEW S, NEW s \in Seq(S), NEW b, NEW x \in S
  PROVE  /\ s \o Note(b, x) \in Seq(S)
         /\ Range(s \o Note(b, x)) = Range(s) \cup IF b THEN {x} ELSE {}
<1> DEFINE t == Note(b, x)
<1>1. t \in Seq(S) /\ Range(t) = IF b THEN {x} ELSE {}
  BY OneOrNone, Zenon DEF Note
<1> HIDE DEF t
<1>2. s \o t \in Seq(S) /\ Range(s \o t) = Range(s) \cup Range(t)
  BY <1>1, RangeOfConcat
<1>3. s \o t \in Seq(S) /\ Range(s \o t) = Range(s) \cup IF b THEN {x} ELSE {}
  BY <1>1, <1>2, Zenon
<1> QED
  BY <1>3 DEF t

\* What the two parts of a list of notes say, the whole list says.
LEMMA NotesSay ==
  ASSUME NEW S, NEW p \in Seq(S), NEW q \in Seq(S), NEW n1 \in S, NEW n2 \in S, NEW n3 \in S, NEW n4 \in S,
         NEW b1, NEW b2, NEW b3, NEW b4
  PROVE  Range(p) \cup Range(q)
           \subseteq Range(p \o Note(b1, n1) \o Note(b2, n2) \o Note(b3, n3) \o q \o Note(b4, n4))
<1> DEFINE s1 == p \o Note(b1, n1)
           s2 == s1 \o Note(b2, n2)
           s3 == s2 \o Note(b3, n3)
           s4 == s3 \o q
           s5 == s4 \o Note(b4, n4)
<1>1. s1 \in Seq(S) /\ Range(p) \subseteq Range(s1)
  BY WithNote
<1>2. s2 \in Seq(S) /\ Range(s1) \subseteq Range(s2)
  <2> HIDE DEF s1
  <2> QED
    BY <1>1, WithNote
<1>3. s3 \in Seq(S) /\ Range(s2) \subseteq Range(s3)
  <2> HIDE DEF s2
  <2> QED
    BY <1>2, WithNote
<1> HIDE DEF s3
<1>4. s4 \in Seq(S) /\ Range(s4) = Range(s3) \cup Range(q)
  BY <1>3, RangeOfConcat
<1> HIDE DEF s4
<1>5. Range(s4) \subseteq Range(s5)
  BY <1>4, WithNote
<1> HIDE DEF s1, s2, s5
<1>6. Range(p) \cup Range(q) \subseteq Range(s5)
  BY <1>1, <1>2, <1>3, <1>4, <1>5
<1> QED
  BY <1>6 DEF s5, s4, s3, s2, s1

(***************************************************************************)
(* What could not be read in full is told.                                 *)
(***************************************************************************)
\* What is noted of perimeters that are made of this answer.
PerimeterNotes(answer) ==
  IF ~Usable(answer) THEN <<"perimeters unavailable">>
  ELSE IF answer.exceeded THEN <<"perimeters truncated">> ELSE <<>>
KeptPerimeters(before) == IF Usable(before) THEN FetchPerimeters(before, None) ELSE None
LEMMA PerimetersNoted ==
  ASSUME NEW answer, NEW before, FetchPerimeters(before, None) # None
  PROVE  FetchPerimeters(answer, KeptPerimeters(before)).notes = PerimeterNotes(IF Usable(before) THEN before ELSE answer)
<1>1. \A a : FetchPerimeters(a, None).notes = PerimeterNotes(a)
  BY Zenon DEF FetchPerimeters, PerimeterNotes
<1>2. CASE Usable(before)
  <2>1. KeptPerimeters(before) = FetchPerimeters(before, None)
    BY <1>2 DEF KeptPerimeters
  <2>2. FetchPerimeters(answer, KeptPerimeters(before)) = FetchPerimeters(before, None)
    BY <2>1, Zenon DEF FetchPerimeters
  <2> QED
    BY <1>1, <1>2, <2>2
<1>3. CASE ~Usable(before)
  BY <1>1, <1>3 DEF KeptPerimeters
<1> QED
  BY <1>2, <1>3

\* A bundle of fires repeats what is noted of its perimeters and its detections.
PerimeterWords == {<<"perimeters unavailable">>, <<"perimeters truncated">>, <<>>}
LEMMA FireNotes ==
  ASSUME NEW req, NEW feeds, NEW held, NEW turns, NEW low,
         FetchPerimeters(feeds.perimeters, held.perimeters).notes \in PerimeterWords
  PROVE  LET heat == FetchActiveFires(feeds.hasKey, req.conf, req.minFrp, feeds.answers, held.heat)
             n == BuildWildfireBundle(req, feeds, held, turns, low).notes
         IN /\ req.heat => Range(heat.notes) \subseteq Range(n)
            /\ req.perimeters => Range(FetchPerimeters(feeds.perimeters, held.perimeters).notes) \subseteq Range(n)
<1> DEFINE heat == FetchActiveFires(feeds.hasKey, req.conf, req.minFrp, feeds.answers, held.heat)
           perims == FetchPerimeters(feeds.perimeters, held.perimeters)
           n == BuildWildfireBundle(req, feeds, held, turns, low).notes
<1>1. heat.notes \in {<<"heat disabled">>, <<"heat unavailable">>, <<"heat incomplete">>, <<>>}
  BY DEF FetchActiveFires
<1> HIDE DEF heat, perims
<1>2. PICK b1, b2, b3, b4 :
        n = (IF req.perimeters THEN perims ELSE [perimeters |-> <<>>, notes |-> <<>>]).notes
            \o Note(b1, "largest shapes only") \o Note(b2, "cleaned") \o Note(b3, "thinned")
            \o (IF req.heat THEN heat ELSE [fires |-> <<>>, notes |-> <<>>, cache |-> held.heat]).notes
            \o Note(b4, "no perimeters")
  <2>1. CASE req.heat
    BY <2>1, Zenon DEF BuildWildfireBundle, Given, heat, perims, Note
  <2>2. CASE ~req.heat
    BY <2>2, Zenon DEF BuildWildfireBundle, Given, heat, perims, Note
  <2> QED
    BY <2>1, <2>2
<1> DEFINE T == {"heat disabled", "heat unavailable", "heat incomplete", "perimeters unavailable", "perimeters truncated",
                 "largest shapes only", "cleaned", "thinned", "no perimeters"}
           p == (IF req.perimeters THEN perims ELSE [perimeters |-> <<>>, notes |-> <<>>]).notes
           q == (IF req.heat THEN heat ELSE [fires |-> <<>>, notes |-> <<>>, cache |-> held.heat]).notes
<1>3. p \in {<<"perimeters unavailable">>, <<"perimeters truncated">>, <<>>}
  BY DEF perims, PerimeterWords
<1>4. q \in {<<"heat disabled">>, <<"heat unavailable">>, <<"heat incomplete">>, <<>>}
  BY <1>1
<1>5. (req.perimeters => p = perims.notes) /\ (req.heat => q = heat.notes)
  OBVIOUS
<1>6. n = p \o Note(b1, "largest shapes only") \o Note(b2, "cleaned") \o Note(b3, "thinned") \o q \o Note(b4, "no perimeters")
  BY <1>2
<1> HIDE DEF p, q, n
<1>7. p \in Seq(T) /\ q \in Seq(T)
  <2>1. \A y \in T : <<y>> \in Seq(T) /\ <<>> \in Seq(T)
    BY OneOrNone
  <2> QED
    BY <1>3, <1>4, <2>1
<1>8. "largest shapes only" \in T /\ "cleaned" \in T /\ "thinned" \in T /\ "no perimeters" \in T
  OBVIOUS
<1> HIDE DEF T
<1>9. Range(p) \cup Range(q) \subseteq Range(n)
  <2>1. \A n1, n2, n3, n4 \in T :
          Range(p) \cup Range(q) \subseteq Range(p \o Note(b1, n1) \o Note(b2, n2) \o Note(b3, n3) \o q \o Note(b4, n4))
    BY <1>7, NotesSay
  <2> QED
    BY <1>6, <1>8, <2>1, Zenon
<1> QED
  BY <1>5, <1>9 DEF heat, perims, n

\* A feed of alerts that did not answer is not an absence of floods.
LEMMA FloodGaps ==
  ASSUME NEW raw, NEW floor, GetActiveFlood(None, None, raw, floor) # Invalid
  PROVE  LET n == GetActiveFlood(None, None, raw, floor).notes
         IN "unreachable" \in Range(n) /\ "none active" \notin Range(n)
<1> DEFINE n == GetActiveFlood(None, None, raw, floor).notes
           reached == FetchFloodAlerts(None, None, ParseBbox(raw), floor)
           T == {"zone only", "unreachable"}
<1>1. n = reached.notes
  BY DEF GetActiveFlood
<1>2. FetchActiveAlerts(None, FloodEvents, ParseBbox(raw)) = None
  BY DEF FetchActiveAlerts
<1>3. PICK b : reached.notes =
         (IF b THEN <<"zone only">> ELSE <<>>)
         \o (IF FetchActiveAlerts(None, FloodEvents, ParseBbox(raw)) = None THEN <<"unreachable">>
              ELSE IF reached.alerts = <<>> THEN <<"none active">> ELSE <<>>)
  BY Zenon DEF FetchFloodAlerts
<1> HIDE DEF n, reached
<1> DEFINE s == IF b THEN <<"zone only">> ELSE <<>>
           u == <<"unreachable">>
<1>4. n = s \o u
  BY <1>1, <1>2, <1>3, Zenon
<1>5. s \in Seq(T) /\ Range(s) \subseteq {"zone only"}
  <2>1. CASE b
    BY <2>1, OneOrNone
  <2>2. CASE ~b
    BY <2>2, OneOrNone
  <2> QED
    BY <2>1, <2>2
<1>6. u \in Seq(T) /\ Range(u) = {"unreachable"}
  BY OneOrNone
<1> HIDE DEF s, u, T
<1>7. Range(n) = Range(s) \cup {"unreachable"}
  <2>1. s \in Seq(T) /\ u \in Seq(T)
    BY <1>5, <1>6
  <2>2. Range(s \o u) = Range(s) \cup Range(u)
    BY <2>1, RangeOfConcat
  <2> QED
    BY <1>4, <1>6, <2>2, Zenon
<1>8. "unreachable" \in Range(n) /\ "none active" \notin Range(n)
  BY <1>5, <1>7
<1> QED
  BY <1>8 DEF n

\* Nor is a model that did not answer.
LEMMA InundationGaps ==
  ASSUME NEW raw, GetFloodInundation(None, None, raw) # Invalid
  PROVE  /\ GetFloodInundation(None, None, raw).unavailable
         /\ "none in view" \notin Range(GetFloodInundation(None, None, raw).notes)
<1> DEFINE r == GetFloodInundation(None, None, raw)
<1>1. r.unavailable = TRUE /\ r.notes = <<"unreachable">>
  BY DEF GetFloodInundation, FetchInundation
<1>2. Range(<<"unreachable">>) = {"unreachable"}
  BY OneOrNone
<1> HIDE DEF r
<1>3. Range(r.notes) = {"unreachable"}
  BY <1>1, <1>2, Zenon
<1> QED
  BY <1>1, <1>3 DEF r

\* The features of an answer are those of its areas.
LEMMA FeaturesAreKept ==
  ASSUME NEW answer \in InundationAnswers \ {None}
  PROVE  LET kept == Inundation(answer).features
         IN /\ kept \in Seq(SentGeometries \cup {None})
            /\ \A x \in Range(kept) : x \in SentGeometries \cup {None} /\ CleanGeometry(x)
<1> DEFINE S == SentGeometries \cup {None}
           s == answer.features
           I == {i \in DOMAIN s : CleanGeometry(s[i])}
           kept == Picked(s, I)
<1>1. s \in Seq(S)
  BY HazardAssumption
<1>2. Inundation(answer).features = kept
  <2>1. [i \in DOMAIN s |-> IF CleanGeometry(s[i]) THEN <<s[i]>> ELSE <<>>]
        = [i \in DOMAIN s |-> IF i \in I THEN <<s[i]>> ELSE <<>>]
    BY Zenon
  <2>2. Inundation(answer).features = FlattenSeq([i \in DOMAIN s |-> IF CleanGeometry(s[i]) THEN <<s[i]>> ELSE <<>>])
    BY DEF Inundation, Sift
  <2> QED
    BY <2>1, <2>2, Zenon DEF Picked
<1> HIDE DEF S, s
<1>3. kept \in Seq(S) /\ Range(kept) = {x \in S : \E i \in DOMAIN s : i \in I /\ x = s[i]}
  BY <1>1, Sifted
<1> HIDE DEF kept
<1>4. \A x \in Range(kept) : x \in S /\ CleanGeometry(x)
  BY <1>3
<1> HIDE DEF I
<1> QED
  BY <1>2, <1>3, <1>4 DEF S

\* The extent of an answer, or of the one an earlier call kept.
Served(before, now) == IF before # None THEN before ELSE now
LEMMA ServedIsFetched ==
  ASSUME NEW answer \in InundationAnswers, NEW before \in InundationAnswers, NEW box,
         FetchInundation(answer, HeldInundation(before), box) # Invalid
  PROVE  LET bundle == FetchInundation(answer, HeldInundation(before), box)
             extent == Inundation(Served(before, answer))
         IN /\ bundle # Unavailable <=> Served(before, answer) # None
            /\ Served(before, answer) # None =>
                 /\ bundle.features = extent.features /\ bundle.truncated = extent.truncated
                 /\ bundle.notes = <<"experimental">> \o IF extent.truncated THEN <<"cut off">>
                                                          ELSE IF extent.features = <<>> THEN <<"none in view">> ELSE <<>>
<1> DEFINE bundle == FetchInundation(answer, HeldInundation(before), box)
           served == Served(before, answer)
           extent == Inundation(served)
           says == <<"experimental">> \o IF extent.truncated THEN <<"cut off">>
                                         ELSE IF extent.features = <<>> THEN <<"none in view">> ELSE <<>>
<1>1. before # None => Inundation(before) # None
  BY HazardAssumption
<1>2. CASE served = None
  <2>1. answer = None /\ HeldInundation(before) = None
    BY <1>2 DEF Served, HeldInundation
  <2> QED
    BY <1>2, <2>1 DEF FetchInundation
<1>3. CASE served # None
  <2>1. bundle = [features |-> extent.features, truncated |-> extent.truncated, notes |-> says]
    <3>1. CASE before # None
      <4>1. HeldInundation(before) # None /\ HeldInundation(before) = extent
        BY <1>1, <3>1 DEF HeldInundation, Served
      <4> QED
        BY <4>1, Zenon DEF FetchInundation
    <3>2. CASE before = None
      <4>1. HeldInundation(before) = None /\ served = answer
        BY <3>2 DEF HeldInundation, Served
      <4> QED
        BY <1>3, <4>1, Zenon DEF FetchInundation
    <3> QED
      BY <3>1, <3>2
  <2> HIDE DEF bundle
  <2>2. served \in InundationAnswers \ {None}
    BY <1>3 DEF Served
  <2> HIDE DEF served
  <2>3. extent.features \in Seq(SentGeometries \cup {None})
    BY <2>2, FeaturesAreKept
  <2>4. extent.truncated \in BOOLEAN
    BY <2>2, HazardAssumption DEF Inundation, WasCut
  <2> DEFINE T == {"experimental", "cut off", "none in view"}
  <2>5. says \in Seq(T)
    <3>1. \A x \in T : <<x>> \in Seq(T) /\ <<>> \in Seq(T)
      BY OneOrNone, Zenon
    <3>2. "experimental" \in T /\ "cut off" \in T /\ "none in view" \in T
      OBVIOUS
    <3> HIDE DEF extent, T
    <3>3. <<"experimental">> \in Seq(T) /\ <<"cut off">> \in Seq(T) /\ <<"none in view">> \in Seq(T) /\ <<>> \in Seq(T)
      BY <3>1, <3>2, Zenon
    <3>4. \A s, u \in Seq(T) : s \o u \in Seq(T)
      BY ConcatProperties, Zenon
    <3> QED
      BY <3>3, <3>4, Zenon
  <2> HIDE DEF extent, says
  <2>6. bundle # Unavailable
    <3>1. Unavailable \notin [features : Seq(SentGeometries \cup {None}), truncated : BOOLEAN, notes : Seq(T)]
      BY HazardAssumption, Zenon
    <3> HIDE DEF T
    <3> QED
      BY <2>1, <2>3, <2>4, <2>5, <3>1
  <2>7. bundle.features = extent.features /\ bundle.truncated = extent.truncated /\ bundle.notes = says
    BY <2>1
  <2> QED
    BY <1>3, <2>6, <2>7, Zenon DEF bundle, extent, served, says
<1> QED
  BY <1>2, <1>3

\* An extent that was cut off says so.
LEMMA CutIsNoted ==
  ASSUME NEW answer \in InundationAnswers, NEW before \in InundationAnswers, NEW box,
         FetchInundation(answer, HeldInundation(before), box) # Invalid,
         Served(before, answer) # None, WasCut(Served(before, answer)), NEW b
  PROVE  LET bundle == FetchInundation(answer, HeldInundation(before), box)
         IN bundle.truncated /\ "cut off" \in Range(bundle.notes) /\ "cut off" \in Range(bundle.notes \o Note(b, "below resolution"))
<1> DEFINE bundle == FetchInundation(answer, HeldInundation(before), box)
           extent == Inundation(Served(before, answer))
           T == {"experimental", "cut off", "below resolution"}
           one == <<"experimental">>
           two == <<"cut off">>
<1>1. extent.truncated
  BY DEF Inundation
<1>2. bundle.truncated /\ bundle.notes = one \o two
  BY <1>1, ServedIsFetched, Zenon
<1> HIDE DEF bundle
<1>3. one \in Seq(T) /\ two \in Seq(T) /\ Range(two) = {"cut off"}
  BY OneOrNone
<1> HIDE DEF one, two
<1>4. "below resolution" \in T
  OBVIOUS
<1> HIDE DEF T
<1>5. one \o two \in Seq(T) /\ "cut off" \in Range(one \o two)
  <2>1. one \o two \in Seq(T) /\ Range(one \o two) = Range(one) \cup Range(two)
    BY <1>3, RangeOfConcat, Zenon
  <2> QED
    BY <1>3, <2>1, Zenon
<1>6. "cut off" \in Range((one \o two) \o Note(b, "below resolution"))
  <2> DEFINE s == one \o two
             word == "below resolution"
  <2>1. s \in Seq(T) /\ word \in T
    BY <1>4, <1>5
  <2>2. "cut off" \in Range(s)
    BY <1>5
  <2> HIDE DEF s, word
  <2>3. Range(s) \subseteq Range(s \o Note(b, word))
    BY <2>1, WithNote
  <2>4. "cut off" \in Range(s \o Note(b, word))
    BY <2>2, <2>3, Zenon
  <2> QED
    BY <2>4 DEF s, word
<1> QED
  BY <1>2, <1>5, <1>6, Zenon DEF bundle

\* The figure of an inundation repeats what its extent says.
LEMMA WetNotes ==
  ASSUME NEW answer, NEW held, NEW box, NEW book,
         PostInundationExposure(answer, held, box, book) \notin {Invalid, Unavailable, Raises}
  PROVE  LET bundle == FetchInundation(answer, held, box)
             out == PostInundationExposure(answer, held, box, book)
         IN \E b : out.truncated = bundle.truncated /\ out.notes = bundle.notes \o Note(b, "below resolution")
<1> DEFINE bundle == FetchInundation(answer, held, box)
           out == PostInundationExposure(answer, held, box, book)
<1>1. PICK combined, below, reaches, currency, warnings :
        out = [combined |-> combined, belowResolution |-> below, truncated |-> bundle.truncated,
               reaches |-> reaches, currency |-> currency, warnings |-> warnings,
               notes |-> bundle.notes \o IF below THEN <<"below resolution">> ELSE <<>>]
  BY Zenon DEF PostInundationExposure
<1> HIDE DEF out, bundle
<1>2. out.truncated = bundle.truncated /\ out.notes = bundle.notes \o Note(below, "below resolution")
  BY <1>1 DEF Note
<1> QED
  BY <1>2 DEF out, bundle

\* Every answer of these endpoints tells its gaps.
LEMMA HazardStepsTell ==
  ASSUME HazardNext PROVE GapsAreTold'
<1> USE DEF GapsAreTold, HeatGapsAreTold, PerimeterGapsAreTold, AlertGapsAreTold, ExtentGapsAreTold
<1>1. ASSUME WildfireCall PROVE GapsAreTold'
  <2>1. PICK req, feeds, held, low, turns :
          /\ feeds \in FireFeeds
          /\ held = IF feeds.before = None THEN None
                    ELSE FetchActiveFires(feeds.hasKey, req.conf, req.minFrp, feeds.before, None).cache
          /\ call' = [op |-> "wildfire", req |-> req, feeds |-> feeds]
          /\ reply' = BuildWildfireBundle(req, feeds, [perimeters |-> KeptPerimeters(feeds.perimetersBefore), heat |-> held], turns, low)
    BY <1>1, Zenon DEF WildfireCall, KeptPerimeters
  <2> DEFINE kept == [perimeters |-> KeptPerimeters(feeds.perimetersBefore), heat |-> held]
             answer == IF Usable(feeds.perimetersBefore) THEN feeds.perimetersBefore ELSE feeds.perimeters
             perims == FetchPerimeters(feeds.perimeters, kept.perimeters)
             heat == FetchActiveFires(feeds.hasKey, req.conf, req.minFrp, feeds.answers, kept.heat)
  <2>2. call'.op = "wildfire" /\ call'.req = req /\ call'.feeds = feeds
    BY <2>1
  <2>3. perims.notes = PerimeterNotes(answer)
    <3>1. FetchPerimeters(feeds.perimetersBefore, None) # None
      BY <2>1, HazardAssumption, Zenon
    <3>2. kept.perimeters = KeptPerimeters(feeds.perimetersBefore)
      OBVIOUS
    <3> QED
      BY <3>1, <3>2, PerimetersNoted
  <2>4. perims.notes \in PerimeterWords
    BY <2>3 DEF PerimeterNotes, PerimeterWords
  <2>5. /\ req.heat => Range(heat.notes) \subseteq Range(reply'.notes)
        /\ req.perimeters => Range(perims.notes) \subseteq Range(reply'.notes)
    <3> DEFINE r == BuildWildfireBundle(req, feeds, kept, turns, low)
    <3>1. reply' = r
      BY <2>1
    <3> HIDE DEF kept
    <3>2. /\ req.heat => Range(heat.notes) \subseteq Range(r.notes)
          /\ req.perimeters => Range(perims.notes) \subseteq Range(r.notes)
      BY <2>4, FireNotes
    <3> QED
      BY <3>1, <3>2
  <2>6. HeatGapsAreTold'
    <3> SUFFICES ASSUME req.heat, ~Complete(feeds.answers), feeds.before = None \/ ~Complete(feeds.before)
                 PROVE  Range(reply'.notes) \cap {"heat disabled", "heat unavailable", "heat incomplete"} # {}
      BY <2>2 DEF Told
    <3>1. kept.heat = None
      BY <2>1 DEF FetchActiveFires, MayKeep
    <3>2. PICK x \in {"heat disabled", "heat unavailable", "heat incomplete"} : heat.notes = <<x>>
      BY <3>1 DEF FetchActiveFires
    <3>3. x \in Range(<<x>>)
      BY OneOrNone
    <3> HIDE DEF heat
    <3> QED
      BY <2>5, <3>2, <3>3
  <2>7. PerimeterGapsAreTold'
    <3> SUFFICES ASSUME req.perimeters
                 PROVE  /\ ~Usable(answer) => "perimeters unavailable" \in Range(reply'.notes)
                        /\ Usable(answer) /\ answer.exceeded => "perimeters truncated" \in Range(reply'.notes)
      BY <2>2 DEF Told, ServedPerimeters
    <3>1. \A x \in {"perimeters unavailable", "perimeters truncated"} : x \in Range(<<x>>)
      BY OneOrNone
    <3> HIDE DEF perims, answer
    <3> QED
      BY <2>3, <2>5, <3>1 DEF PerimeterNotes
  <2> QED
    BY <2>2, <2>6, <2>7 DEF IsReply, Of
<1>2. ASSUME FloodCall PROVE GapsAreTold'
  <2>1. PICK feed, before, held, raw, floor :
          /\ before = None => held = None
          /\ call' = [op |-> "flood", feed |-> feed, before |-> before]
          /\ reply' = GetActiveFlood(feed, held, raw, floor)
    BY <1>2, Zenon DEF FloodCall
  <2>2. SUFFICES ASSUME feed = None, before = None, reply' # Invalid
                 PROVE  "unreachable" \in Range(reply'.notes) /\ "none active" \notin Range(reply'.notes)
    BY <2>1 DEF IsReply, Of, Told
  <2> QED
    BY <2>1, <2>2, FloodGaps
<1>3. ASSUME InundationCall PROVE GapsAreTold'
  <2>1. PICK answer \in InundationAnswers, before \in InundationAnswers, raw \in Boxes :
          /\ call' = [op |-> "inundation", answer |-> answer, before |-> before]
          /\ reply' = GetFloodInundation(answer, HeldInundation(before), raw)
    BY <1>3, Zenon DEF InundationCall
  <2> DEFINE served == Served(before, answer)
             bundle == FetchInundation(answer, HeldInundation(before), ParseBbox(raw))
  <2>2. call'.op = "inundation" /\ ServedExtent' = served
    BY <2>1 DEF ServedExtent, Served
  <2>3. SUFFICES ASSUME reply' # Invalid
                 PROVE  /\ served = None => reply'.unavailable /\ "none in view" \notin Range(reply'.notes)
                        /\ served # None /\ WasCut(served) => reply'.truncated /\ "cut off" \in Range(reply'.notes)
    BY <2>2 DEF IsReply, Of, Told, WasCut
  <2>4. CASE served = None
    <3>1. answer = None /\ before = None /\ HeldInundation(before) = None
      BY <2>4 DEF Served, HeldInundation
    <3>2. reply' = GetFloodInundation(None, None, raw)
      BY <2>1, <3>1
    <3> QED
      BY <2>3, <2>4, <3>2, InundationGaps
  <2>5. CASE served # None
    <3>1. SUFFICES ASSUME WasCut(served) PROVE reply'.truncated /\ "cut off" \in Range(reply'.notes)
      BY <2>5
    <3>2. bundle # Invalid
      BY <2>1, <2>3 DEF GetFloodInundation
    <3>3. bundle # Unavailable
      BY <2>5, <3>2, ServedIsFetched
    <3>4. reply'.truncated = bundle.truncated /\ reply'.notes = bundle.notes
      BY <2>1, <2>3, <3>2, <3>3, Zenon DEF GetFloodInundation
    <3> HIDE DEF bundle
    <3>5. bundle.truncated /\ "cut off" \in Range(bundle.notes)
      BY <2>5, <3>1, <3>2, CutIsNoted DEF bundle
    <3> QED
      BY <3>4, <3>5, Zenon
  <2> QED
    BY <2>4, <2>5
<1>4. ASSUME InundationExposureCall PROVE GapsAreTold'
  <2>1. PICK answer \in InundationAnswers, before \in InundationAnswers, box \in Boxes, book \in LocationBooks :
          /\ call' = [op |-> "wet", answer |-> answer, before |-> before, book |-> book]
          /\ reply' = PostInundationExposure(answer, HeldInundation(before), box, book)
    BY <1>4, Zenon DEF InundationExposureCall
  <2> DEFINE served == Served(before, answer)
             bundle == FetchInundation(answer, HeldInundation(before), box)
  <2>2. call'.op = "wet" /\ ServedExtent' = served
    BY <2>1 DEF ServedExtent, Served
  <2>3. SUFFICES ASSUME reply' \notin {Invalid, Unavailable, Raises}, served # None, WasCut(served)
                 PROVE  reply'.truncated /\ "cut off" \in Range(reply'.notes)
    BY <2>2 DEF IsReply, Of, Told, WasCut
  <2>4. PICK b : reply'.truncated = bundle.truncated /\ reply'.notes = bundle.notes \o Note(b, "below resolution")
    <3> DEFINE held == HeldInundation(before)
               r == PostInundationExposure(answer, held, box, book)
    <3>1. reply' = r /\ r \notin {Invalid, Unavailable, Raises}
      BY <2>1, <2>3
    <3> HIDE DEF held
    <3>2. \E b : r.truncated = bundle.truncated /\ r.notes = bundle.notes \o Note(b, "below resolution")
      BY <3>1, WetNotes, Zenon DEF held
    <3> QED
      BY <3>1, <3>2, Zenon
  <2>5. bundle # Invalid
    BY <2>1, <2>3, Zenon DEF PostInundationExposure
  <2> HIDE DEF bundle
  <2>6. bundle.truncated /\ "cut off" \in Range(bundle.notes \o Note(b, "below resolution"))
    BY <2>3, <2>5, CutIsNoted DEF bundle
  <2> QED
    BY <2>4, <2>6, Zenon
<1>5. ASSUME HazardMapCall \/ PolygonExposureCall \/ BundleAlertsCall PROVE GapsAreTold'
  <2>1. call'.op \in {"hazard", "polygons", "alerts"}
    BY <1>5 DEF HazardMapCall, PolygonExposureCall, BundleAlertsCall
  <2> QED
    BY <2>1 DEF GapsAreTold, IsReply, Of
<1> QED
  BY <1>1, <1>2, <1>3, <1>4, <1>5 DEF HazardNext

(***************************************************************************)
(* The questions of the endpoints.                                         *)
(***************************************************************************)
\* Each group of endpoints answers its own questions.
StormOps == {"model_tracks", "ensemble_risk", "forecasts", "impact", "shapes", "replay", "gtwo"}
LossOps == {"hurricanes", "county_impact", "industry_loss", "backtest", "fit"}
FundOps == {"optimize", "custom", "rolling", "robustness"}
ViewOps == {"group", "map", "detail", "pivot", "export", "layers", "catalog"}
HazardOps == {"hazard", "polygons", "wildfire", "flood", "alerts", "inundation", "wet"}
LEMMA OwnQuestions ==
  /\ StormNext => call'.op \in StormOps
  /\ LossNext => call'.op \in LossOps
  /\ FundNext => call'.op \in FundOps
  /\ ViewNext => call'.op \in ViewOps
  /\ HazardNext => call'.op \in HazardOps
<1>1. ASSUME StormNext PROVE call'.op \in StormOps
  <2>1. CASE ModelTracksCall
    BY <2>1 DEF ModelTracksCall, StormOps
  <2>2. CASE EnsembleRiskCall
    BY <2>2 DEF EnsembleRiskCall, StormOps
  <2>3. CASE ForecastsCall
    BY <2>3 DEF ForecastsCall, StormOps
  <2>4. CASE ImpactCall
    <3>1. \E e, fixes, official : call' = [op |-> "impact", entry |-> e, fixes |-> fixes, official |-> official]
      BY <2>4, Zenon DEF ImpactCall
    <3> QED
      BY <3>1 DEF StormOps
  <2>5. CASE ShapesCall
    BY <2>5 DEF ShapesCall, StormOps
  <2>6. CASE ReplayCall
    BY <2>6 DEF ReplayCall, StormOps
  <2>7. CASE OutlookCall
    BY <2>7 DEF OutlookCall, StormOps
  <2> QED
    BY <1>1, <2>1, <2>2, <2>3, <2>4, <2>5, <2>6, <2>7 DEF StormNext
<1>2. ASSUME LossNext PROVE call'.op \in LossOps
  <2>1. CASE HurricanesCall
    BY <2>1 DEF HurricanesCall, LossOps
  <2>2. CASE CountyImpactCall
    BY <2>2 DEF CountyImpactCall, LossOps
  <2>3. CASE IndustryLossCall
    BY <2>3 DEF IndustryLossCall, LossOps
  <2>4. CASE BacktestCall
    BY <2>4 DEF BacktestCall, LossOps
  <2>5. CASE FitCall
    BY <2>5 DEF FitCall, LossOps
  <2> QED
    BY <1>2, <2>1, <2>2, <2>3, <2>4, <2>5 DEF LossNext
<1>3. ASSUME FundNext PROVE call'.op \in FundOps
  BY <1>3 DEF FundNext, OptimizeCall, CustomCall, RollingCall, RobustnessCall, FundOps
<1>4. ASSUME ViewNext PROVE call'.op \in ViewOps
  BY <1>4 DEF ViewNext, CreateGroupCall, MapCall, DetailCall, PivotCall, ExportCall, LayersCall, CatalogCall, ViewOps
<1>5. ASSUME HazardNext PROVE call'.op \in HazardOps
  <2>1. CASE HazardMapCall
    BY <2>1 DEF HazardMapCall, HazardOps
  <2>2. CASE PolygonExposureCall
    BY <2>2 DEF PolygonExposureCall, HazardOps
  <2>3. CASE WildfireCall
    <3>1. \E req, feeds : call' = [op |-> "wildfire", req |-> req, feeds |-> feeds]
      BY <2>3, Zenon DEF WildfireCall
    <3> QED
      BY <3>1 DEF HazardOps
  <2>4. CASE FloodCall
    <3>1. \E feed, before : call' = [op |-> "flood", feed |-> feed, before |-> before]
      BY <2>4, Zenon DEF FloodCall
    <3> QED
      BY <3>1 DEF HazardOps
  <2>5. CASE BundleAlertsCall
    BY <2>5 DEF BundleAlertsCall, HazardOps
  <2>6. CASE InundationCall
    BY <2>6 DEF InundationCall, HazardOps
  <2>7. CASE InundationExposureCall
    <3>1. \E answer, before, book : call' = [op |-> "wet", answer |-> answer, before |-> before, book |-> book]
      BY <2>7, Zenon DEF InundationExposureCall
    <3> QED
      BY <3>1 DEF HazardOps
  <2> QED
    BY <1>5, <2>1, <2>2, <2>3, <2>4, <2>5, <2>6, <2>7 DEF HazardNext
<1> QED
  BY <1>1, <1>2, <1>3, <1>4, <1>5

\* What the hazard endpoints are asked, the others are not.
LEMMA OtherOps ==
  ASSUME StormNext \/ LossNext \/ FundNext \/ ViewNext
  PROVE  call'.op \notin HazardOps
BY OwnQuestions DEF StormOps, LossOps, FundOps, ViewOps, HazardOps

(* What could not be read in full is said in the answer, whatever the      *)
(* feeds answer, the request asks and an earlier call left in the cache.   *)
THEOREM GapsAlwaysTold == Spec => []GapsAreTold
<1>1. Init => GapsAreTold
  BY DEF Init, GapsAreTold, HeatGapsAreTold, PerimeterGapsAreTold, AlertGapsAreTold, ExtentGapsAreTold, IsReply, Of
<1>2. GapsAreTold /\ [Next]_vars => GapsAreTold'
  <2> SUFFICES ASSUME GapsAreTold, [Next]_vars PROVE GapsAreTold'
    OBVIOUS
  <2>1. CASE HazardNext
    BY <2>1, HazardStepsTell
  <2>2. CASE StormNext \/ LossNext \/ FundNext \/ ViewNext
    BY <2>2, OtherOps DEF HazardOps, GapsAreTold, HeatGapsAreTold, PerimeterGapsAreTold, AlertGapsAreTold, ExtentGapsAreTold,
           IsReply, Of
  <2>3. CASE Answered
    BY <2>3 DEF Answered, GapsAreTold, HeatGapsAreTold, PerimeterGapsAreTold, AlertGapsAreTold, ExtentGapsAreTold,
           IsReply, Of
  <2>4. CASE UNCHANGED vars
    BY <2>4 DEF vars, GapsAreTold, HeatGapsAreTold, PerimeterGapsAreTold, AlertGapsAreTold, ExtentGapsAreTold,
           ServedExtent, ServedPerimeters, IsReply, Of, Told
  <2> QED
    BY <2>1, <2>2, <2>3, <2>4 DEF Next
<1> QED
  BY <1>1, <1>2, PTL DEF Spec
(***************************************************************************)
(* Where a polygon can have a location inside. The index and the box are   *)
(* sound because of the even-odd rule: a ray that starts west of a whole   *)
(* ring crosses it as often into it as out of it.                          *)
(***************************************************************************)
\* Multiplying an inequality by a number above zero.
LEMMA TimesStrictly ==
  ASSUME NEW a \in Int, NEW b \in Int, a < b, NEW t \in Nat \ {0}
  PROVE  a * t < b * t
OBVIOUS

\* An edge is crossed only by a ray that starts at its height and not east of
\* both its ends, and by every one that starts west of both.
LEMMA CrossedEdge ==
  ASSUME NEW p \in Int \X Int, NEW a \in Int \X Int, NEW b \in Int \X Int
  PROVE  /\ Crosses(p, a, b) => /\ (a[2] > p[2]) # (b[2] > p[2])
                                /\ ~ (a[1] < p[1] /\ b[1] < p[1])
         /\ (a[2] > p[2]) # (b[2] > p[2]) /\ p[1] < a[1] /\ p[1] < b[1] => Crosses(p, a, b)
<1> DEFINE x == p[1] - a[1]
           w == b[1] - a[1]
           d == b[2] - a[2]
           t == p[2] - a[2]
<1>0. x \in Int /\ w \in Int /\ d \in Int /\ t \in Int
  OBVIOUS
<1>1. Crosses(p, a, b) <=> (a[2] > p[2]) # (b[2] > p[2]) /\ IF b[2] > a[2] THEN x * d < w * t ELSE x * d > w * t
  BY DEF Crosses
<1>2. (p[1] < a[1] <=> x < 0) /\ (p[1] < b[1] <=> x < w) /\ (a[1] < p[1] <=> 0 < x) /\ (b[1] < p[1] <=> w < x)
  OBVIOUS
<1>3. b[2] > a[2] /\ (a[2] > p[2]) # (b[2] > p[2]) => 0 <= t /\ t < d
  OBVIOUS
<1>4. ~ (b[2] > a[2]) /\ (a[2] > p[2]) # (b[2] > p[2]) => d <= t /\ t < 0
  OBVIOUS
<1> HIDE DEF x, w, d, t
<1>5. ASSUME 0 <= t, t < d
      PROVE  (x < 0 /\ x < w => x * d < w * t) /\ (0 < x /\ w < x => ~ (x * d < w * t))
  <2>1. ASSUME x < 0, x < w PROVE x * d < w * t
    <3>1. x * t <= w * t
      BY <1>0, <1>5, <2>1, Times
    <3>2. (-x) * t < (-x) * d
      BY <1>0, <1>5, <2>1
    <3> QED
      BY <1>0, <3>1, <3>2
  <2>2. ASSUME 0 < x, w < x PROVE ~ (x * d < w * t)
    <3>1. w * t <= x * t
      BY <1>0, <1>5, <2>2, Times
    <3>2. x * t < x * d
      BY <1>0, <1>5, <2>2
    <3> QED
      BY <1>0, <3>1, <3>2
  <2> QED
    BY <2>1, <2>2
<1>6. ASSUME d <= t, t < 0
      PROVE  (x < 0 /\ x < w => x * d > w * t) /\ (0 < x /\ w < x => ~ (x * d > w * t))
  <2>1. ASSUME x < 0, x < w PROVE x * d > w * t
    <3>1. x * (-t) < w * (-t)
      BY <1>0, <1>6, <2>1
    <3>2. (-x) * (-t) <= (-x) * (-d)
      BY <1>0, <1>6, <2>1
    <3> QED
      BY <1>0, <3>1, <3>2
  <2>2. ASSUME 0 < x, w < x PROVE ~ (x * d > w * t)
    <3>1. w * (-t) < x * (-t)
      BY <1>0, <1>6, <2>2
    <3>2. x * (-t) <= x * (-d)
      BY <1>0, <1>6, <2>2
    <3> QED
      BY <1>0, <3>1, <3>2
  <2> QED
    BY <2>1, <2>2
<1> QED
  BY <1>1, <1>2, <1>3, <1>4, <1>5, <1>6

\* Going round a ring one leaves a set as often as one enters it.
LEMMA EvenlyOften ==
  ASSUME NEW n \in Nat, NEW A
  PROVE  Cardinality({i \in 1..n : (i \in A) # ((IF i = 1 THEN n ELSE i - 1) \in A)}) % 2 = 0
<1> DEFINE D(k) == {i \in 2..k : (i \in A) # (i - 1 \in A)}
           Even(k) == Cardinality(D(k)) % 2 = 0
           C == {i \in 1..n : (i \in A) # ((IF i = 1 THEN n ELSE i - 1) \in A)}
           P == {k \in Nat : Even(k + 1) <=> ((k + 1 \in A) <=> (1 \in A))}
<1>1. \A k \in Nat : IsFiniteSet(D(k)) /\ Cardinality(D(k)) \in Nat
  <2> SUFFICES ASSUME NEW k \in Nat PROVE IsFiniteSet(D(k)) /\ Cardinality(D(k)) \in Nat
    OBVIOUS
  <2>1. IsFiniteSet(2..k)
    BY FS_Interval
  <2>2. IsFiniteSet(D(k))
    BY <2>1, FS_Subset
  <2> QED
    BY <2>2, FS_CardinalityType
<1>2. 0 \in P
  <2>1. D(1) = {}
    OBVIOUS
  <2>2. Cardinality(D(1)) = 0
    BY <2>1, FS_EmptySet
  <2> QED
    BY <2>2
<1>3. ASSUME NEW k \in Nat, k \in P PROVE k + 1 \in P
  <2>1. CASE (k + 2 \in A) <=> (k + 1 \in A)
    <3>1. D(k + 2) = D(k + 1)
      BY <2>1
    <3>2. Even(k + 2) <=> Even(k + 1)
      BY <3>1
    <3>3. Even(k + 2) <=> ((k + 2 \in A) <=> (1 \in A))
      <4> HIDE DEF Even
      <4> QED
        BY <1>3, <2>1, <3>2
    <3> HIDE DEF Even
    <3>4. (k + 1) + 1 = k + 2
      OBVIOUS
    <3> QED
      BY <3>3, <3>4
  <2>2. CASE ~ ((k + 2 \in A) <=> (k + 1 \in A))
    <3>1. D(k + 2) = D(k + 1) \cup {k + 2} /\ k + 2 \notin D(k + 1)
      BY <2>2
    <3>2. IsFiniteSet(D(k + 1)) /\ Cardinality(D(k + 1)) \in Nat
      BY <1>1
    <3> HIDE DEF D
    <3>3. Cardinality(D(k + 2)) = Cardinality(D(k + 1)) + 1
      BY <3>1, <3>2, FS_AddElement
    <3>4. Even(k + 2) <=> ~ Even(k + 1)
      BY <3>2, <3>3
    <3> QED
      BY <1>3, <2>2, <3>4
  <2> QED
    BY <2>1, <2>2
<1>4. \A k \in Nat : k \in P
  <2> HIDE DEF P
  <2> QED
    BY <1>2, <1>3, InductionOnNat
<1>5. CASE n = 0
  <2>1. C = {}
    BY <1>5
  <2> QED
    BY <2>1, FS_EmptySet
<1>6. CASE n # 0
  <2>1. n - 1 \in Nat /\ (n - 1) + 1 = n
    BY <1>6
  <2>2. Even(n) <=> ((n \in A) <=> (1 \in A))
    <3>1. n - 1 \in P
      BY <1>4, <2>1
    <3> QED
      BY <2>1, <3>1
  <2>3. CASE (n \in A) <=> (1 \in A)
    <3>1. C = D(n)
      BY <1>6, <2>3
    <3> QED
      BY <2>2, <2>3, <3>1
  <2>4. CASE ~ ((n \in A) <=> (1 \in A))
    <3>1. C = D(n) \cup {1} /\ 1 \notin D(n)
      BY <1>6, <2>4
    <3>2. IsFiniteSet(D(n)) /\ Cardinality(D(n)) \in Nat
      BY <1>1
    <3> HIDE DEF D, C
    <3>3. Cardinality(C) = Cardinality(D(n)) + 1
      BY <3>1, <3>2, FS_AddElement
    <3>4. Cardinality(C) % 2 = 0
      BY <2>2, <2>4, <3>2, <3>3
    <3> QED
      BY <3>4 DEF C
  <2> QED
    BY <2>3, <2>4
<1> QED
  BY <1>5, <1>6

\* A ring's corners have what it holds between them, east and west and north
\* and south.
LEMMA RingsBox ==
  ASSUME NEW ring \in Seq(Int \X Int), NEW p \in Int \X Int, RingContains(p, ring), NEW i \in 1..2
  PROVE  (\E q \in Range(ring) : q[i] <= p[i]) /\ (\E q \in Range(ring) : p[i] <= q[i])
<1> DEFINE n == Len(ring)
           Before(k) == IF k = 1 THEN n ELSE k - 1
           C == {k \in 1..n : Crosses(p, ring[k], ring[Before(k)])}
           A == {k \in 1..n : ring[k][2] > p[2]}
           E == {k \in 1..n : (k \in A) # (Before(k) \in A)}
<1>1. n \in Nat /\ DOMAIN ring = 1..n /\ Range(ring) = {ring[k] : k \in 1..n} /\ Range(ring) \subseteq Int \X Int
  BY RangeInType
<1>2. Cardinality(C) % 2 = 1
  BY <1>1 DEF RingContains
<1>3. Cardinality(E) % 2 = 0
  <2> HIDE DEF A
  <2> QED
    BY <1>1, EvenlyOften
<1>4. \A k \in 1..n : ring[k] \in Int \X Int /\ ring[k] \in Range(ring)
  BY <1>1
<1>5. \A k \in 1..n : Before(k) \in 1..n
  BY <1>1
<1> HIDE DEF n, Before
<1>6. C # {}
  <2>1. C = {} => Cardinality(C) = 0
    BY FS_EmptySet
  <2> HIDE DEF C
  <2> QED
    BY <1>2, <2>1
<1>7. PICK k \in 1..n : Crosses(p, ring[k], ring[Before(k)])
  BY <1>6
<1> DEFINE a == ring[k]
           b == ring[Before(k)]
<1>8. a \in Range(ring) /\ b \in Range(ring) /\ a \in Int \X Int /\ b \in Int \X Int /\ Crosses(p, a, b)
  BY <1>4, <1>5, <1>7
<1> HIDE DEF a, b
<1>9. (a[2] > p[2]) # (b[2] > p[2]) /\ ~ (a[1] < p[1] /\ b[1] < p[1])
  BY <1>8, CrossedEdge
<1>10. CASE i = 2
  <2>1. a[2] \in Int /\ b[2] \in Int /\ p[2] \in Int
    BY <1>8
  <2>2. (a[2] <= p[2] /\ p[2] <= b[2]) \/ (b[2] <= p[2] /\ p[2] <= a[2])
    BY <1>9, <2>1
  <2> QED
    BY <1>8, <1>10, <2>2
<1>11. CASE i = 1
  <2>1. a[1] \in Int /\ b[1] \in Int /\ p[1] \in Int
    BY <1>8
  <2>2. p[1] <= a[1] \/ p[1] <= b[1]
    BY <1>9, <2>1
  <2>3. ASSUME \A q \in Range(ring) : ~ (q[1] <= p[1]) PROVE FALSE
    <3>1. \A m \in 1..n : ring[m][1] \in Int /\ p[1] < ring[m][1]
      BY <1>4, <2>1, <2>3
    <3>2. ASSUME NEW m \in 1..n PROVE m \in C <=> m \in E
      <4>1. /\ ring[m] \in Int \X Int /\ ring[Before(m)] \in Int \X Int
            /\ p[1] < ring[m][1] /\ p[1] < ring[Before(m)][1] /\ Before(m) \in 1..n
        BY <1>4, <1>5, <3>1
      <4>2. Crosses(p, ring[m], ring[Before(m)]) <=> (ring[m][2] > p[2]) # (ring[Before(m)][2] > p[2])
        BY <4>1, CrossedEdge
      <4>3. (m \in A <=> ring[m][2] > p[2]) /\ (Before(m) \in A <=> ring[Before(m)][2] > p[2])
        BY <4>1
      <4> HIDE DEF A
      <4> QED
        BY <4>2, <4>3
    <3>3. C = E
      <4>1. C \subseteq 1..n /\ E \subseteq 1..n
        OBVIOUS
      <4> HIDE DEF C, E
      <4> QED
        BY <3>2, <4>1
    <3> HIDE DEF C, E
    <3> QED
      BY <1>2, <1>3, <3>3
  <2> QED
    BY <1>8, <1>11, <2>2, <2>3
<1> QED
  BY <1>10, <1>11

\* A polygon that has been read: its corners are positions.
Drawn == [kind : Areal, parts : Seq(Seq(Seq(Int \X Int)))]

\* The corners of a polygon are finitely many, and those of its rings.
LEMMA Corners ==
  ASSUME NEW g \in Drawn
  PROVE  /\ IsFiniteSet(Positions(g)) /\ Positions(g) \subseteq Int \X Int
         /\ \A part \in Range(g.parts) : part \in Seq(Seq(Int \X Int))
                /\ \A r \in DOMAIN part : part[r] \in Seq(Int \X Int) /\ Range(part[r]) \subseteq Positions(g)
<1> DEFINE P == Int \X Int
           rings == RingsOf(g)
<1> HIDE DEF P
<1>1. g.parts \in Seq(Seq(Seq(P)))
  BY DEF Drawn, P
<1>2. rings \in Seq(Seq(P)) /\ Range(rings) = {x \in Seq(P) : \E i \in DOMAIN g.parts : x \in Range(g.parts[i])}
  BY <1>1, FlattenedRange DEF RingsOf
<1>3. Range(g.parts) \subseteq Seq(Seq(P)) /\ Range(g.parts) = {g.parts[i] : i \in DOMAIN g.parts}
  BY <1>1, RangeInType
<1>4. IsFiniteSet(Range(rings)) /\ Range(rings) \subseteq Seq(P)
  BY <1>2, FiniteRange
<1>5. \A ring \in Range(rings) : IsFiniteSet(Range(ring)) /\ Range(ring) \subseteq P
  BY <1>4, FiniteRange, RangeInType
<1> HIDE DEF rings
<1> DEFINE T == {Range(ring) : ring \in Range(rings)}
<1>6. IsFiniteSet(T)
  <2> DEFINE f == [ring \in Range(rings) |-> Range(ring)]
  <2>1. T = {f[ring] : ring \in Range(rings)}
    BY Zenon
  <2> HIDE DEF f, T
  <2> QED
    BY <1>4, <2>1, FiniteImage
<1>7. \A X \in T : IsFiniteSet(X)
  BY <1>5
<1>8. IsFiniteSet(UNION T) /\ UNION T \subseteq P
  <2>1. UNION T \subseteq P
    BY <1>5
  <2> HIDE DEF T
  <2> QED
    BY <1>6, <1>7, <2>1, FS_UNION
<1>9. Positions(g) = UNION T
  BY DEF Positions, rings
<1>10. ASSUME NEW part \in Range(g.parts)
       PROVE  part \in Seq(Seq(P)) /\ \A r \in DOMAIN part : part[r] \in Seq(P) /\ Range(part[r]) \subseteq Positions(g)
  <2>1. part \in Seq(Seq(P))
    BY <1>3
  <2>2. ASSUME NEW r \in DOMAIN part PROVE part[r] \in Seq(P) /\ part[r] \in Range(part)
    <3> DEFINE n == Len(part)
    <3>1. Range(part) \subseteq Seq(P) /\ Range(part) = {part[i] : i \in 1..n} /\ DOMAIN part = 1..n
      BY <2>1, RangeInType
    <3> HIDE DEF n
    <3>2. part[r] \in {part[i] : i \in 1..n}
      BY <3>1
    <3> QED
      BY <3>1, <3>2
  <2>3. \A r \in DOMAIN part : part[r] \in Range(rings)
    BY <1>2, <1>3, <2>2
  <2> QED
    BY <1>9, <2>1, <2>2, <2>3
<1> QED
  BY <1>8, <1>9, <1>10 DEF P

\* The cells of the index are in the order of the coordinates they hold.
LEMMA CellsInOrder ==
  ASSUME NEW a \in Int, NEW b \in Int, a <= b
  PROVE  CellAt(a) <= CellAt(b)
<1> DEFINE s == IndexStep
<1>1. s \in Nat \ {0}
  BY PolygonsAssumption
<1> HIDE DEF s
<1> DEFINE m == a \div s
           n == b \div s
<1>2. m \in Int /\ n \in Int /\ m * s <= a /\ b < (n + 1) * s
  BY <1>1
<1> HIDE DEF m, n
<1>3. m * s < (n + 1) * s
  BY <1>1, <1>2
<1>4. m < n + 1
  <2>1. n + 1 <= m => (n + 1) * s <= m * s
    BY <1>1, <1>2
  <2>2. (n + 1) * s \in Int /\ m * s \in Int
    BY <1>1, <1>2
  <2> QED
    BY <1>2, <1>3, <2>1, <2>2
<1> QED
  BY <1>2, <1>4 DEF CellAt, s, m, n

\* Neither the index nor the box leaves out a location that is inside.
LEMMA NoneLeftOut ==
  ASSUME NEW ls, NEW l \in DOMAIN ls.locations, ls.locations[l].at \in Int \X Int,
         NEW g \in Drawn, PointInGeometry(ls.locations[l].at, g)
  PROVE  l \in Candidates(ls, g)
<1> DEFINE p == ls.locations[l].at
<1>1. p \in Int \X Int /\ PointInGeometry(p, g)
  OBVIOUS
<1>2. PICK part \in Range(g.parts) : PolygonContains(p, part)
  BY <1>1 DEF PointInGeometry
<1> HIDE DEF p
<1> DEFINE ring == part[1]
<1>3. RingContains(p, ring) /\ part # <<>>
  BY <1>2 DEF PolygonContains
<1>4. ring \in Seq(Int \X Int) /\ Range(ring) \subseteq Positions(g)
  <2>1. part \in Seq(Seq(Int \X Int)) /\ \A r \in DOMAIN part : part[r] \in Seq(Int \X Int) /\ Range(part[r]) \subseteq Positions(g)
    BY Corners
  <2>2. 1 \in DOMAIN part
    <3> DEFINE S == Seq(Int \X Int)
    <3>1. part \in Seq(S)
      BY <2>1
    <3> HIDE DEF S
    <3> QED
      BY <1>3, <3>1, EmptySeq, LenProperties
  <2> QED
    BY <2>1, <2>2
<1> HIDE DEF ring
<1>5. IsFiniteSet(Positions(g)) /\ Positions(g) \subseteq Int \X Int
  BY Corners
<1>6. ASSUME NEW i \in 1..2
      PROVE  LET span == Bounds(g, i) IN UnderBox(p[i], span) /\ span[1] <= p[i] /\ p[i] <= span[2]
  <2> DEFINE c == {q[i] : q \in Positions(g)}
             low == Min(c)
             high == Max(c)
  <2>1. (\E q \in Range(ring) : q[i] <= p[i]) /\ (\E q \in Range(ring) : p[i] <= q[i])
    BY <1>1, <1>3, <1>4, RingsBox
  <2>2. (\E q \in Positions(g) : q[i] <= p[i]) /\ (\E q \in Positions(g) : p[i] <= q[i])
    BY <1>4, <2>1
  <2>3. (\E x \in c : x <= p[i]) /\ (\E x \in c : p[i] <= x)
    BY <2>2
  <2>4. c \in SUBSET Int /\ IsFiniteSet(c) /\ c # {}
    <3>1. c \in SUBSET Int
      BY <1>5
    <3>2. IsFiniteSet(c)
      <4> DEFINE f == [q \in Positions(g) |-> q[i]]
      <4>1. c = {f[q] : q \in Positions(g)}
        BY Zenon
      <4> HIDE DEF f, c
      <4> QED
        BY <1>5, <4>1, FiniteImage
    <3> QED
      BY <2>3, <3>1, <3>2
  <2>5. p[i] \in Int
    BY <1>1
  <2>6. Bounds(g, i)[1] = low /\ Bounds(g, i)[2] = high
    BY DEF Bounds
  <2> HIDE DEF c
  <2>7. low \in Int /\ high \in Int /\ (\A x \in c : low <= x) /\ (\A x \in c : x <= high)
    BY <2>4, MinOfFinite, MaxOfFinite
  <2> HIDE DEF low, high
  <2>8. low <= p[i] /\ p[i] <= high
    <3>1. PICK x \in c : x <= p[i]
      BY <2>3
    <3>2. PICK y \in c : p[i] <= y
      BY <2>3
    <3>3. x \in Int /\ y \in Int /\ low <= x /\ y <= high
      BY <2>4, <2>7
    <3> QED
      BY <2>5, <2>7, <3>1, <3>2, <3>3
  <2>9. CellAt(low) <= CellAt(p[i]) /\ CellAt(p[i]) <= CellAt(high)
    BY <2>5, <2>7, <2>8, CellsInOrder
  <2>10. CellAt(low) \in Int /\ CellAt(high) \in Int /\ CellAt(p[i]) \in Int
    BY <2>5, <2>7, PolygonsAssumption DEF CellAt
  <2> QED
    BY <2>6, <2>8, <2>9, <2>10 DEF UnderBox
<1>7. Positions(g) # {}
  BY <1>1, <1>3, <1>4, RingsBox
<1> QED
  BY <1>6, <1>7 DEF Candidates, p

\* What is cast in a polygon is what is in it.
LEMMA CastIsInside ==
  ASSUME NEW ls, \A l \in DOMAIN ls.locations : ls.locations[l].at \in Int \X Int, NEW g \in Drawn
  PROVE  Cast(ls, g) = {l \in DOMAIN ls.locations : PointInGeometry(ls.locations[l].at, g)}
<1>1. Candidates(ls, g) \subseteq DOMAIN ls.locations
  BY Zenon DEF Candidates
<1>2. \A l \in DOMAIN ls.locations : PointInGeometry(ls.locations[l].at, g) => l \in Candidates(ls, g)
  BY NoneLeftOut
<1> QED
  BY <1>1, <1>2 DEF Cast

(***************************************************************************)
(* What counts in the figures of polygons.                                 *)
(***************************************************************************)
\* A geometry whose corners can all be read is a polygon.
LEMMA ReadInFull ==
  ASSUME NEW g \in SentGeometries, g.kind \in Areal,
         \A part \in Range(g.parts) : \A ring \in Range(part) : None \notin Range(ring)
  PROVE  g \in Drawn
<1> DEFINE P == Int \X Int
           Q == P \cup {None}
<1>1. g.parts \in Seq(Seq(Seq(Q))) /\ g = [kind |-> g.kind, parts |-> g.parts]
  BY DEF SentGeometries
<1> HIDE DEF P
<1>2. \A part \in Range(g.parts) : part \in Seq(Seq(Q))
  <2> HIDE DEF Q
  <2> QED
    BY <1>1, RangeInType
<1>3. \A part \in Range(g.parts) : part \in Seq(Seq(P))
  <2> SUFFICES ASSUME NEW part \in Range(g.parts) PROVE part \in Seq(Seq(P))
    OBVIOUS
  <2>1. part \in Seq(Seq(Q))
    BY <1>2
  <2>2. \A ring \in Range(part) : ring \in Seq(Q)
    <3> HIDE DEF Q
    <3> QED
      BY <2>1, RangeInType
  <2>3. \A ring \in Range(part) : Range(ring) \subseteq Q
    <3> HIDE DEF Q
    <3> QED
      BY <2>2, RangeInType
  <2>4. \A ring \in Range(part) : Range(ring) \subseteq P
    BY <2>3
  <2>5. \A ring \in Range(part) : ring \in Seq(P)
    <3> HIDE DEF Q
    <3> QED
      BY <2>2, <2>4, NarrowSequence
  <2>6. Range(part) \subseteq Seq(P)
    BY <2>5
  <2> HIDE DEF Q
  <2> QED
    BY <2>1, <2>6, NarrowSequence
<1>4. g.parts \in Seq(Seq(Seq(P)))
  <2>1. Range(g.parts) \subseteq Seq(Seq(P))
    BY <1>3
  <2> HIDE DEF Q
  <2> QED
    BY <1>1, <2>1, NarrowSequence
<1> QED
  BY <1>1, <1>4 DEF Drawn, P

\* What a request's validation lets through.
LEMMA AcceptableIsDrawn ==
  ASSUME NEW g \in SentGeometries, Acceptable(g)
  PROVE  g \in Drawn
<1> DEFINE Q == (Int \X Int) \cup {None}
<1>1. g.parts \in Seq(Seq(Seq(Q)))
  BY DEF SentGeometries
<1> HIDE DEF Q
<1>2. Range(RingsOf(g)) = {x \in Seq(Q) : \E i \in DOMAIN g.parts : x \in Range(g.parts[i])}
  BY <1>1, FlattenedRange DEF RingsOf
<1>3. \A part \in Range(g.parts) : \A ring \in Range(part) : ring \in Range(RingsOf(g))
  <2>1. \A part \in Range(g.parts) : part \in Seq(Seq(Q)) /\ \E i \in DOMAIN g.parts : part = g.parts[i]
    <3>1. Range(g.parts) \subseteq Seq(Seq(Q))
      BY <1>1, RangeInType
    <3> QED
      BY <3>1 DEF Range
  <2>2. \A part \in Range(g.parts) : Range(part) \subseteq Seq(Q)
    BY <2>1, RangeInType
  <2> QED
    BY <1>2, <2>1, <2>2
<1>4. g.kind \in Areal /\ \A ring \in Range(RingsOf(g)) : None \notin Range(ring)
  BY DEF Acceptable
<1> QED
  BY <1>3, <1>4, ReadInFull

\* A polygon is a geometry, and not the absence of one.
LEMMA DrawnIsThere ==
  ASSUME NEW g \in Drawn
  PROVE  g \in SentGeometries /\ g # None
<1> DEFINE P == Int \X Int
           Q == P \cup {None}
<1>1. g.parts \in Seq(Seq(Seq(P))) /\ g = [kind |-> g.kind, parts |-> g.parts] /\ g.kind \in Areal
  BY DEF Drawn
<1>2. P \subseteq Q
  OBVIOUS
<1> HIDE DEF P, Q
<1>3. \A s \in Seq(P) : s \in Seq(Q)
  <2>1. \A s \in Seq(P) : Range(s) \subseteq Q
    BY <1>2, RangeInType
  <2> QED
    BY <2>1, NarrowSequence
<1>4. \A s \in Seq(Seq(P)) : s \in Seq(Seq(Q))
  <2>1. \A s \in Seq(Seq(P)) : Range(s) \subseteq Seq(Q)
    BY <1>3, RangeInType
  <2> QED
    BY <2>1, NarrowSequence
<1>5. g.parts \in Seq(Seq(Seq(Q)))
  <2>1. Range(g.parts) \subseteq Seq(Seq(Q))
    BY <1>1, <1>4, RangeInType
  <2> QED
    BY <1>1, <2>1, NarrowSequence
<1>6. g \in SentGeometries
  BY <1>1, <1>5 DEF SentGeometries, P, Q
<1> QED
  BY <1>6, HazardAssumption

\* What a dissolve of polygons has inside is what some of them has.
LEMMA DissolvedInside ==
  ASSUME NEW gs \in Seq(Drawn)
  PROVE  IF Dissolve(gs) = None THEN \A p : ~ \E g \in Range(gs) : PointInGeometry(p, g)
         ELSE /\ Dissolve(gs) \in Drawn
              /\ \A p : PointInGeometry(p, Dissolve(gs)) <=> \E g \in Range(gs) : PointInGeometry(p, g)
<1> DEFINE P == Int \X Int
           ps == [i \in DOMAIN gs |-> gs[i].parts]
           parts == FlattenSeq(ps)
<1>1. DOMAIN gs = 1..Len(gs) /\ Len(gs) \in Nat /\ Range(gs) = {gs[i] : i \in 1..Len(gs)} /\ Range(gs) \subseteq Drawn
  BY RangeInType
<1>2. \A i \in 1..Len(gs) : gs[i] \in Drawn
  BY <1>1
<1> HIDE DEF P
<1>3. ps \in Seq(Seq(Seq(Seq(P)))) /\ DOMAIN ps = 1..Len(gs) /\ \A i \in 1..Len(gs) : ps[i] = gs[i].parts
  <2> DEFINE n == Len(gs)
             T == Seq(Seq(Seq(P)))
  <2>1. \A i \in 1..n : gs[i].parts \in T
    BY <1>2 DEF Drawn, P
  <2>2. n \in Nat /\ DOMAIN gs = 1..n
    BY <1>1
  <2> HIDE DEF n, T
  <2>3. ps \in [1..n -> T]
    BY <2>1, <2>2
  <2>4. ps \in Seq(T) /\ DOMAIN ps = 1..n /\ \A i \in 1..n : ps[i] = gs[i].parts
    BY <2>2, <2>3
  <2> QED
    BY <2>4 DEF n, T
<1> HIDE DEF ps
<1>4. /\ parts \in Seq(Seq(Seq(P)))
      /\ Range(parts) = {x \in Seq(Seq(P)) : \E i \in 1..Len(gs) : x \in Range(ps[i])}
  <2>1. ps \in Seq(Seq(Seq(Seq(P))))
    BY <1>3
  <2>2. /\ parts \in Seq(Seq(Seq(P)))
        /\ Range(parts) = {x \in Seq(Seq(P)) : \E i \in DOMAIN ps : x \in Range(ps[i])}
    BY <2>1, FlattenedRange
  <2> HIDE DEF parts
  <2> QED
    BY <1>3, <2>2
<1>5. \A i \in 1..Len(gs) : Range(gs[i].parts) \subseteq Seq(Seq(P))
  <2>1. \A i \in 1..Len(gs) : gs[i].parts \in Seq(Seq(Seq(P)))
    BY <1>2 DEF Drawn, P
  <2> QED
    BY <2>1, RangeInType
<1> HIDE DEF parts
<1>6. \A x : x \in Range(parts) <=> \E g \in Range(gs) : x \in Range(g.parts)
  BY <1>1, <1>3, <1>4, <1>5
<1>7. \A g \in Range(gs) : g.kind \in Areal
  BY <1>1 DEF Drawn
<1>8. Dissolve(gs) = IF parts = <<>> THEN None ELSE [kind |-> "MultiPolygon", parts |-> parts]
  BY DEF Dissolve, parts, ps
<1> DEFINE d == [kind |-> "MultiPolygon", parts |-> parts]
<1>9. d \in Drawn
  BY <1>4 DEF Drawn, Areal, P
<1>10. \A p : PointInGeometry(p, d) <=> \E g \in Range(gs) : PointInGeometry(p, g)
  <2>1. d.kind \in Areal /\ d.parts = parts
    BY DEF Areal
  <2> HIDE DEF d
  <2> QED
    BY <1>6, <1>7, <2>1 DEF PointInGeometry
<1>11. parts = <<>> => \A p : ~ \E g \in Range(gs) : PointInGeometry(p, g)
  <2>1. DOMAIN <<>> = {}
    <3>1. <<>> \in Seq({}) /\ Len(<<>>) = 0
      BY EmptySeq
    <3>2. DOMAIN <<>> = 1..0
      BY <3>1, LenProperties
    <3> QED
      BY <3>2
  <2>2. Range(<<>>) = {}
    BY <2>1, Zenon DEF Range
  <2>3. parts = <<>> => Range(parts) = {}
    BY <2>2, Zenon
  <2> QED
    BY <1>6, <2>3 DEF PointInGeometry
<1> HIDE DEF d
<1>12. d # None
  BY <1>9, DrawnIsThere
<1> QED
  BY <1>8, <1>9, <1>10, <1>11, <1>12 DEF d

\* The locations of a book are on the map.
LEMMA LocationsOnMap ==
  ASSUME NEW book \in LocationBooks, book.datasets # None
  PROVE  \A l \in DOMAIN LoadLocations(book).locations : LoadLocations(book).locations[l].at \in Int \X Int
<1> DEFINE included == {d \in book.datasets : d.included}
           read == {d \in included : d.id \in DOMAIN book.facts}
           rows == UNION {{[d |-> d, r |-> r] : r \in {q \in book.facts[d.id] : UsableRow(q)}} : d \in read}
           insured == {<<x.d.client, x.r.county>> : x \in rows}
           ls == LoadLocations(book).locations
<1>1. \A k \in insured : k[2] \in DOMAIN Scatter /\ \E d \in book.datasets : k[1] = d.client
  <2>1. \A x \in rows : x.d \in book.datasets /\ UsableRow(x.r)
    OBVIOUS
  <2>2. \A x \in rows : x.r.county \in DOMAIN Scatter
    BY <2>1 DEF UsableRow
  <2> HIDE DEF rows
  <2> QED
    BY <2>1, <2>2
<1>2. \A k \in insured, n \in 1..PointsPerCounty : Scatter[k[2]][k[1]][n] \in Int \X Int
  <2> HIDE DEF insured
  <2> QED
    BY <1>1, HazardAssumption
<1>3. \/ ls = <<>>
      \/ DOMAIN ls = insured \X (1..PointsPerCounty) /\ \A l \in DOMAIN ls : ls[l].at = Scatter[l[1][2]][l[1][1]][l[2]]
  BY Zenon DEF LoadLocations
<1>4. DOMAIN <<>> = {}
  <2>1. <<>> \in Seq({}) /\ Len(<<>>) = 0
    BY EmptySeq
  <2>2. DOMAIN <<>> = 1..0
    BY <2>1, LenProperties
  <2> QED
    BY <2>2
<1> HIDE DEF insured, ls
<1>5. \A l \in DOMAIN ls : ls[l].at \in Int \X Int
  <2>1. CASE ls = <<>>
    BY <1>4, <2>1, Zenon
  <2>2. CASE ls # <<>>
    <3>1. \A l \in insured \X (1..PointsPerCounty) : l[1] \in insured /\ l[2] \in 1..PointsPerCounty
      OBVIOUS
    <3> QED
      BY <1>2, <1>3, <2>2, <3>1
  <2> QED
    BY <2>1, <2>2
<1> QED
  BY <1>5 DEF ls

\* The locations that are inside some of the polygons.
InsideAny(ls, gs) == {l \in DOMAIN ls.locations : \E g \in Range(gs) : PointInGeometry(ls.locations[l].at, g)}

\* The figure for all of the polygons is that of the locations inside some.
LEMMA CombinedIsInside ==
  ASSUME NEW ls, \A l \in DOMAIN ls.locations : ls.locations[l].at \in Int \X Int, NEW gs \in Seq(Drawn),
         ExposureInPolygons(ls, gs) # Invalid
  PROVE  ExposureInPolygons(ls, gs).combined = Rollup(ls, InsideAny(ls, gs))
<1> DEFINE per == [i \in DOMAIN gs |-> Cast(ls, gs[i])]
<1>1. ExposureInPolygons(ls, gs).combined = Rollup(ls, UNION Range(per))
  BY DEF ExposureInPolygons
<1>2. \A i \in DOMAIN gs : gs[i] \in Drawn
  <2>1. Range(gs) \subseteq Drawn
    BY RangeInType
  <2> QED
    BY <2>1 DEF Range
<1>3. \A i \in DOMAIN gs : Cast(ls, gs[i]) = {l \in DOMAIN ls.locations : PointInGeometry(ls.locations[l].at, gs[i])}
  BY <1>2, CastIsInside
<1>4. Range(per) = {Cast(ls, gs[i]) : i \in DOMAIN gs}
  BY DEF Range
<1>5. \A l : l \in UNION Range(per) <=> \E i \in DOMAIN gs : l \in Cast(ls, gs[i])
  BY <1>4
<1> HIDE DEF per
<1>6. \A l : l \in InsideAny(ls, gs) <=> l \in DOMAIN ls.locations /\ \E i \in DOMAIN gs : PointInGeometry(ls.locations[l].at, gs[i])
  BY DEF InsideAny, Range
<1>7. UNION Range(per) = InsideAny(ls, gs)
  <2>1. \A l : l \in UNION Range(per) <=> l \in InsideAny(ls, gs)
    BY <1>3, <1>5, <1>6
  <2> QED
    BY <2>1
<1> QED
  BY <1>1, <1>7

\* What is asked of a few polygons.
LEMMA PolygonsCountOnce ==
  ASSUME NEW book \in LocationBooks, NEW gs \in PolygonLists, NEW most,
         ExposureReply(book, gs, most) \notin {Invalid, Unavailable}
  PROVE  ExposureReply(book, gs, most).combined = Rollup(LoadLocations(book), InsideAny(LoadLocations(book), gs))
<1> DEFINE ls == LoadLocations(book)
           priced == ExposureInPolygons(ls, gs)
<1>1. Validated(gs, most) /\ book.datasets # None /\ priced # Invalid
      /\ ExposureReply(book, gs, most) = [results |-> priced.results, combined |-> priced.combined,
                                          currency |-> ls.currency, warnings |-> ls.warnings]
  BY DEF ExposureReply
<1>2. \A l \in DOMAIN ls.locations : ls.locations[l].at \in Int \X Int
  BY <1>1, LocationsOnMap
<1>3. gs \in Seq(Drawn)
  <2>1. gs \in Seq(SentGeometries)
    BY HazardAssumption
  <2>2. Range(gs) \subseteq SentGeometries
    BY <2>1, RangeInType
  <2>3. \A g \in Range(gs) : g \in Drawn
    BY <1>1, <2>2, AcceptableIsDrawn DEF Validated
  <2> QED
    BY <2>1, <2>3, NarrowSequence
<1> HIDE DEF ls
<1>4. priced.combined = Rollup(ls, InsideAny(ls, gs))
  BY <1>1, <1>2, <1>3, CombinedIsInside
<1> HIDE DEF priced
<1>5. ExposureReply(book, gs, most).combined = priced.combined
  BY <1>1
<1> QED
  BY <1>4, <1>5 DEF ls

\* The features of an answer that are areas.
LEMMA FeaturesAreDrawn ==
  ASSUME NEW answer \in InundationAnswers \ {None}
  PROVE  Inundation(answer).features \in Seq(Drawn)
<1> DEFINE S == SentGeometries \cup {None}
           kept == Inundation(answer).features
<1>3. kept \in Seq(S)
  BY FeaturesAreKept
<1>4. \A x \in Range(kept) : x \in S /\ CleanGeometry(x)
  BY FeaturesAreKept
<1> HIDE DEF kept
<1>5. \A x \in Range(kept) : x \in Drawn
  <2> SUFFICES ASSUME NEW x \in Range(kept) PROVE x \in Drawn
    OBVIOUS
  <2>1. x \in SentGeometries
    BY <1>4 DEF S, CleanGeometry
  <2>2. x.kind \in Areal /\ \A part \in Range(x.parts) : \A ring \in Range(part) : None \notin Range(ring)
    BY <1>4 DEF CleanGeometry
  <2> QED
    BY <2>1, <2>2, ReadInFull
<1>6. kept \in Seq(Drawn)
  BY <1>3, <1>5, NarrowSequence
<1> QED
  BY <1>6 DEF kept

\* Leaving out the reaches with no candidate changes nothing.
LEMMA ScoreableInside ==
  ASSUME NEW ls, \A l \in DOMAIN ls.locations : ls.locations[l].at \in Int \X Int, NEW gs \in Seq(Drawn)
  PROVE  /\ GeometriesWithCandidates(ls, gs) \in Seq(Drawn)
         /\ InsideAny(ls, GeometriesWithCandidates(ls, gs)) = InsideAny(ls, gs)
<1> DEFINE I == {i \in DOMAIN gs : Candidates(ls, gs[i]) # {}}
           kept == Picked(gs, I)
<1>1. GeometriesWithCandidates(ls, gs) = kept
  <2>1. [i \in DOMAIN gs |-> IF Candidates(ls, gs[i]) # {} THEN <<gs[i]>> ELSE <<>>]
        = [i \in DOMAIN gs |-> IF i \in I THEN <<gs[i]>> ELSE <<>>]
    BY Zenon
  <2>2. GeometriesWithCandidates(ls, gs) = FlattenSeq([i \in DOMAIN gs |-> IF Candidates(ls, gs[i]) # {} THEN <<gs[i]>> ELSE <<>>])
    BY DEF GeometriesWithCandidates, Sift
  <2> QED
    BY <2>1, <2>2, Zenon DEF Picked
<1>2. kept \in Seq(Drawn) /\ Range(kept) = {x \in Drawn : \E i \in DOMAIN gs : i \in I /\ x = gs[i]}
  <2> HIDE DEF I
  <2> QED
    BY Sifted
<1> HIDE DEF kept
<1>3. \A i \in DOMAIN gs : gs[i] \in Drawn
  <2>1. Range(gs) \subseteq Drawn
    BY RangeInType
  <2> QED
    BY <2>1 DEF Range
<1>4. \A i \in DOMAIN gs, l \in DOMAIN ls.locations : PointInGeometry(ls.locations[l].at, gs[i]) => i \in I
  BY <1>3, NoneLeftOut
<1>5. \A l \in DOMAIN ls.locations : (\E g \in Range(kept) : PointInGeometry(ls.locations[l].at, g))
                                   <=> \E g \in Range(gs) : PointInGeometry(ls.locations[l].at, g)
  <2>1. \A l \in DOMAIN ls.locations : (\E g \in Range(gs) : PointInGeometry(ls.locations[l].at, g))
                                     <=> \E i \in DOMAIN gs : PointInGeometry(ls.locations[l].at, gs[i])
    BY Zenon DEF Range
  <2>2. \A g : g \in Range(kept) <=> \E i \in DOMAIN gs : i \in I /\ g = gs[i]
    BY <1>2, <1>3
  <2> HIDE DEF I
  <2> QED
    BY <1>4, <2>1, <2>2
<1>6. InsideAny(ls, kept) = InsideAny(ls, gs)
  BY <1>5 DEF InsideAny
<1> QED
  BY <1>1, <1>2, <1>6

\* What is asked of all the reaches of an inundation.
LEMMA InundationCountsOnce ==
  ASSUME NEW answer \in InundationAnswers, NEW before \in InundationAnswers, NEW box, NEW book \in LocationBooks,
         PostInundationExposure(answer, HeldInundation(before), box, book) \notin {Invalid, Unavailable, Raises}
  PROVE  PostInundationExposure(answer, HeldInundation(before), box, book).combined
         = Rollup(LoadLocations(book), InsideAny(LoadLocations(book), Inundation(Served(before, answer)).features))
<1> DEFINE ls == LoadLocations(book)
           served == Served(before, answer)
           gs == Inundation(served).features
           bundle == FetchInundation(answer, HeldInundation(before), box)
           extent == Dissolve(gs)
           near == GeometriesWithCandidates(ls, gs)
           scoreable == IF extent = None THEN None ELSE Dissolve(near)
           priced == IF scoreable = None THEN [combined |-> Rollup(ls, {})] ELSE ExposureInPolygons(ls, <<scoreable>>)
           out == PostInundationExposure(answer, HeldInundation(before), box, book)
<1>1. bundle \notin {Invalid, Unavailable} /\ book.datasets # None
  BY Zenon DEF PostInundationExposure
<1>2. served \in InundationAnswers \ {None} /\ bundle.features = gs
  <2>1. served # None /\ bundle.features = gs
    BY <1>1, ServedIsFetched, Zenon
  <2> QED
    BY <2>1 DEF Served
<1>3. out = IF priced = Invalid THEN Invalid
            ELSE [combined |-> priced.combined,
                  belowResolution |-> extent # None /\ priced.combined.all.count = 0 /\ ExtentArea(extent) < Resolution,
                  truncated |-> bundle.truncated, reaches |-> Len(bundle.features), currency |-> ls.currency,
                  warnings |-> ls.warnings,
                  notes |-> bundle.notes \o IF extent # None /\ priced.combined.all.count = 0 /\ ExtentArea(extent) < Resolution
                                            THEN <<"below resolution">> ELSE <<>>]
  BY <1>1, <1>2, Zenon DEF PostInundationExposure
<1>4. priced # Invalid /\ out.combined = priced.combined
  <2>1. out # Invalid
    OBVIOUS
  <2> HIDE DEF out, priced
  <2>2. priced # Invalid
    BY <1>3, <2>1
  <2> QED
    BY <1>3, <2>2
<1> HIDE DEF out
<1>5. \A l \in DOMAIN ls.locations : ls.locations[l].at \in Int \X Int
  BY <1>1, LocationsOnMap
<1>6. gs \in Seq(Drawn)
  BY <1>2, FeaturesAreDrawn
<1> HIDE DEF ls, gs, served
<1>7. near \in Seq(Drawn) /\ InsideAny(ls, near) = InsideAny(ls, gs)
  BY <1>5, <1>6, ScoreableInside
<1> HIDE DEF near
<1>8. CASE scoreable = None
  <2>1. InsideAny(ls, gs) = {}
    <3>1. CASE extent = None
      BY <1>6, <3>1, DissolvedInside DEF InsideAny
    <3>2. CASE Dissolve(near) = None
      <4>1. InsideAny(ls, near) = {}
        BY <1>7, <3>2, DissolvedInside DEF InsideAny
      <4> QED
        BY <1>7, <4>1
    <3> QED
      BY <1>8, <3>1, <3>2
  <2>2. priced.combined = Rollup(ls, {})
    BY <1>8
  <2> HIDE DEF priced
  <2>3. out.combined = Rollup(ls, InsideAny(ls, gs))
    BY <1>4, <2>1, <2>2
  <2> QED
    BY <2>3 DEF out, ls, gs, served
<1>9. CASE scoreable # None
  <2>1. scoreable = Dissolve(near) /\ priced = ExposureInPolygons(ls, <<scoreable>>)
    BY <1>9
  <2> DEFINE one == <<scoreable>>
  <2> HIDE DEF scoreable
  <2>2. scoreable \in Drawn /\ \A p : PointInGeometry(p, scoreable) <=> \E g \in Range(near) : PointInGeometry(p, g)
    BY <1>7, <1>9, <2>1, DissolvedInside
  <2>3. one \in Seq(Drawn) /\ Range(one) = {scoreable}
    BY <2>2, OneOrNone
  <2>4. priced = ExposureInPolygons(ls, one)
    BY <2>1
  <2> HIDE DEF one, priced
  <2>5. priced.combined = Rollup(ls, InsideAny(ls, one))
    BY <1>4, <1>5, <2>3, <2>4, CombinedIsInside
  <2>6. InsideAny(ls, one) = InsideAny(ls, near)
    BY <2>2, <2>3 DEF InsideAny
  <2>7. out.combined = Rollup(ls, InsideAny(ls, gs))
    BY <1>4, <1>7, <2>5, <2>6
  <2> QED
    BY <2>7 DEF out, ls, gs, served
<1> QED
  BY <1>8, <1>9, Zenon

\* Every answer about exposure in polygons counts what is inside.
LEMMA HazardStepsCount ==
  ASSUME HazardNext PROVE EveryLocationCountsOnce'
<1>1. ASSUME PolygonExposureCall PROVE EveryLocationCountsOnce'
  <2>1. PICK book \in LocationBooks, gs \in PolygonLists, most \in {MaxPolygons, MaxZones} :
          /\ call' = [op |-> "polygons", book |-> book, geometries |-> gs]
          /\ reply' = ExposureReply(book, gs, most)
    BY <1>1, Zenon DEF PolygonExposureCall
  <2>2. reply' \notin {Invalid, Unavailable} => reply'.combined = Rollup(LoadLocations(book), InsideAny(LoadLocations(book), gs))
    BY <2>1, PolygonsCountOnce
  <2>3. call'.op = "polygons" /\ call'.book = book /\ call'.geometries = gs
    BY <2>1
  <2>4. IsReply("polygons")' \/ IsReply("wet")' => reply' \notin {Invalid, Unavailable}
    BY DEF IsReply
  <2>5. Priced' = gs
    BY <2>3 DEF Priced
  <2> QED
    BY <2>2, <2>3, <2>4, <2>5, Zenon DEF EveryLocationCountsOnce, InsideAny
<1>2. ASSUME InundationExposureCall PROVE EveryLocationCountsOnce'
  <2>1. PICK answer \in InundationAnswers, before \in InundationAnswers, box \in Boxes, book \in LocationBooks :
          /\ call' = [op |-> "wet", answer |-> answer, before |-> before, book |-> book]
          /\ reply' = PostInundationExposure(answer, HeldInundation(before), box, book)
    BY <1>2, Zenon DEF InundationExposureCall
  <2>2. reply' \notin {Invalid, Unavailable, Raises} =>
          reply'.combined
          = Rollup(LoadLocations(book), InsideAny(LoadLocations(book), Inundation(Served(before, answer)).features))
    BY <2>1, InundationCountsOnce
  <2>3. call'.op = "wet" /\ call'.book = book /\ call'.answer = answer /\ call'.before = before
    BY <2>1
  <2>4. IsReply("polygons")' \/ IsReply("wet")' => reply' \notin {Invalid, Unavailable, Raises}
    BY DEF IsReply
  <2>5. Priced' = Inundation(Served(before, answer)).features
    BY <2>3 DEF Priced, ServedExtent, Served
  <2> QED
    BY <2>2, <2>3, <2>4, <2>5, Zenon DEF EveryLocationCountsOnce, InsideAny
<1>3. ASSUME HazardMapCall \/ WildfireCall \/ FloodCall \/ BundleAlertsCall \/ InundationCall
      PROVE  EveryLocationCountsOnce'
  <2>1. call'.op \in {"hazard", "wildfire", "flood", "alerts", "inundation"}
    <3>1. HazardMapCall => call'.op = "hazard"
      BY DEF HazardMapCall
    <3>2. WildfireCall => call'.op = "wildfire"
      <4>1. WildfireCall => \E req, feeds : call' = [op |-> "wildfire", req |-> req, feeds |-> feeds]
        BY Zenon DEF WildfireCall
      <4> QED
        BY <4>1
    <3>3. FloodCall => call'.op = "flood"
      <4>1. FloodCall => \E feed, before : call' = [op |-> "flood", feed |-> feed, before |-> before]
        BY Zenon DEF FloodCall
      <4> QED
        BY <4>1
    <3>4. BundleAlertsCall => call'.op = "alerts"
      BY DEF BundleAlertsCall
    <3>5. InundationCall => call'.op = "inundation"
      BY DEF InundationCall
    <3> QED
      BY <1>3, <3>1, <3>2, <3>3, <3>4, <3>5, Zenon
  <2> QED
    BY <2>1 DEF EveryLocationCountsOnce, IsReply, Of
<1> QED
  BY <1>1, <1>2, <1>3 DEF HazardNext

(* Every location that is inside some polygon of a request, or some reach  *)
(* of an inundation, counts once in its combined figure and no other does, *)
(* whatever the index of cells, the boxes and the reaches left uncast.     *)
THEOREM LocationsAlwaysCountOnce == Spec => []EveryLocationCountsOnce
<1>1. Init => EveryLocationCountsOnce
  BY DEF Init, EveryLocationCountsOnce, IsReply, Of
<1>2. EveryLocationCountsOnce /\ [Next]_vars => EveryLocationCountsOnce'
  <2> SUFFICES ASSUME EveryLocationCountsOnce, [Next]_vars PROVE EveryLocationCountsOnce'
    OBVIOUS
  <2>1. CASE HazardNext
    BY <2>1, HazardStepsCount
  <2>2. CASE StormNext \/ LossNext \/ FundNext \/ ViewNext
    BY <2>2, OtherOps DEF HazardOps, EveryLocationCountsOnce, IsReply, Of
  <2>3. CASE Answered
    BY <2>3 DEF Answered, EveryLocationCountsOnce, IsReply, Of
  <2>4. CASE UNCHANGED vars
    BY <2>4 DEF vars, EveryLocationCountsOnce, IsReply, Of, Priced, ServedExtent
  <2> QED
    BY <2>1, <2>2, <2>3, <2>4 DEF Next
<1> QED
  BY <1>1, <1>2, PTL DEF Spec
(***************************************************************************)
(* The storm that is priced is the storm on the map: the fixes of the      *)
(* track file and of the a-deck, joined by lead hour.                      *)
(***************************************************************************)
\* A track file is read into fixes, unless it raises.
LEMMA TrackIsRead ==
  ASSUME NEW file \in TrackFiles
  PROVE  \/ FetchForecastTrack(file) = Raises
         \/ \E P, W : FetchForecastTrack(file) \in Seq([pos : P, wind : W, hours : Int])
<1>1. CASE file = None \/ file = NotXml
  <2>1. FetchForecastTrack(file) \in {<<>>, Raises}
    BY <1>1 DEF FetchForecastTrack
  <2>2. <<>> \in Seq([pos : {}, wind : {}, hours : Int])
    BY EmptySeq
  <2> QED
    BY <2>1, <2>2
<1>2. CASE file # None /\ file # NotXml
  <2> DEFINE wanted == {i \in DOMAIN file : /\ file[i].geo = "point" /\ file[i].hours # None
                                            /\ ExtractCoordList(file[i].coords) # <<>>}
             usable == Sift(file, LAMBDA pm : /\ pm.geo = "point" /\ pm.hours # None
                                              /\ ExtractCoordList(pm.coords) # <<>>)
             fix(pm) == [pos |-> ExtractCoordList(pm.coords)[1], wind |-> pm.wind, hours |-> pm.hours]
             fixes == [i \in DOMAIN usable |-> fix(usable[i])]
             P == {ExtractCoordList(usable[i].coords)[1] : i \in DOMAIN usable}
             W == {usable[i].wind : i \in DOMAIN usable}
             T == [pos : P, wind : W, hours : Int]
  <2>1. None \notin Int /\ file \in Seq(Range(file)) /\ \A i \in DOMAIN file : file[i].hours \in Int \cup {None}
    BY <1>2, StormAssumption
  <2>2. usable \in Seq(Range(file)) /\ Range(usable) = {x \in Range(file) : \E i \in DOMAIN file : i \in wanted /\ x = file[i]}
    <3>1. usable = Picked(file, wanted)
      BY DEF Sift, Picked
    <3>2. /\ Picked(file, wanted) \in Seq(Range(file))
          /\ Range(Picked(file, wanted)) = {x \in Range(file) : \E i \in DOMAIN file : i \in wanted /\ x = file[i]}
      <4>1. file \in Seq(Range(file))
        BY <2>1
      <4> HIDE DEF wanted
      <4> QED
        BY <4>1, Sifted
    <3> HIDE DEF usable
    <3> QED
      BY <3>1, <3>2
  <2>3. FetchForecastTrack(file) = ByHours(fixes)
    BY <1>2, Zenon DEF FetchForecastTrack, ByHours, Sorted, Ordered, Sift
  <2>4. \A x \in Range(usable) : x.hours \in Int
    <3>1. \A i \in wanted : file[i].hours \in Int
      BY <2>1
    <3> HIDE DEF usable, wanted
    <3> QED
      BY <2>2, <3>1
  <2>5. Len(usable) \in Nat /\ DOMAIN usable = 1..Len(usable) /\ \A i \in DOMAIN usable : usable[i].hours \in Int
    <3> HIDE DEF usable
    <3>1. \A i \in DOMAIN usable : usable[i] \in Range(usable)
      BY DEF Range
    <3>2. DOMAIN usable = 1..Len(usable) /\ Len(usable) \in Nat
      BY <2>2, LenProperties
    <3> QED
      BY <2>4, <3>1, <3>2
  <2>6. fixes \in Seq(T)
    <3> HIDE DEF usable
    <3>1. \A i \in DOMAIN usable : fix(usable[i]) \in T
      BY <2>5
    <3>2. fixes \in [1..Len(usable) -> T]
      <4> HIDE DEF T, fix
      <4> QED
        BY <2>5, <3>1
    <3> HIDE DEF fixes, T
    <3> QED
      BY <2>5, <3>2
  <2>7. ByHours(fixes) \in Seq(T)
    <3>1. \A f \in T : f.hours \in Int
      OBVIOUS
    <3> HIDE DEF fixes, T
    <3> QED
      BY <2>6, <3>1, SortedByHours
  <2> QED
    <3> HIDE DEF fixes, P, W
    <3> QED
      BY <2>3, <2>7
<1> QED
  BY <1>1, <1>2

\* The official fixes are finitely many, each at its lead.
LEMMA OfficialLeads ==
  ASSUME NEW file \in ImpactFiles
  PROVE  IsFiniteSet(DOMAIN FetchOfficialFixes(file)) /\ DOMAIN FetchOfficialFixes(file) \subseteq Int
<1> DEFINE parsed == ParseLines(file)
           read == {i \in DOMAIN file : file[i] # None}
           ranked == {i \in DOMAIN parsed : parsed[i].tech \in DOMAIN OfficialRank}
           rows == Picked(parsed, ranked)
           newest == {i \in DOMAIN rows : rows[i].init = Newest(rows)}
           latest == Picked(rows, newest)
           taus == {latest[i].tau : i \in DOMAIN latest}
           T == {file[i] : i \in read}
<1>1. file \in Seq(Range(file)) /\ \A i \in DOMAIN file : file[i] = None \/ file[i].tau \in Int
  BY StormAssumption
<1>2. parsed = Picked(file, read)
  BY Zenon DEF ParseLines, Sift, Picked
<1>3. parsed \in Seq(T) /\ \A r \in T : r.tau \in Int
  <2>1. parsed \in Seq(Range(file)) /\ Range(parsed) = {x \in Range(file) : \E i \in DOMAIN file : i \in read /\ x = file[i]}
    <3> HIDE DEF parsed, read
    <3> QED
      BY <1>1, <1>2, Sifted
  <2>2. Range(parsed) \subseteq T
    <3> HIDE DEF parsed, read
    <3> QED
      BY <2>1
  <2>3. \A r \in T : r.tau \in Int
    BY <1>1
  <2> HIDE DEF parsed, T
  <2> QED
    BY <2>1, <2>2, <2>3, NarrowSequence
<1> HIDE DEF parsed, T
<1>4. rows \in Seq(T)
  <2> HIDE DEF ranked
  <2> QED
    BY <1>3, Sifted
<1> HIDE DEF rows
<1>5. latest \in Seq(T)
  <2> HIDE DEF newest
  <2> QED
    BY <1>4, Sifted
<1>6. FetchOfficialFixes(file) = <<>> \/ DOMAIN FetchOfficialFixes(file) = taus
  BY DEF FetchOfficialFixes, rows, parsed, Sift, Picked
<1> HIDE DEF latest
<1>7. Len(latest) \in Nat /\ DOMAIN latest = 1..Len(latest) /\ \A i \in DOMAIN latest : latest[i] \in T
  BY <1>5, LenProperties, ElementOfSeq
<1>8. taus \subseteq Int
  BY <1>3, <1>7
<1>9. IsFiniteSet(taus)
  <2> DEFINE tau == [i \in DOMAIN latest |-> latest[i].tau]
  <2>1. taus = {tau[i] : i \in DOMAIN latest}
    OBVIOUS
  <2>2. IsFiniteSet(DOMAIN latest)
    BY <1>7, FS_Interval
  <2> HIDE DEF tau
  <2>3. IsFiniteSet({tau[i] : i \in DOMAIN latest})
    BY <2>2, FiniteImage
  <2> QED
    BY <2>1, <2>3
<1>10. DOMAIN <<>> = {}
  <2>1. <<>> \in Seq(T) /\ Len(<<>>) = 0
    BY EmptySeq
  <2>2. DOMAIN <<>> = 1..0
    BY <2>1, LenProperties
  <2> QED
    BY <2>2
<1> QED
  <2> HIDE DEF taus
  <2> QED
    BY <1>6, <1>8, <1>9, <1>10, FS_EmptySet

\* A function on 1..n is a sequence of what it holds.
LEMMA SequenceOfRange ==
  ASSUME NEW n \in Nat, NEW f, NEW T, \A i \in 1..n : f[i] \in T
  PROVE  [i \in 1..n |-> f[i]] \in Seq(T)
<1>1. [i \in 1..n |-> f[i]] \in [1..n -> T]
  OBVIOUS
<1> QED
  BY <1>1

\* The last fix of a lead is the one that counts.
LEMMA LastOfHour ==
  ASSUME NEW P, NEW W, NEW fixes \in Seq([pos : P, wind : W, hours : Int]), NEW i \in DOMAIN fixes
  PROVE  /\ DOMAIN KmzByHour(fixes) \subseteq Int /\ IsFiniteSet(DOMAIN KmzByHour(fixes))
         /\ fixes[i].hours \in DOMAIN KmzByHour(fixes)
         /\ \E j \in DOMAIN fixes : fixes[j].hours = fixes[i].hours /\ KmzByHour(fixes)[fixes[i].hours] = fixes[j]
<1> DEFINE last(h) == CHOOSE k \in DOMAIN fixes : fixes[k].hours = h /\ \A m \in DOMAIN fixes : fixes[m].hours = h => m <= k
           hours == {fixes[k].hours : k \in DOMAIN fixes}
           h == fixes[i].hours
           same == {k \in DOMAIN fixes : fixes[k].hours = h}
<1>1. Len(fixes) \in Nat /\ DOMAIN fixes = 1..Len(fixes) /\ \A k \in DOMAIN fixes : fixes[k].hours \in Int
  <2> DEFINE T == [pos : P, wind : W, hours : Int]
  <2>1. \A f \in T : f.hours \in Int
    OBVIOUS
  <2>2. fixes \in Seq(T)
    OBVIOUS
  <2> HIDE DEF T
  <2> QED
    BY <2>1, <2>2, LenProperties, ElementOfSeq
<1>2. KmzByHour(fixes) = [u \in hours |-> fixes[last(u)]]
  BY Zenon DEF KmzByHour
<1>3. IsFiniteSet(DOMAIN fixes)
  <2>1. 1 \in Int /\ Len(fixes) \in Int
    BY <1>1
  <2>2. IsFiniteSet(1..Len(fixes))
    BY <2>1, FS_Interval
  <2> QED
    BY <1>1, <2>2
<1>4. hours \subseteq Int /\ IsFiniteSet(hours)
  <2> DEFINE f == [k \in DOMAIN fixes |-> fixes[k].hours]
  <2>1. hours = {f[k] : k \in DOMAIN fixes}
    OBVIOUS
  <2> HIDE DEF f
  <2>2. IsFiniteSet({f[k] : k \in DOMAIN fixes})
    BY <1>3, FiniteImage
  <2> QED
    BY <1>1, <2>1, <2>2
<1>5. last(h) \in DOMAIN fixes /\ fixes[last(h)].hours = h
  <2>1. same \in SUBSET Int /\ IsFiniteSet(same) /\ i \in same
    <3>1. same \in SUBSET (DOMAIN fixes)
      OBVIOUS
    <3>2. IsFiniteSet(same)
      BY <1>3, <3>1, FS_Subset
    <3> QED
      BY <1>1, <3>2
  <2>2. Max(same) \in same /\ \A k \in same : k <= Max(same)
    <3> HIDE DEF same
    <3> QED
      BY <2>1, MaxOfFinite
  <2>3. \E k \in DOMAIN fixes : fixes[k].hours = h /\ \A m \in DOMAIN fixes : fixes[m].hours = h => m <= k
    BY <2>2
  <2> QED
    BY <2>3, Zenon
<1>6. h \in hours
  OBVIOUS
<1> HIDE DEF hours, last, h
<1> QED
  BY <1>2, <1>4, <1>5, <1>6 DEF h

\* What the property says of a storm, its fixes and the track made of them.
Follows(e, fixes, track) ==
  LET drawn == ForecastPoints(e, fixes)
      at(h) == {i \in DOMAIN track : track[i].hours = h}
      agrees(p, q) == p.pos = q.pos /\ (p.wind = q.wind \/ q.wind = e.intensity)
  IN /\ fixes # <<>> =>
          \A i \in DOMAIN drawn :
            /\ Cardinality(at(drawn[i].hours)) = 1
            /\ \E k \in at(drawn[i].hours), j \in DOMAIN drawn :
                 drawn[j].hours = drawn[i].hours /\ agrees(track[k], drawn[j])
     /\ \A i, k \in DOMAIN track :
          i < k /\ track[i].hours # None => track[i].hours < track[k].hours

\* The impact track joined by lead hour follows the drawn one.
LEMMA JoinedTrackFollows ==
  ASSUME NEW e, NEW official, IsFiniteSet(DOMAIN official), DOMAIN official \subseteq Int,
         NEW P, NEW W, NEW fixes \in Seq([pos : P, wind : W, hours : Int]), official # <<>> \/ fixes # <<>>
  PROVE  Follows(e, fixes, StormForImpact(e, official, fixes))
<1> DEFINE kmz == KmzByHour(fixes)
           hours == ImpactHours(official, kmz)
           taus == Ascending(hours)
           track == [i \in DOMAIN taus |-> ImpactFix(official, kmz, taus[i])]
           drawn == ForecastPoints(e, fixes)
           at(h) == {i \in DOMAIN track : track[i].hours = h}
<1>1. StormForImpact(e, official, fixes) = track
  BY DEF StormForImpact, Ascending, Ordered
<1>2. DOMAIN fixes = 1..Len(fixes) /\ Len(fixes) \in Nat /\ \A i \in DOMAIN fixes : fixes[i] \in [pos : P, wind : W, hours : Int]
  <2> DEFINE T == [pos : P, wind : W, hours : Int]
  <2>1. fixes \in Seq(T)
    OBVIOUS
  <2> HIDE DEF T
  <2>2. DOMAIN fixes = 1..Len(fixes) /\ Len(fixes) \in Nat /\ \A i \in DOMAIN fixes : fixes[i] \in T
    BY <2>1, LenProperties, ElementOfSeq
  <2> QED
    BY <2>2 DEF T
<1>3. DOMAIN kmz \subseteq Int /\ IsFiniteSet(DOMAIN kmz)
  <2>1. CASE DOMAIN fixes = {}
    <3>1. DOMAIN kmz = {}
      BY <2>1 DEF KmzByHour
    <3> QED
      BY <3>1, FS_EmptySet
  <2>2. CASE DOMAIN fixes # {}
    BY <2>2, LastOfHour
  <2> QED
    BY <2>1, <2>2
<1>4. hours \in SUBSET Int /\ IsFiniteSet(hours)
  BY <1>3, FS_Union DEF ImpactHours
<1>5. /\ taus \in Seq(hours)
      /\ \A i, k \in DOMAIN taus : i < k => taus[i] < taus[k]
      /\ \A x \in hours : \E i \in DOMAIN taus : taus[i] = x
  <2> HIDE DEF hours
  <2> QED
    BY <1>4, AscendingNumbers
<1> HIDE DEF taus
<1>6. DOMAIN taus = 1..Len(taus) /\ Len(taus) \in Nat /\ \A i \in DOMAIN taus : taus[i] \in hours
  <2> HIDE DEF hours
  <2> QED
    BY <1>5, LenProperties, ElementOfSeq
<1>7. DOMAIN track = DOMAIN taus /\ \A i \in DOMAIN taus : track[i] = ImpactFix(official, kmz, taus[i]) /\ track[i].hours = taus[i]
  BY DEF ImpactFix
<1> HIDE DEF track
<1>8. \A i, k \in DOMAIN track : i < k => track[i].hours < track[k].hours
  BY <1>5, <1>7
<1>9. ASSUME fixes # <<>>, NEW i \in DOMAIN drawn
      PROVE  /\ Cardinality(at(drawn[i].hours)) = 1
             /\ \E k \in at(drawn[i].hours), j \in DOMAIN drawn :
                  /\ drawn[j].hours = drawn[i].hours
                  /\ track[k].pos = drawn[j].pos
                  /\ track[k].wind = drawn[j].wind \/ drawn[j].wind = e.intensity
  <2>1. drawn = [k \in DOMAIN fixes |-> [fixes[k] EXCEPT !.wind = IF @ = 0 THEN e.intensity ELSE @]]
    BY <1>9 DEF ForecastPoints
  <2>2. DOMAIN drawn = DOMAIN fixes
    BY <2>1
  <2>3. \A k \in DOMAIN fixes : /\ drawn[k].hours = fixes[k].hours /\ drawn[k].pos = fixes[k].pos
                                /\ drawn[k].wind = IF fixes[k].wind = 0 THEN e.intensity ELSE fixes[k].wind
    BY <1>2, <2>1
  <2> HIDE DEF drawn
  <2> DEFINE h == fixes[i].hours
  <2>4. PICK j \in DOMAIN fixes : fixes[j].hours = h /\ kmz[h] = fixes[j] /\ h \in DOMAIN kmz
    BY <2>2, LastOfHour
  <2> HIDE DEF kmz
  <2>5. h \in hours /\ h \in Int
    BY <1>2, <2>2, <2>4 DEF ImpactHours
  <2>6. PICK k \in DOMAIN taus : taus[k] = h
    BY <1>5, <2>5
  <2>7. at(h) = {k}
    <3>1. k \in at(h)
      BY <1>7, <2>6
    <3>2. ASSUME NEW m \in at(h) PROVE m = k
      <4>1. m \in DOMAIN taus /\ taus[m] = h
        BY <1>7, <3>2
      <4>2. m \in Int /\ k \in Int
        BY <1>6, <4>1
      <4>3. ~ (m < k) /\ ~ (k < m)
        BY <1>5, <2>5, <2>6, <4>1
      <4> QED
        BY <4>2, <4>3
    <3> QED
      BY <3>1, <3>2
  <2>8. track[k] = ImpactFix(official, kmz, h)
    BY <1>7, <2>6
  <2>9. /\ track[k].pos = fixes[j].pos
        /\ fixes[j].wind # 0 => track[k].wind = fixes[j].wind
    BY <2>4, <2>8 DEF ImpactFix
  <2>10. Cardinality(at(h)) = 1
    BY <2>7, FS_Singleton
  <2>11. drawn[i].hours = h /\ drawn[j].hours = h
    BY <2>2, <2>3, <2>4
  <2>12. track[k].wind = drawn[j].wind \/ drawn[j].wind = e.intensity
    BY <2>3, <2>9
  <2>13. track[k].pos = drawn[j].pos
    BY <2>3, <2>9
  <2>14. k \in at(h) /\ j \in DOMAIN drawn
    BY <2>2, <2>7
  <2> HIDE DEF at, h
  <2> QED
    BY <2>10, <2>11, <2>12, <2>13, <2>14
<1> QED
  <2>1. /\ fixes # <<>> => \A i \in DOMAIN drawn :
             /\ Cardinality(at(drawn[i].hours)) = 1
             /\ \E k \in at(drawn[i].hours), j \in DOMAIN drawn :
                  /\ drawn[j].hours = drawn[i].hours
                  /\ track[k].pos = drawn[j].pos
                  /\ track[k].wind = drawn[j].wind \/ drawn[j].wind = e.intensity
    BY <1>9
  <2>2. \A i, k \in DOMAIN track : i < k /\ track[i].hours # None => track[i].hours < track[k].hours
    BY <1>8
  <2>3. Follows(e, fixes, track)
    BY <2>1, <2>2 DEF Follows
  <2> QED
    BY <1>1, <2>3

\* Without official fixes and a track file there are no leads to follow.
LEMMA ShortTrackFollows ==
  ASSUME NEW e
  PROVE  Follows(e, <<>>, StormForImpact(e, <<>>, <<>>))
<1> DEFINE observed == ObservedTrack(e)
           points == ForecastPoints(e, <<>>)
           ahead == {i \in DOMAIN points : points[i].hours > 0}
           later == Picked(points, ahead)
           a == [i \in DOMAIN observed |-> [hours |-> None, wind |-> e.intensity, pos |-> observed[i], r64 |-> {}]]
           b == [i \in DOMAIN later |-> [hours |-> None, wind |-> later[i].wind, pos |-> later[i].pos, r64 |-> {}]]
           T == Range(a) \cup Range(b)
<1>1. StormForImpact(e, <<>>, <<>>) = a \o b
  BY DEF StormForImpact, Sift, Picked
<1>2. a \in Seq(T)
  <2>1. PICK n \in Nat : DOMAIN observed = 1..n
    <3>1. CASE Moves(e)
      <4>1. observed = <<Along(e, -12), Along(e, -6), e.pos>>
        BY <3>1 DEF ObservedTrack
      <4> HIDE DEF observed
      <4>2. DOMAIN observed = 1..3
        BY <4>1
      <4> QED
        BY <4>2
    <3>2. CASE ~ Moves(e)
      <4>1. observed = <<e.pos>>
        BY <3>2 DEF ObservedTrack
      <4> HIDE DEF observed
      <4>2. DOMAIN observed = 1..1
        BY <4>1
      <4> QED
        BY <4>2
    <3> QED
      BY <3>1, <3>2
  <2>2. a = [i \in 1..n |-> a[i]]
    BY <2>1
  <2> HIDE DEF a, b
  <2>3. \A i \in 1..n : a[i] \in T
    BY <2>2 DEF Range
  <2> HIDE DEF T
  <2> QED
    BY <2>2, <2>3, SequenceOfRange
<1>3. b \in Seq(T)
  <2>1. points \in Seq(Range(points))
    <3>1. PICK n \in Nat : points = [i \in 1..n |-> points[i]]
      <4>1. CASE Moves(e)
        <5>1. points = [i \in DOMAIN ForecastHourAnchors |->
                         [pos |-> Along(e, ForecastHourAnchors[i]), wind |-> e.intensity, hours |-> ForecastHourAnchors[i]]]
          BY <4>1 DEF ForecastPoints
        <5>2. DOMAIN ForecastHourAnchors = 1..8
          BY DEF ForecastHourAnchors
        <5> HIDE DEF points
        <5> QED
          BY <5>1, <5>2
      <4>2. CASE ~ Moves(e)
        <5>1. points = <<[pos |-> e.pos, wind |-> e.intensity, hours |-> 0]>>
          BY <4>2 DEF ForecastPoints
        <5> HIDE DEF points
        <5>2. points = [i \in 1..1 |-> points[i]]
          BY <5>1
        <5> QED
          BY <5>2
      <4> QED
        BY <4>1, <4>2
    <3> HIDE DEF points
    <3>2. \A i \in 1..n : points[i] \in Range(points)
      BY <3>1 DEF Range
    <3> QED
      BY <3>1, <3>2, SequenceOfRange
  <2>2. later \in Seq(Range(points))
    <3> HIDE DEF points, ahead
    <3> QED
      BY <2>1, Sifted
  <2> HIDE DEF later
  <2>3. DOMAIN later = 1..Len(later) /\ Len(later) \in Nat
    BY <2>2, LenProperties
  <2> DEFINE n == Len(later)
  <2>4. b = [i \in 1..n |-> b[i]] /\ n \in Nat
    BY <2>3
  <2> HIDE DEF a, b, n
  <2>5. \A i \in 1..n : b[i] \in T
    BY <2>4 DEF Range
  <2> HIDE DEF T
  <2> QED
    BY <2>4, <2>5, SequenceOfRange
<1>4. \A x \in T : x.hours = None
  <2>1. \A i \in DOMAIN a : a[i].hours = None
    OBVIOUS
  <2>2. \A i \in DOMAIN b : b[i].hours = None
    <3> HIDE DEF later
    <3> QED
      OBVIOUS
  <2> HIDE DEF a, b
  <2> QED
    BY <2>1, <2>2 DEF Range
<1> HIDE DEF a, b, T
<1> DEFINE track == a \o b
<1>5. track \in Seq(T)
  BY <1>2, <1>3, RangeOfConcat
<1> HIDE DEF track
<1>6. \A i \in DOMAIN track : track[i].hours = None
  <2>1. DOMAIN track = 1..Len(track) /\ \A i \in 1..Len(track) : track[i] \in T
    BY <1>5, LenProperties, ElementOfSeq
  <2> QED
    BY <1>4, <2>1
<1> QED
  BY <1>1, <1>6 DEF Follows, track

\* Every answer about a storm's impact is about the storm on the map.
LEMMA ImpactStepsFollow ==
  ASSUME ImpactCall PROVE ImpactFollowsTheDrawnTrack'
<1>1. PICK e \in Entries, file \in TrackFiles, adeck \in ImpactFiles :
        /\ call' = [op |-> "impact", entry |-> e, fixes |-> FetchForecastTrack(file), official |-> FetchOfficialFixes(adeck)]
        /\ reply' = IF FetchForecastTrack(file) = Raises THEN Raises
                    ELSE [track |-> StormForImpact(e, FetchOfficialFixes(adeck), FetchForecastTrack(file)),
                          footprint |-> FixesToFootprint(StormForImpact(e, FetchOfficialFixes(adeck), FetchForecastTrack(file)),
                                                         FetchOfficialFixes(adeck), "AL01", None)]
  BY Zenon DEF ImpactCall, Given
<1> DEFINE fixes == FetchForecastTrack(file)
           official == FetchOfficialFixes(adeck)
           track == StormForImpact(e, official, fixes)
<1>2. call'.entry = e /\ call'.fixes = fixes
  BY <1>1
<1>3. CASE fixes = Raises
  <2>1. reply' = Raises
    BY <1>1, <1>3
  <2> QED
    BY <2>1 DEF ImpactFollowsTheDrawnTrack
<1>4. CASE fixes # Raises
  <2>1. PICK P, W : fixes \in Seq([pos : P, wind : W, hours : Int])
    BY <1>4, TrackIsRead
  <2>2. IsFiniteSet(DOMAIN official) /\ DOMAIN official \subseteq Int
    BY OfficialLeads
  <2>3. reply'.track = track
    BY <1>1, <1>4
  <2>4. Follows(e, fixes, track)
    <3> HIDE DEF fixes, official
    <3>1. CASE official = <<>> /\ fixes = <<>>
      BY <3>1, ShortTrackFollows
    <3>2. CASE official # <<>> \/ fixes # <<>>
      BY <2>1, <2>2, <3>2, JoinedTrackFollows
    <3> QED
      BY <3>1, <3>2
  <2> HIDE DEF fixes, official, track
  <2>5. Follows(call'.entry, call'.fixes, reply'.track)
    BY <1>2, <2>3, <2>4
  <2> QED
    BY <2>5, Zenon DEF Follows, ImpactFollowsTheDrawnTrack
<1> QED
  BY <1>3, <1>4

\* No other endpoint answers how a storm is priced.
LEMMA OtherThanImpact ==
  ASSUME Next, ~ ImpactCall
  PROVE  ~ Of("impact")'
<1>1. CASE StormNext
  <2>1. CASE ModelTracksCall
    BY <2>1 DEF ModelTracksCall, Of
  <2>2. CASE EnsembleRiskCall
    BY <2>2 DEF EnsembleRiskCall, Of
  <2>3. CASE ForecastsCall
    BY <2>3 DEF ForecastsCall, Of
  <2>4. CASE ShapesCall
    BY <2>4 DEF ShapesCall, Of
  <2>5. CASE ReplayCall
    BY <2>5 DEF ReplayCall, Of
  <2>6. CASE OutlookCall
    BY <2>6 DEF OutlookCall, Of
  <2> QED
    BY <1>1, <2>1, <2>2, <2>3, <2>4, <2>5, <2>6 DEF StormNext
<1>2. CASE LossNext \/ FundNext \/ ViewNext \/ HazardNext
  BY <1>2, OwnQuestions DEF LossOps, FundOps, ViewOps, HazardOps, Of
<1>3. CASE Answered
  BY <1>3 DEF Answered, Of
<1> QED
  BY <1>1, <1>2, <1>3 DEF Next

(* The storm whose county losses are computed is the storm on the map,     *)
(* whatever the track file and the a-deck hold.                            *)
THEOREM ImpactIsOfTheDrawnStorm == Spec => []ImpactFollowsTheDrawnTrack
<1>1. Init => ImpactFollowsTheDrawnTrack
  BY DEF Init, ImpactFollowsTheDrawnTrack, Of
<1>2. ImpactFollowsTheDrawnTrack /\ [Next]_vars => ImpactFollowsTheDrawnTrack'
  <2> SUFFICES ASSUME ImpactFollowsTheDrawnTrack, [Next]_vars PROVE ImpactFollowsTheDrawnTrack'
    OBVIOUS
  <2>1. CASE ImpactCall
    BY <2>1, ImpactStepsFollow
  <2>2. CASE Next /\ ~ ImpactCall
    BY <2>2, OtherThanImpact, Zenon DEF ImpactFollowsTheDrawnTrack
  <2>3. CASE UNCHANGED vars
    <3>1. call' = call /\ reply' = reply
      BY <2>3 DEF vars
    <3> QED
      BY <3>1 DEF ImpactFollowsTheDrawnTrack, Of
  <2> QED
    BY <2>1, <2>2, <2>3
<1> QED
  BY <1>1, <1>2, PTL DEF Spec

\* No other endpoint answers a back-test.
LEMMA OtherThanBacktest ==
  ASSUME Next, ~ BacktestCall
  PROVE  ~ Of("backtest")'
<1>1. CASE LossNext
  <2>1. CASE HurricanesCall
    BY <2>1 DEF HurricanesCall, Of
  <2>2. CASE CountyImpactCall
    BY <2>2 DEF CountyImpactCall, Of
  <2>3. CASE IndustryLossCall
    BY <2>3 DEF IndustryLossCall, Of
  <2>4. CASE FitCall
    BY <2>4 DEF FitCall, Of
  <2> QED
    BY <1>1, <2>1, <2>2, <2>3, <2>4 DEF LossNext
<1>2. CASE StormNext \/ FundNext \/ ViewNext \/ HazardNext
  BY <1>2, OwnQuestions DEF StormOps, FundOps, ViewOps, HazardOps, Of
<1>3. CASE Answered
  BY <1>3 DEF Answered, Of
<1> QED
  BY <1>1, <1>2, <1>3 DEF Next

(* A back-test puts every reported dollar in exactly one place, whatever    *)
(* the loss files, insured values, indices and adjustments hold.           *)
THEOREM LossesAlwaysAccountedFor == Spec => []EveryLossIsAccountedFor
<1>1. Init => EveryLossIsAccountedFor
  BY DEF Init, EveryLossIsAccountedFor, Answers, Of
<1>2. EveryLossIsAccountedFor /\ [Next]_vars => EveryLossIsAccountedFor'
  <2> SUFFICES ASSUME EveryLossIsAccountedFor, [Next]_vars PROVE EveryLossIsAccountedFor'
    OBVIOUS
  <2>1. CASE BacktestCall
    BY <2>1, BacktestStepsAccount
  <2>2. CASE Next /\ ~ BacktestCall
    BY <2>2, OtherThanBacktest, Zenon DEF EveryLossIsAccountedFor, Answers
  <2>3. CASE UNCHANGED vars
    <3>1. call' = call /\ reply' = reply
      BY <2>3 DEF vars
    <3> QED
      BY <3>1, Zenon DEF EveryLossIsAccountedFor, Answers, Of
  <2> QED
    BY <2>1, <2>2, <2>3
<1> QED
  BY <1>1, <1>2, PTL DEF Spec

(***************************************************************************)
(* What a selection of facts is worth.                                     *)
(***************************************************************************)
\* The insured value of some facts, and facts that have one.
TivOf(S) == MapThenSumSet(LAMBDA f : f.tiv, S)
Valued(S) == IsFiniteSet(S) /\ \A x \in S : x.tiv \in Nat
\* That value is the sum of a function.
LEMMA TivIsASum ==
  ASSUME NEW S, Valued(S)
  PROVE  TivOf(S) = SumOver([x \in S |-> x.tiv], S)
<1> DEFINE f == [x \in S |-> x.tiv]
           it == CHOOSE iter : iter = [s \in SUBSET S |->
                   IF s = {} THEN 0 ELSE (CHOOSE x \in s : TRUE).tiv + iter[s \ {CHOOSE x \in s : TRUE}]]
           h == Running(f, S)
<1>0. IsFiniteSet(S) /\ \A x \in S : x.tiv \in Nat
  BY DEF Valued
<1>1. TivOf(S) = it[S]
  BY Zenon DEF TivOf, MapThenSumSet, MapThenFoldSet
<1>2. \A s \in SUBSET S : s # {} => AnyOf(s) \in s /\ AnyOf(s) \in S
  BY DEF AnyOf
<1>a. SumOver(f, S) = h[S] /\ Adds(h, f, S)
  <2>1. IntOn(f, S)
    BY <1>0 DEF IntOn
  <2> HIDE DEF f
  <2> QED
    BY <2>1, RunningSum
<1>3. h \in [SUBSET S -> Int] /\ h[{}] = 0 /\ \A s \in SUBSET S : s # {} => h[s] = f[AnyOf(s)] + h[s \ {AnyOf(s)}]
  <2> HIDE DEF f, h
  <2> QED
    BY <1>a, Zenon DEF Adds
<1>4. h = [s \in SUBSET S |-> IF s = {} THEN 0 ELSE AnyOf(s).tiv + h[s \ {AnyOf(s)}]]
  <2> HIDE DEF h
  <2>1. \A s \in SUBSET S : s # {} => h[s] = AnyOf(s).tiv + h[s \ {AnyOf(s)}]
    BY <1>2, <1>3
  <2> QED
    BY <1>3, <2>1
<1>5. it = [s \in SUBSET S |-> IF s = {} THEN 0 ELSE AnyOf(s).tiv + it[s \ {AnyOf(s)}]]
  <2> HIDE DEF h
  <2> QED
    BY <1>4, Zenon DEF AnyOf
<1> HIDE DEF it, h
<1> DEFINE C == {s \in SUBSET S : it[s] = h[s]}
<1>6. \A s \in SUBSET S : (\A x \in s : s \ {x} \in C) => s \in C
  <2> SUFFICES ASSUME NEW s \in SUBSET S, \A x \in s : s \ {x} \in C PROVE it[s] = h[s]
    OBVIOUS
  <2>1. CASE s = {}
    BY <1>4, <1>5, <2>1
  <2>2. CASE s # {}
    <3>1. it[s] = AnyOf(s).tiv + it[s \ {AnyOf(s)}]
      BY <1>5, <2>2
    <3>2. h[s] = AnyOf(s).tiv + h[s \ {AnyOf(s)}]
      BY <1>4, <2>2
    <3>3. AnyOf(s) \in s
      BY <1>2, <2>2
    <3>4. it[s \ {AnyOf(s)}] = h[s \ {AnyOf(s)}]
      BY <3>3
    <3> QED
      BY <3>1, <3>2, <3>4
  <2> QED
    BY <2>1, <2>2
<1>7. \A s \in SUBSET S : s \in C
  <2> HIDE DEF C
  <2> QED
    BY <1>0, <1>6, ByRemoval
<1>8. it[S] = h[S]
  BY <1>7
<1>9. SumOver(f, S) = h[S]
  BY <1>a, Zenon
<1> QED
  BY <1>1, <1>8, <1>9
\* More facts are worth no less.
LEMMA TivGrows ==
  ASSUME NEW T, Valued(T), NEW S \in SUBSET T
  PROVE  TivOf(S) \in Nat /\ TivOf(T) \in Nat /\ TivOf(S) <= TivOf(T)
<1> DEFINE f == [x \in T |-> x.tiv]
           g == [x \in S |-> x.tiv]
<1>1. Valued(S) /\ IsFiniteSet(T) /\ IsFiniteSet(S) /\ \A x \in T : f[x] \in Nat
  BY FS_Subset DEF Valued
<1>2. TivOf(S) = SumOver(g, S) /\ TivOf(T) = SumOver(f, T)
  BY <1>1, TivIsASum
<1>3. IntOn(f, S) /\ \A x \in S : g[x] = f[x]
  BY <1>1 DEF IntOn
<1> HIDE DEF f, g
<1>4. SumOver(g, S) = SumOver(f, S)
  BY <1>3, SumAgrees
<1> QED
  BY <1>1, <1>2, <1>4, SumGrows

\* The value of each peril's facts at a place, and the largest of them.
At(S, k, by) == {f \in S : GrainKey(f, by) = k}
Worth(S, k, by) == Max(Range(PerPeril(S, k, by)))
\* The key of a fact by geography is its geography.
LEMMA GeoKey ==
  ASSUME NEW f
  PROVE  GrainKey(f, <<"geo">>) = <<f.geo>>
<1>1. <<"geo">>[1] = "geo" /\ DOMAIN <<"geo">> = {1}
  OBVIOUS
<1>2. GrainKey(f, <<"geo">>) = [i \in {1} |-> f[<<"geo">>[i]]]
  BY <1>1 DEF GrainKey
<1> QED
  BY <1>1, <1>2

\* Each peril at a place has a value, at most that of the place.
LEMMA PerPerilType ==
  ASSUME NEW S, Valued(S), NEW by, NEW k
  PROVE  /\ DOMAIN PerPeril(S, k, by) = {f.peril : f \in At(S, k, by)}
         /\ \A p \in DOMAIN PerPeril(S, k, by) :
              /\ PerPeril(S, k, by)[p] = TivOf(OfPeril(S, k, by, p))
              /\ PerPeril(S, k, by)[p] \in Nat
         /\ At(S, k, by) # {} => /\ Worth(S, k, by) \in Nat
                             /\ \A p \in DOMAIN PerPeril(S, k, by) : PerPeril(S, k, by)[p] <= Worth(S, k, by)
<1> DEFINE per == PerPeril(S, k, by)
           P == {f.peril : f \in At(S, k, by)}
<1>1. per = [p \in P |-> TivOf(OfPeril(S, k, by, p))]
  BY Zenon DEF PerPeril, At, TivOf
<1>2. \A p \in P : TivOf(OfPeril(S, k, by, p)) \in Nat
  <2> SUFFICES ASSUME NEW p \in P PROVE TivOf(OfPeril(S, k, by, p)) \in Nat
    OBVIOUS
  <2>1. OfPeril(S, k, by, p) \in SUBSET S
    BY DEF OfPeril
  <2> QED
    BY <2>1, TivGrows
<1>3. DOMAIN per = P /\ \A p \in P : per[p] = TivOf(OfPeril(S, k, by, p)) /\ per[p] \in Nat
  <2> HIDE DEF per, P
  <2> QED
    BY <1>1, <1>2
<1>4. IsFiniteSet(P)
  <2>1. IsFiniteSet(At(S, k, by))
    BY FS_Subset DEF At, Valued
  <2> DEFINE f == [x \in At(S, k, by) |-> x.peril]
  <2>2. IsFiniteSet({f[x] : x \in At(S, k, by)})
    <3> HIDE DEF f
    <3> QED
      BY <2>1, FiniteImage
  <2>3. {f[x] : x \in At(S, k, by)} = P
    OBVIOUS
  <2> QED
    BY <2>2, <2>3
<1>5. ASSUME At(S, k, by) # {} PROVE Worth(S, k, by) \in Nat /\ \A p \in P : per[p] <= Worth(S, k, by)
  <2>1. Range(per) = {per[p] : p \in P}
    BY <1>3 DEF Range
  <2>2. IsFiniteSet({per[p] : p \in P})
    <3> HIDE DEF per, P
    <3> QED
      BY <1>4, FiniteImage
  <2>3. {per[p] : p \in P} \in SUBSET Int /\ {per[p] : p \in P} # {}
    <3>1. P # {}
      BY <1>5
    <3> HIDE DEF per, P
    <3> QED
      BY <1>3, <3>1
  <2> HIDE DEF per, P
  <2>4. Worth(S, k, by) = Max({per[p] : p \in P})
    BY <2>1, Zenon DEF Worth, per
  <2>5. /\ Worth(S, k, by) \in {per[p] : p \in P}
        /\ \A y \in {per[p] : p \in P} : y <= Worth(S, k, by)
    BY <2>2, <2>3, <2>4, MaxOfFinite
  <2> QED
    BY <1>3, <2>5
<1> QED
  BY <1>3, <1>5

\* It is the value of one of the perils.
LEMMA WorthIsReached ==
  ASSUME NEW S, Valued(S), NEW by, NEW k, At(S, k, by) # {}
  PROVE  \E p \in DOMAIN PerPeril(S, k, by) : PerPeril(S, k, by)[p] = Worth(S, k, by)
<1> DEFINE per == PerPeril(S, k, by)
<1>1. IsFiniteSet(DOMAIN per) /\ DOMAIN per # {} /\ \A p \in DOMAIN per : per[p] \in Nat
  <2>1. DOMAIN per = {f.peril : f \in At(S, k, by)} /\ \A p \in DOMAIN per : per[p] \in Nat
    BY PerPerilType
  <2> DEFINE g == [x \in At(S, k, by) |-> x.peril]
  <2>2. IsFiniteSet(At(S, k, by))
    BY FS_Subset DEF At, Valued
  <2>3. IsFiniteSet({g[x] : x \in At(S, k, by)})
    <3> HIDE DEF g
    <3> QED
      BY <2>2, FiniteImage
  <2>4. {g[x] : x \in At(S, k, by)} = {f.peril : f \in At(S, k, by)}
    OBVIOUS
  <2> HIDE DEF g, per
  <2> QED
    BY <2>1, <2>3, <2>4
<1> HIDE DEF per
<1>2. Range(per) = {per[p] : p \in DOMAIN per}
  BY DEF Range
<1>3. IsFiniteSet({per[p] : p \in DOMAIN per})
  BY <1>1, FiniteImage
<1>4. {per[p] : p \in DOMAIN per} \in SUBSET Int /\ {per[p] : p \in DOMAIN per} # {}
  BY <1>1
<1>5. Max(Range(per)) \in {per[p] : p \in DOMAIN per}
  BY <1>2, <1>3, <1>4, MaxOfFinite
<1> QED
  BY <1>5 DEF per, Worth

\* The facts of a place that are among others are worth no more than theirs.
LEMMA WorthGrows ==
  ASSUME NEW S, NEW T, Valued(S), Valued(T), NEW by, NEW k, At(S, k, by) # {}, At(S, k, by) \subseteq At(T, k, by)
  PROVE  Worth(S, k, by) <= Worth(T, k, by)
<1> DEFINE a == PerPeril(S, k, by)
           b == PerPeril(T, k, by)
<1>a. /\ \A p \in DOMAIN a : a[p] = TivOf(OfPeril(S, k, by, p)) /\ a[p] \in Nat
      /\ \E p \in DOMAIN a : a[p] = Worth(S, k, by)
      /\ Worth(S, k, by) \in Nat
  <2>1. At(S, k, by) # {}
    OBVIOUS
  <2>2. \A p \in DOMAIN a : a[p] = TivOf(OfPeril(S, k, by, p)) /\ a[p] \in Nat
    BY PerPerilType
  <2>3. Worth(S, k, by) \in Nat
    BY <2>1, PerPerilType
  <2>4. \E p \in DOMAIN a : a[p] = Worth(S, k, by)
    BY <2>1, WorthIsReached
  <2> QED
    BY <2>2, <2>3, <2>4
<1>b. /\ \A p \in DOMAIN b : b[p] = TivOf(OfPeril(T, k, by, p)) /\ b[p] \in Nat
      /\ \A p \in DOMAIN b : b[p] <= Worth(T, k, by)
      /\ Worth(T, k, by) \in Nat
  <2>1. At(T, k, by) # {}
    OBVIOUS
  <2> QED
    BY <2>1, PerPerilType
<1>1. PICK p \in DOMAIN a : a[p] = Worth(S, k, by)
  BY <1>a
<1>2. DOMAIN a = {f.peril : f \in At(S, k, by)} /\ DOMAIN b = {f.peril : f \in At(T, k, by)}
  BY PerPerilType
<1>3. p \in DOMAIN b
  <2> HIDE DEF a, b
  <2> QED
    BY <1>2
<1>4. a[p] = TivOf(OfPeril(S, k, by, p)) /\ b[p] = TivOf(OfPeril(T, k, by, p))
  BY <1>1, <1>3, <1>a, <1>b
<1>5. OfPeril(S, k, by, p) \in SUBSET OfPeril(T, k, by, p) /\ Valued(OfPeril(T, k, by, p))
  <2>1. OfPeril(T, k, by, p) \in SUBSET T
    BY DEF OfPeril
  <2>2. Valued(OfPeril(T, k, by, p))
    BY <2>1, FS_Subset DEF Valued
  <2>3. OfPeril(S, k, by, p) \in SUBSET OfPeril(T, k, by, p)
    BY DEF OfPeril, At
  <2> QED
    BY <2>2, <2>3
<1>6. TivOf(OfPeril(S, k, by, p)) <= TivOf(OfPeril(T, k, by, p))
  BY <1>5, TivGrows
<1>7. b[p] <= Worth(T, k, by) /\ Worth(T, k, by) \in Nat /\ b[p] \in Nat /\ Worth(S, k, by) \in Nat /\ a[p] \in Nat
  BY <1>3, <1>a, <1>b
<1> QED
  BY <1>1, <1>4, <1>6, <1>7

\* What is shown of each place: the largest of the values of its perils.
Places(S, by) == {GrainKey(f, by) : f \in S}
Values(S, by) == [k \in Places(S, by) |-> Worth(S, k, by)]
\* The two ways to ask for the largest peril show these values.
LEMMA ValuesShown ==
  ASSUME NEW S, NEW by, NEW base
  PROVE  /\ CombineAtGrain(S, by, Max_, base) = Values(S, by)
         /\ ScopeTiv(S, by, Max_, base) = Values(S, by)
<1>1. CombineAtGrain(S, by, Max_, base) = [k \in Places(S, by) |-> Worth(S, k, by)]
  <2> DEFINE v == [k \in {GrainKey(f, by) : f \in S} |-> Max(Range(PerPeril(S, k, by)))]
  <2>1. Max_ # Distinct /\ Max_ # Base /\ Max_ # Separate
    BY DEF Max_, Distinct, Base, Separate
  <2>2. CombineAtGrain(S, by, Max_, base) = v
    BY <2>1 DEF CombineAtGrain
  <2> QED
    BY <2>2, Zenon DEF Places, Worth
<1>2. Max_ # Separate
  BY DEF Max_, Separate
<1> QED
  BY <1>1, <1>2 DEF ScopeTiv, Values

\* They are natural numbers, each at most their sum.
LEMMA ValuesType ==
  ASSUME NEW S, Valued(S), NEW by
  PROVE  /\ IsFiniteSet(Places(S, by))
         /\ DOMAIN Values(S, by) = Places(S, by)
         /\ \A k \in Places(S, by) : /\ At(S, k, by) # {}
                                 /\ Values(S, by)[k] = Worth(S, k, by)
                                 /\ Values(S, by)[k] \in Nat
                                 /\ Values(S, by)[k] <= SumOf(Values(S, by))
         /\ SumOf(Values(S, by)) \in Nat
<1> DEFINE v == Values(S, by)
           h == [f \in S |-> GrainKey(f, by)]
<1>1. IsFiniteSet(Places(S, by))
  <2>1. IsFiniteSet(S)
    BY DEF Valued
  <2>2. IsFiniteSet({h[f] : f \in S})
    <3> HIDE DEF h
    <3> QED
      BY <2>1, FiniteImage
  <2>3. {h[f] : f \in S} = Places(S, by)
    BY DEF Places
  <2> QED
    BY <2>2, <2>3
<1>2. DOMAIN v = Places(S, by) /\ \A k \in Places(S, by) : v[k] = Worth(S, k, by)
  BY DEF Values
<1>3. \A k \in Places(S, by) : At(S, k, by) # {} /\ Worth(S, k, by) \in Nat
  <2> SUFFICES ASSUME NEW k \in Places(S, by) PROVE At(S, k, by) # {} /\ Worth(S, k, by) \in Nat
    OBVIOUS
  <2>1. At(S, k, by) # {}
    BY DEF Places, At
  <2> QED
    BY <2>1, PerPerilType
<1> HIDE DEF v
<1>4. SumOf(v) = SumOver(v, Places(S, by))
  BY <1>2, Zenon DEF SumOf, SumOver
<1>5. \A k \in Places(S, by) : v[k] \in Nat
  BY <1>2, <1>3
<1>6. \A k \in Places(S, by) : v[k] <= SumOver(v, Places(S, by))
  BY <1>1, <1>5, TermOfSum
<1>7. SumOver(v, Places(S, by)) \in Nat
  BY <1>1, <1>5, SumGrows
<1> QED
  BY <1>1, <1>2, <1>3, <1>4, <1>5, <1>6, <1>7 DEF v

\* A place is at most the whole, and a deal at most the portfolio when its facts
\* of the place are the portfolio's.
LEMMA SharesAtMostOne ==
  ASSUME None \notin Int, NEW D, NEW P, Valued(D), Valued(P), NEW g, <<g>> \in Places(D, <<"geo">>),
         NEW part \in BOOLEAN, part => (<<g>> \in Places(P, <<"geo">>) => At(D, <<g>>, <<"geo">>) \subseteq At(P, <<g>>, <<"geo">>))
  PROVE  LET s == Shares(g, Values(D, <<"geo">>)[<<g>>], SumOf(Values(D, <<"geo">>)), Values(P, <<"geo">>))
         IN (part => AtMostOne(s.dealShare)) /\ AtMostOne(s.geoShare) /\ AtMostOne(s.concentration)
<1> DEFINE k == <<g>>
           n == Values(D, <<"geo">>)[k]
           whole == AtKey(Values(P, <<"geo">>), k, 0)
           s == Shares(g, n, SumOf(Values(D, <<"geo">>)), Values(P, <<"geo">>))
<1>1. /\ n \in Nat /\ n = Worth(D, k, <<"geo">>) /\ n <= SumOf(Values(D, <<"geo">>)) /\ SumOf(Values(D, <<"geo">>)) \in Nat /\ SumOf(Values(P, <<"geo">>)) \in Nat
      /\ At(D, k, <<"geo">>) # {}
  BY ValuesType
<1>2. whole \in Nat /\ whole <= SumOf(Values(P, <<"geo">>)) /\ (part /\ whole # 0 => n <= whole)
  <2>1. CASE k \in Places(P, <<"geo">>)
    <3>1. whole = Worth(P, k, <<"geo">>) /\ whole \in Nat /\ whole <= SumOf(Values(P, <<"geo">>))
      BY <2>1, ValuesType DEF AtKey
    <3>2. part => At(D, k, <<"geo">>) \subseteq At(P, k, <<"geo">>)
      BY <2>1
    <3>3. part => n <= whole
      BY <1>1, <3>1, <3>2, WorthGrows
    <3> QED
      BY <3>1, <3>3
  <2>2. CASE k \notin Places(P, <<"geo">>)
    <3>1. whole = 0
      BY <2>2, ValuesType DEF AtKey
    <3> QED
      BY <1>1, <3>1
  <2> QED
    BY <2>1, <2>2
<1>3. \A a, b \in Nat : (b # 0 => a <= b) => AtMostOne(SafeRatio(a, b))
  <2> SUFFICES ASSUME NEW a \in Nat, NEW b \in Nat, b # 0 => a <= b PROVE AtMostOne(SafeRatio(a, b))
    OBVIOUS
  <2>1. CASE b = 0
    BY <2>1 DEF AtMostOne, SafeRatio
  <2>2. CASE b # 0
    <3>1. SafeRatio(a, b) = <<a, b>>
      BY <2>2 DEF SafeRatio
    <3> QED
      BY <2>2, <3>1 DEF AtMostOne
  <2> QED
    BY <2>1, <2>2
<1>4. /\ s.dealShare = SafeRatio(n, whole)
      /\ s.geoShare = SafeRatio(whole, SumOf(Values(P, <<"geo">>)))
      /\ s.concentration = SafeRatio(n, SumOf(Values(D, <<"geo">>)))
  BY DEF Shares
<1> HIDE DEF n, whole
<1>5. (part => AtMostOne(SafeRatio(n, whole))) /\ AtMostOne(SafeRatio(whole, SumOf(Values(P, <<"geo">>)))) /\ AtMostOne(SafeRatio(n, SumOf(Values(D, <<"geo">>))))
  BY <1>1, <1>2, <1>3
<1>6. (part => AtMostOne(s.dealShare)) /\ AtMostOne(s.geoShare) /\ AtMostOne(s.concentration)
  <2> HIDE DEF s
  <2> QED
    BY <1>4, <1>5, Zenon
<1> QED
  BY <1>6 DEF n

\* What is drawn on a map.
Selected(req, raw) == ApplyFilters(CountyFallback(raw, req.level), req.filters)
Tivs(req, view, raw) == ScopeTiv(Selected(req, raw), <<"geo">>, view.method, view.base)
LocationsAt(req, view, raw) == ScopeCount(Selected(req, raw), <<"geo">>, view.method)
FeatureAt(req, view, raw, loads, k) ==
  Feature(req, view, k[1], Tivs(req, view, raw), LocationsAt(req, view, raw), PortfolioTiv(req, view, loads),
          PriorFigures(req, view, loads),
          LookupIndustry(k[1], SegmentForShare(Selected(req, raw), req.filters.segments)),
          k[1] \in Geometries(req, view, loads))
Removed(req, view, loads, k) ==
  [geo |-> k[1], hasGeometry |-> k[1] \in Geometries(req, view, loads), tiv |-> None, count |-> None, value |-> None,
   yoy |-> YoyChange(None, PriorFigures(req, view, loads).tiv[k]), warnings |-> {}]

\* A map draws the places of the view, and those that only the comparison has.
LEMMA MapFeatures ==
  ASSUME NEW req, NEW view, NEW raw, NEW loads, ~ Failed(MapOf(req, view, raw, loads))
  PROVE  \/ Selected(req, raw) = {} /\ MapOf(req, view, raw, loads).features = {}
         \/ /\ ~ Failed(Tivs(req, view, raw)) /\ ~ Failed(PriorFigures(req, view, loads))
            /\ MapOf(req, view, raw, loads).features =
                 {FeatureAt(req, view, raw, loads, k) : k \in DOMAIN Tivs(req, view, raw)}
                 \cup {Removed(req, view, loads, k) :
                         k \in DOMAIN PriorFigures(req, view, loads).tiv \ DOMAIN Tivs(req, view, raw)}
<1> DEFINE D == Selected(req, raw)
           T == Tivs(req, view, raw)
           P == PortfolioTiv(req, view, loads)
           Q == PriorFigures(req, view, loads)
           m == MapOf(req, view, raw, loads)
           all == {FeatureAt(req, view, raw, loads, k) : k \in DOMAIN T}
                    \cup {Removed(req, view, loads, k) : k \in DOMAIN Q.tiv \ DOMAIN T}
           rest == Headings(req, view, raw, D) \cup P.warnings
                     \cup (IF view.comparison = None THEN {"WARN_PRIOR_DATASET_NOT_SELECTED"} ELSE {})
<1>1. CASE D = {}
  <2>1. m.features = {}
    BY <1>1 DEF MapOf, Selected
  <2> QED
    BY <1>1, <2>1
<1>2. CASE D # {}
  <2>1. m = IF Failed(T) THEN T ELSE IF Failed(Q) THEN Q
            ELSE [features |-> all, currency |-> view.currency, warnings |-> rest]
    BY <1>2, Zenon DEF MapOf, Selected, Tivs, LocationsAt, FeatureAt, Removed
  <2> HIDE DEF T, Q, all, rest, m
  <2>2. ~ Failed(m)
    BY DEF m
  <2>3. ~ Failed(T) /\ ~ Failed(Q) /\ m.features = all
    BY <2>1, <2>2
  <2> QED
    BY <2>3, Zenon DEF T, Q, all, m
<1> QED
  BY <1>1, <1>2

\* What a place that is drawn says.
LEMMA FeatureFields ==
  ASSUME NEW req, NEW view, NEW raw, NEW loads, NEW k
  PROVE  LET f == FeatureAt(req, view, raw, loads, k)
             T == Tivs(req, view, raw)
             s == Shares(k[1], T[<<k[1]>>], SumOf(T), PortfolioTiv(req, view, loads).tiv)
         IN /\ f.geo = k[1] /\ f.tiv = T[<<k[1]>>] /\ f.count = AtKey(LocationsAt(req, view, raw), <<k[1]>>, 0)
            /\ f.dealShare = s.dealShare /\ f.geoShare = s.geoShare /\ f.concentration = s.concentration
            /\ f.yoy = IF view.comparison # None
                       THEN YoyChange(T[<<k[1]>>], AtKey(PriorFigures(req, view, loads).tiv, <<k[1]>>, None)) ELSE None
BY DEF FeatureAt, Feature

\* A feature is of the geography of its place.
LEMMA FeatureGeo ==
  ASSUME NEW req, NEW view, NEW raw, NEW loads, NEW k
  PROVE  FeatureAt(req, view, raw, loads, k).geo = k[1]
BY DEF FeatureAt, Feature

\* What the map says of a place are the shares of its value.
LEMMA MapShares ==
  ASSUME NEW req, NEW view, NEW raw, NEW loads, view.method = Max_,
         ~ Failed(MapOf(req, view, raw, loads)),
         NEW f \in MapOf(req, view, raw, loads).features, f.tiv # None
  PROVE  \E k \in Places(Selected(req, raw), <<"geo">>) :
           LET s == Shares(k[1], Values(Selected(req, raw), <<"geo">>)[<<k[1]>>],
                           SumOf(Values(Selected(req, raw), <<"geo">>)), PortfolioTiv(req, view, loads).tiv)
           IN f.geo = k[1] /\ f.dealShare = s.dealShare /\ f.geoShare = s.geoShare /\ f.concentration = s.concentration
<1> DEFINE D == Selected(req, raw)
           T == Tivs(req, view, raw)
           P == PortfolioTiv(req, view, loads)
<1>1. T = Values(D, <<"geo">>)
  BY ValuesShown DEF Tivs
<1>2. PICK k \in DOMAIN T : f = FeatureAt(req, view, raw, loads, k)
  <2>1. \A k : Removed(req, view, loads, k).tiv = None
    BY DEF Removed
  <2> QED
    BY <2>1, MapFeatures
<1> DEFINE s == Shares(k[1], T[<<k[1]>>], SumOf(T), P.tiv)
<1>3. f.geo = k[1] /\ f.dealShare = s.dealShare /\ f.geoShare = s.geoShare /\ f.concentration = s.concentration
  <2> HIDE DEF T, P
  <2>1. f.geo = k[1]
    BY <1>2, FeatureGeo
  <2>2. f.dealShare = s.dealShare /\ f.geoShare = s.geoShare /\ f.concentration = s.concentration
    BY <1>2, FeatureFields DEF T, P
  <2> QED
    BY <2>1, <2>2
<1> HIDE DEF T, P, D
<1>4. k \in Places(D, <<"geo">>)
  BY <1>1, <1>2 DEF Values
<1>5. s = Shares(k[1], Values(D, <<"geo">>)[<<k[1]>>], SumOf(Values(D, <<"geo">>)), P.tiv)
  BY <1>1, Zenon
<1> HIDE DEF s
<1> QED
  BY <1>3, <1>4, <1>5, Zenon DEF D, P

\* A selection is finite, and its facts at a place are of that geography.
LEMMA SelectedFacts ==
  ASSUME NEW req, NEW raw, Valued(raw)
  PROVE  Valued(Selected(req, raw)) /\ Selected(req, raw) \subseteq raw
<1>1. Selected(req, raw) \subseteq raw
  <2>1. CountyFallback(raw, req.level) \subseteq raw
    BY DEF CountyFallback, AtLevel, FallbackRows
  <2> QED
    BY <2>1 DEF Selected, ApplyFilters
<1> QED
  BY <1>1, FS_Subset DEF Valued

\* The facts of a deal that is part of the portfolio, where the portfolio has a
\* value too, are facts of the portfolio: a state that falls back in the deal
\* does so in the portfolio, or has no value of its own there, when nothing else
\* goes by its geography.
LEMMA DealInPortfolio ==
  ASSUME NEW req, NEW raw, NEW same, raw \subseteq same, NEW g,
         req.level = "COUNTY" => NamesOneState(same, g),
         <<g>> \in Places(Selected(req, same), <<"geo">>)
  PROVE  At(Selected(req, raw), <<g>>, <<"geo">>) \subseteq At(Selected(req, same), <<g>>, <<"geo">>)
<1> SUFFICES ASSUME NEW f \in At(Selected(req, raw), <<g>>, <<"geo">>) PROVE f \in At(Selected(req, same), <<g>>, <<"geo">>)
  OBVIOUS
<1>1. GrainKey(f, <<"geo">>) = <<g>> /\ f \in Selected(req, raw)
  BY DEF At
<1>2. f.geo = g
  <2>1. <<f.geo>> = <<g>>
    BY <1>1, GeoKey
  <2> QED
    BY <2>1
<1>3. f \in CountyFallback(raw, req.level) /\ (f \in CountyFallback(same, req.level) => f \in Selected(req, same))
  BY <1>1 DEF Selected, ApplyFilters
<1>4. PICK h : h \in Selected(req, same) /\ h.geo = g
  <2>1. PICK h \in Selected(req, same) : GrainKey(h, <<"geo">>) = <<g>>
    BY DEF Places
  <2>2. <<h.geo>> = <<g>>
    BY <2>1, GeoKey
  <2> QED
    BY <2>1, <2>2
<1>5. h \in CountyFallback(same, req.level)
  BY <1>4 DEF Selected, ApplyFilters
<1>6. f \in CountyFallback(same, req.level)
  <2>1. CASE f \in AtLevel(raw, req.level)
    BY <2>1 DEF AtLevel, CountyFallback
  <2>2. CASE req.level = "COUNTY" /\ f \in FallbackRows(raw)
    <3>1. f.level = "STATE" /\ f.state # None /\ f \in same
      BY <2>2 DEF FallbackRows, AtLevel
    <3>2. h.level # "COUNTY" /\ (h.level = "STATE" => h.state = f.state)
      <4>1. h \in same
        BY <1>5 DEF CountyFallback, AtLevel, FallbackRows
      <4> QED
        BY <4>1, <2>2, <3>1, <1>2, <1>4 DEF NamesOneState
    <3>3. h \in FallbackRows(same)
      BY <1>5, <2>2, <3>2 DEF CountyFallback, AtLevel
    <3>4. f.state \notin StatesWithCounties(same)
      BY <3>2, <3>3 DEF FallbackRows, AtLevel
    <3> QED
      BY <2>2, <3>1, <3>4 DEF CountyFallback, FallbackRows, AtLevel
  <2>3. f \in AtLevel(raw, req.level) \/ (req.level = "COUNTY" /\ f \in FallbackRows(raw))
    BY <1>3 DEF CountyFallback
  <2> QED
    BY <2>1, <2>2, <2>3
<1> QED
  BY <1>1, <1>3, <1>6 DEF At

\* What is loaded is of the rows found.
LEMMA LoadIsOfRows ==
  ASSUME NEW ids, NEW found
  PROVE  /\ Load(ids, found).rows = UNION {found[d] : d \in {c \in ids \cap DOMAIN found : found[c] # None}}
         /\ Load(ids, found).rows \subseteq RowsOf(found)
<1> DEFINE failed == {d \in ids \cap DOMAIN found : found[d] = None}
           read == {c \in ids \cap DOMAIN found : found[c] # None}
<1>1. Load(ids, found).rows = UNION {found[d] : d \in (ids \cap DOMAIN found) \ failed}
  BY DEF Load
<1>2. (ids \cap DOMAIN found) \ failed = read
  OBVIOUS
<1>3. Load(ids, found).rows = UNION {found[d] : d \in read}
  <2> HIDE DEF failed, read
  <2> QED
    BY <1>1, <1>2
<1>4. \A d \in read : found[d] \in Range(found) \ {None}
  BY DEF Range
<1>5. UNION {found[d] : d \in read} \subseteq RowsOf(found)
  <2> HIDE DEF read
  <2> QED
    BY <1>4 DEF RowsOf
<1> QED
  BY <1>3, <1>5

\* A view that is shown is what was loaded of its scope.
LEMMA ViewOfScope ==
  ASSUME NEW req, NEW found, ~ Failed(ResolveView(req, found))
  PROVE  LET scope == ScopeOf(req) IN
         ~ Failed(scope) /\ ResolveView(req, found) = ViewOf_(scope, Load(scope.datasets, found))
<1> DEFINE scope == ScopeOf(req)
           whole == ViewOf_(scope, Load(scope.datasets, found))
<1>1. ResolveView(req, found) = IF Failed(scope) THEN scope ELSE whole
  BY Zenon DEF ResolveView, Given
<1> HIDE DEF scope, whole
<1>2. ~ Failed(scope) /\ ResolveView(req, found) = whole
  BY <1>1
<1> QED
  BY <1>2 DEF scope, whole

\* It is of the rows found.
LEMMA ViewIsOfRows ==
  ASSUME NEW req, NEW found, ~ Failed(ResolveView(req, found))
  PROVE  ResolveView(req, found).facts \subseteq RowsOf(found)
<1> DEFINE scope == ScopeOf(req)
<1>1. ResolveView(req, found) = ViewOf_(scope, Load(scope.datasets, found))
  BY ViewOfScope
<1> HIDE DEF scope
<1>2. ResolveView(req, found).facts = Load(scope.datasets, found).rows
  BY <1>1 DEF ViewOf_
<1> QED
  BY <1>2, LoadIsOfRows

\* Rows that are found are finitely many and have values.
LEMMA FoundRows ==
  ASSUME NEW loads \in Loads
  PROVE  Valued(RowsOf(loads.view)) /\ Valued(RowsOf(loads.portfolio))
BY LoadAssumption DEF Valued

\* A deal of the portfolio is of datasets of the portfolio.
LEMMA DealScope ==
  ASSUME NEW req, InPortfolio(req), ~ Failed(ScopeOf(req))
  PROVE  /\ ScopeOf(req).method = Max_
         /\ req.targets # {} => ScopeOf(req).datasets \subseteq PortfolioDatasets
<1> DEFINE scope == ScopeOf(req)
           t == CHOOSE x \in req.targets : TRUE
           PD == PortfolioDatasets
<1>0. /\ Failed(Invalid) /\ Failed(NotFound) /\ Failed(Conflict)
      /\ ~ (Cardinality(req.targets) > 1)
  <2>1. Failed(Invalid) /\ Failed(NotFound) /\ Failed(Conflict)
    BY DEF Failed
  <2>2. Cardinality(req.targets) > 1 => scope = Invalid
    BY DEF ScopeOf
  <2> QED
    BY <2>1, <2>2
<1>1. CASE req.targets = {}
  <2> DEFINE cur == {p.currency : p \in {q \in Range(Programmes) : q.dataset \in PD}}
  <2>1. scope = Joint(PD, cur)
    BY <1>0, <1>1, Zenon DEF ScopeOf
  <2> HIDE DEF cur
  <2>2. CurrencyForScope(cur) # Conflict
    <3>1. CurrencyForScope(cur) = Conflict => Joint(PD, cur) = Conflict
      BY DEF Joint
    <3> QED
      BY <1>0, <2>1, <3>1, Zenon
  <2>3. Joint(PD, cur).method = Max_
    BY <2>2 DEF Joint, Scope
  <2> QED
    BY <1>1, <2>1, <2>3
<1>2. CASE req.targets # {}
  <2> DEFINE p == Programme(t.id)
             comparison == ComparisonOf(req)
  <2>1. t \in req.targets /\ t.kind = "programme" /\ p.dataset \in PD
    BY <1>2 DEF InPortfolio
  <2>2. scope = IF t.id \in Ids THEN Single(p, comparison) ELSE NotFound
    <3> HIDE DEF t
    <3> QED
      BY <1>0, <1>2, <2>1, Zenon DEF ScopeOf, t
  <2>3. t.id \in Ids
    BY <1>0, <2>2, Zenon
  <2>4. comparison # NotFound
    <3>1. comparison = NotFound => Single(p, comparison) = NotFound
      BY DEF Single
    <3> QED
      BY <1>0, <2>2, <2>3, <3>1, Zenon
  <2> HIDE DEF comparison, p, scope
  <2>5. Single(p, comparison).datasets = {p.dataset} /\ Single(p, comparison).method = Max_
    BY <2>4 DEF Single, Scope
  <2>6. scope.datasets = {p.dataset} /\ scope.method = Max_
    BY <2>2, <2>3, <2>5
  <2> QED
    BY <2>1, <2>6 DEF scope
<1> QED
  BY <1>1, <1>2

\* The facts of a deal of the portfolio are among those it is compared with,
\* when they were found alike.
LEMMA DealFacts ==
  ASSUME NEW req, NEW loads, InPortfolio(req), ~ Failed(ResolveView(req, loads.view))
  PROVE  LET view == ResolveView(req, loads.view)
         IN /\ view.method = Max_
            /\ FoundAlike(req, view, loads) => view.facts \subseteq WholeFacts(req, view, loads)
<1> DEFINE view == ResolveView(req, loads.view)
           scope == ScopeOf(req)
           v == loads.view
           w == loads.portfolio
<1>1. ~ Failed(scope) /\ view = ViewOf_(scope, Load(scope.datasets, v))
  BY ViewOfScope
<1>2. scope.method = Max_ /\ (req.targets # {} => scope.datasets \subseteq PortfolioDatasets)
  BY <1>1, DealScope
<1> HIDE DEF view, scope, v, w
<1>3. view.method = Max_ /\ view.datasets = scope.datasets /\ view.facts = Load(scope.datasets, v).rows
  BY <1>1, <1>2 DEF ViewOf_
<1>4. ASSUME FoundAlike(req, view, loads) PROVE view.facts \subseteq WholeFacts(req, view, loads)
  <2>1. CASE req.targets = {}
    BY <2>1 DEF WholeFacts
  <2>2. CASE req.targets # {}
    <3>1. WholeFacts(req, view, loads) = Load(PortfolioDatasets, w).rows
      BY <2>2 DEF WholeFacts, PortfolioFacts, w
    <3>2. \A d \in scope.datasets : AtKey(v, d, None) \in {None, AtKey(w, d, None)}
      BY <1>3, <1>4, <2>2 DEF FoundAlike, v, w
    <3> SUFFICES ASSUME NEW f \in view.facts PROVE f \in Load(PortfolioDatasets, w).rows
      BY <3>1
    <3>3. PICK d \in scope.datasets \cap DOMAIN v : v[d] # None /\ f \in v[d]
      <4>1. f \in UNION {v[d] : d \in {c \in scope.datasets \cap DOMAIN v : v[c] # None}}
        BY <1>3, LoadIsOfRows
      <4> QED
        BY <4>1
    <3>4. d \in DOMAIN w /\ w[d] = v[d]
      BY <3>2, <3>3 DEF AtKey
    <3>5. d \in {c \in PortfolioDatasets \cap DOMAIN w : w[c] # None} /\ f \in w[d]
      BY <1>2, <2>2, <3>3, <3>4
    <3>6. f \in UNION {w[c] : c \in {b \in PortfolioDatasets \cap DOMAIN w : w[b] # None}}
      BY <3>5
    <3> QED
      BY <3>6, LoadIsOfRows
  <2> QED
    BY <2>1, <2>2
<1> QED
  BY <1>3, <1>4 DEF view

\* Hence the shares of the map are shares.
LEMMA MapOfDeal ==
  ASSUME NEW req, NEW loads \in Loads, InPortfolio(req), ~ Failed(MapReply(req, loads)),
         NEW f \in MapReply(req, loads).features, f.tiv # None
  PROVE  /\ AtMostOne(f.geoShare) /\ AtMostOne(f.concentration)
         /\ Comparable(req, loads, f.geo) => AtMostOne(f.dealShare)
<1> DEFINE view == ResolveView(req, loads.view)
           raw == PerilFilter(view.facts, req.perils)
           all == PerilFilter(WholeFacts(req, view, loads), req.perils)
           same == {h \in all : h.currency = view.currency}
           D == Selected(req, raw)
           P == Selected(req, same)
           part == Comparable(req, loads, f.geo)
<1>1. ~ Failed(view) /\ MapReply(req, loads) = MapOf(req, view, raw, loads)
  <2>1. MapReply(req, loads) = IF Failed(view) THEN view ELSE MapOf(req, view, raw, loads)
    BY Zenon DEF MapReply, Given
  <2> HIDE DEF view, raw
  <2> QED
    BY <2>1
<1>2. /\ view.method = Max_
      /\ FoundAlike(req, view, loads) => view.facts \subseteq WholeFacts(req, view, loads)
      /\ view.facts \subseteq RowsOf(loads.view)
  BY <1>1, DealFacts, ViewIsOfRows
<1>3. part <=> /\ FoundAlike(req, view, loads) /\ OneCurrency(view)
               /\ req.level = "COUNTY" => NamesOneState(WholeFacts(req, view, loads), f.geo)
  BY Zenon DEF Comparable
<1>4. part \in BOOLEAN
  BY DEF Comparable
<1> HIDE DEF view, part
<1>5. part => raw \subseteq same /\ (req.level = "COUNTY" => NamesOneState(same, f.geo))
  <2> SUFFICES ASSUME part PROVE raw \subseteq same /\ (req.level = "COUNTY" => NamesOneState(same, f.geo))
    OBVIOUS
  <2>1. raw \subseteq same
    BY <1>2, <1>3 DEF PerilFilter, OneCurrency
  <2>2. same \subseteq WholeFacts(req, view, loads)
    BY DEF PerilFilter
  <2> HIDE DEF same
  <2>3. req.level = "COUNTY" => NamesOneState(same, f.geo)
    BY <1>3, <2>2 DEF NamesOneState
  <2> QED
    BY <2>1, <2>3
<1>6. Valued(raw) /\ Valued(same)
  <2>1. Valued(RowsOf(loads.view)) /\ Valued(RowsOf(loads.portfolio))
    BY FoundRows
  <2>2. PortfolioFacts(loads.portfolio) \subseteq RowsOf(loads.portfolio)
    BY LoadIsOfRows DEF PortfolioFacts
  <2>3. WholeFacts(req, view, loads) \subseteq RowsOf(loads.view) \/ WholeFacts(req, view, loads) \subseteq RowsOf(loads.portfolio)
    BY <1>2, <2>2 DEF WholeFacts
  <2>4. raw \subseteq view.facts /\ same \subseteq WholeFacts(req, view, loads)
    BY DEF PerilFilter
  <2> HIDE DEF raw, same
  <2> QED
    BY <1>2, <2>1, <2>3, <2>4, FS_Subset DEF Valued
<1>7. PortfolioTiv(req, view, loads).tiv = Values(P, <<"geo">>)
  <2>1. PortfolioTiv(req, view, loads).tiv = CombineAtGrain(P, <<"geo">>, Max_, None)
    BY Zenon DEF PortfolioTiv, Selected
  <2> HIDE DEF P
  <2> QED
    BY <2>1, ValuesShown
<1> HIDE DEF raw, same
<1>8. PICK k \in Places(D, <<"geo">>) :
        LET s == Shares(k[1], Values(D, <<"geo">>)[<<k[1]>>], SumOf(Values(D, <<"geo">>)), Values(P, <<"geo">>))
        IN f.geo = k[1] /\ f.dealShare = s.dealShare /\ f.geoShare = s.geoShare /\ f.concentration = s.concentration
  <2>1. ~ Failed(MapOf(req, view, raw, loads)) /\ f \in MapOf(req, view, raw, loads).features
    BY <1>1, Zenon
  <2>2. \E k \in Places(D, <<"geo">>) :
          LET s == Shares(k[1], Values(D, <<"geo">>)[<<k[1]>>], SumOf(Values(D, <<"geo">>)), PortfolioTiv(req, view, loads).tiv)
          IN f.geo = k[1] /\ f.dealShare = s.dealShare /\ f.geoShare = s.geoShare /\ f.concentration = s.concentration
    BY <1>2, <2>1, MapShares
  <2> HIDE DEF D, P
  <2> QED
    BY <1>7, <2>2, Zenon
<1>9. <<k[1]>> \in Places(D, <<"geo">>)
  <2>1. PICK h \in D : k = GrainKey(h, <<"geo">>)
    BY DEF Places
  <2>2. k = <<h.geo>>
    BY <2>1, GeoKey
  <2> HIDE DEF D
  <2> QED
    BY <2>2
<1>10. Valued(D) /\ Valued(P)
  BY <1>6, SelectedFacts
<1>11. part => (<<k[1]>> \in Places(P, <<"geo">>) => At(D, <<k[1]>>, <<"geo">>) \subseteq At(P, <<k[1]>>, <<"geo">>))
  <2>1. f.geo = k[1]
    BY <1>8, Zenon
  <2> QED
    BY <2>1, <1>5, DealInPortfolio
<1> DEFINE s == Shares(k[1], Values(D, <<"geo">>)[<<k[1]>>], SumOf(Values(D, <<"geo">>)), Values(P, <<"geo">>))
<1> HIDE DEF D, P
<1>12. (part => AtMostOne(s.dealShare)) /\ AtMostOne(s.geoShare) /\ AtMostOne(s.concentration)
  BY <1>4, <1>9, <1>10, <1>11, SharesAtMostOne, ExposureAssumption
<1> HIDE DEF s
<1>13. f.dealShare = s.dealShare /\ f.geoShare = s.geoShare /\ f.concentration = s.concentration
  BY <1>8, Zenon DEF s
<1> QED
  BY <1>12, <1>13, Zenon DEF part

\* No other endpoint draws a map.
LEMMA OtherThanMap ==
  ASSUME Next, ~ MapCall
  PROVE  ~ Of("map")'
<1>1. CASE ViewNext
  <2>1. CASE CreateGroupCall
    BY <2>1 DEF CreateGroupCall, Of
  <2>2. CASE DetailCall
    BY <2>2 DEF DetailCall, Of
  <2>3. CASE PivotCall
    BY <2>3 DEF PivotCall, Of
  <2>4. CASE ExportCall
    BY <2>4 DEF ExportCall, Of
  <2>5. CASE LayersCall
    BY <2>5 DEF LayersCall, Of
  <2>6. CASE CatalogCall
    BY <2>6 DEF CatalogCall, Of
  <2> QED
    BY <1>1, <2>1, <2>2, <2>3, <2>4, <2>5, <2>6 DEF ViewNext
<1>2. CASE StormNext \/ FundNext \/ LossNext \/ HazardNext
  BY <1>2, OwnQuestions DEF StormOps, FundOps, LossOps, HazardOps, Of
<1>3. CASE Answered
  BY <1>3 DEF Answered, Of
<1> QED
  BY <1>1, <1>2, <1>3 DEF Next

(* What share of the portfolio a deal is: the deal and the portfolio are    *)
(* loaded, filtered and combined apart, and yet a programme of the          *)
(* portfolio is never more than the whole of it, in any geography, at any   *)
(* level, for any filters, whatever else fails to load, where the rows of   *)
(* the programme were found alike, are in its currency, and are not of a    *)
(* geography that also names something else.                                *)
THEOREM DealsAreParts == Spec => []DealShareIsAShare
<1>1. Init => DealShareIsAShare
  BY DEF Init, DealShareIsAShare, Shown, Of
<1>2. DealShareIsAShare /\ [Next]_vars => DealShareIsAShare'
  <2> SUFFICES ASSUME DealShareIsAShare, [Next]_vars PROVE DealShareIsAShare'
    OBVIOUS
  <2>1. CASE MapCall
    <3>1. PICK req \in Asking, loads \in Loads :
            /\ call' = [op |-> "map", req |-> req, loads |-> loads]
            /\ reply' = MapReply(req, loads)
      BY <2>1 DEF MapCall
    <3>2. call'.req = req /\ call'.loads = loads
      BY <3>1
    <3> SUFFICES ASSUME ~ Failed(MapReply(req, loads)), InPortfolio(req),
                        NEW f \in MapReply(req, loads).features, f.tiv # None
                 PROVE  /\ AtMostOne(f.geoShare) /\ AtMostOne(f.concentration)
                        /\ Comparable(req, loads, f.geo) => AtMostOne(f.dealShare)
      BY <3>1, <3>2, Zenon DEF DealShareIsAShare, Shown
    <3> QED
      BY MapOfDeal
  <2>2. CASE Next /\ ~ MapCall
    BY <2>2, OtherThanMap, Zenon DEF DealShareIsAShare, Shown
  <2>3. CASE UNCHANGED vars
    <3>1. call' = call /\ reply' = reply
      BY <2>3 DEF vars
    <3> QED
      BY <3>1, Zenon DEF DealShareIsAShare, Shown, Of
  <2> QED
    BY <2>1, <2>2, <2>3
<1> QED
  BY <1>1, <1>2, PTL DEF Spec

\* The sums of the values of a place, whatever the peril.
Totals(S, by) == [k \in Places(S, by) |-> TivOf(At(S, k, by))]
\* Adding the values of a selection gives these totals.
LEMMA TotalsShown ==
  ASSUME NEW S, Valued(S), None \notin Int, NEW by
  PROVE  /\ AggregateMeasure(S, "tiv", by) = Totals(S, by)
         /\ DOMAIN Totals(S, by) = Places(S, by) /\ IsFiniteSet(Places(S, by))
         /\ \A k \in Places(S, by) : Totals(S, by)[k] \in Nat
<1>1. {f \in S : f["tiv"] # None} = S
  BY DEF Valued
<1>2. AggregateMeasure(S, "tiv", by) = Totals(S, by)
  <2> DEFINE given == {f \in S : f["tiv"] # None}
  <2>1. AggregateMeasure(S, "tiv", by) =
          [k \in {GrainKey(f, by) : f \in given} |-> MapThenSumSet(LAMBDA f : f["tiv"], {f \in given : GrainKey(f, by) = k})]
    BY Zenon DEF AggregateMeasure
  <2>2. given = S
    BY <1>1
  <2> HIDE DEF given
  <2>3. AggregateMeasure(S, "tiv", by) =
          [k \in {GrainKey(f, by) : f \in S} |-> MapThenSumSet(LAMBDA f : f["tiv"], {f \in S : GrainKey(f, by) = k})]
    BY <2>1, <2>2, Zenon
  <2> QED
    BY <2>3, Zenon DEF Totals, TivOf, At, Places
<1>3. \A k \in Places(S, by) : TivOf(At(S, k, by)) \in Nat
  <2> SUFFICES ASSUME NEW k \in Places(S, by) PROVE TivOf(At(S, k, by)) \in Nat
    OBVIOUS
  <2>1. At(S, k, by) \in SUBSET S
    BY DEF At
  <2> QED
    BY <2>1, TivGrows
<1>4. IsFiniteSet(Places(S, by))
  BY ValuesType
<1> QED
  BY <1>2, <1>3, <1>4 DEF Totals

\* However the values are put together, each place has one.
LEMMA TivsType ==
  ASSUME NEW S, Valued(S), None \notin Int, NEW by, NEW method, NEW base, ~ Failed(ScopeTiv(S, by, method, base))
  PROVE  LET T == ScopeTiv(S, by, method, base)
         IN \A k \in DOMAIN T : T[k] \in Nat /\ k \in Places(S, by)
<1> DEFINE T == ScopeTiv(S, by, method, base)
<1>0. /\ Max_ # Distinct /\ Max_ # Base /\ Max_ # Separate /\ Distinct # Base /\ Distinct # Separate /\ Base # Separate
      /\ Failed(Invalid) /\ Failed(Raises)
  BY DEF Max_, Distinct, Base, Separate, Failed
<1>1. CASE method = Separate
  <2>1. T = AggregateMeasure(S, "tiv", by)
    BY <1>1 DEF ScopeTiv
  <2> QED
    BY <2>1, TotalsShown
<1>2. CASE method = Max_
  <2>1. T = Values(S, by)
    BY <1>2, ValuesShown
  <2> QED
    BY <2>1, ValuesType
<1>3. CASE method = Distinct
  <2>1. T = AggregateMeasure(S, "tiv", by)
    BY <1>0, <1>3 DEF ScopeTiv, CombineAtGrain
  <2> QED
    BY <2>1, TotalsShown
<1>4. CASE method = Base
  <2> DEFINE R == {f \in S : f.dataset = base}
  <2>1. T = IF base = None THEN Invalid ELSE AggregateMeasure(R, "tiv", by)
    BY <1>0, <1>4 DEF ScopeTiv, CombineAtGrain
  <2>2. T = AggregateMeasure(R, "tiv", by)
    <3> HIDE DEF R
    <3> QED
      BY <1>0, <2>1
  <2>3. Valued(R)
    BY FS_Subset DEF Valued
  <2>4. Places(R, by) \subseteq Places(S, by)
    BY DEF Places
  <2> HIDE DEF R, T
  <2>5. \A k \in DOMAIN T : T[k] \in Nat /\ k \in Places(R, by)
    BY <2>2, <2>3, TotalsShown
  <2> QED
    BY <2>4, <2>5 DEF T
<1>5. CASE method \notin {Separate, Max_, Distinct, Base}
  <2>1. T = Raises
    BY <1>0, <1>5 DEF ScopeTiv, CombineAtGrain
  <2> QED
    BY <1>0, <2>1
<1> QED
  BY <1>1, <1>2, <1>3, <1>4, <1>5

\* The places are the geographies.
LEMMA PlaceIsAGeo ==
  ASSUME NEW S, NEW k \in Places(S, <<"geo">>)
  PROVE  k = <<k[1]>>
<1>1. PICK f \in S : k = GrainKey(f, <<"geo">>)
  BY DEF Places
<1>2. k = <<f.geo>>
  BY <1>1, GeoKey
<1> QED
  BY <1>2

\* The figures of an earlier year are at places too.
LEMMA PriorPlaces ==
  ASSUME NEW req, NEW view, NEW loads, ~ Failed(PriorFigures(req, view, loads)),
         NEW k \in DOMAIN PriorFigures(req, view, loads).tiv
  PROVE  k = <<k[1]>>
<1> DEFINE Q == PriorFigures(req, view, loads)
           found == AtKey(loads.prior, view.comparison, {})
           rows == PerilFilter(found, req.perils)
           shown == ApplyFilters(CountyFallback(rows, req.level), req.filters)
<1>0. Failed(NotFound) /\ Failed(Raises)
  BY DEF Failed
<1>1. Q = IF view.comparison = None THEN [tiv |-> <<>>, count |-> <<>>]
          ELSE IF ByDataset(view.comparison) = None THEN NotFound
          ELSE IF found = None THEN Raises
          ELSE [tiv |-> CombineAtGrain(shown, <<"geo">>, Max_, None), count |-> LocationCountAtMaxPeril(shown, <<"geo">>)]
  BY Zenon DEF PriorFigures
<1> HIDE DEF Q, shown, found
<1>2. Q.tiv = <<>> \/ Q.tiv = CombineAtGrain(shown, <<"geo">>, Max_, None)
  BY <1>0, <1>1 DEF Q
<1>3. CASE Q.tiv = <<>>
  BY <1>3 DEF Q
<1>4. CASE Q.tiv = CombineAtGrain(shown, <<"geo">>, Max_, None)
  <2>1. Q.tiv = Values(shown, <<"geo">>)
    BY <1>4, ValuesShown
  <2>2. k \in Places(shown, <<"geo">>)
    BY <2>1 DEF Values, Q
  <2> QED
    BY <2>2, PlaceIsAGeo
<1> QED
  BY <1>2, <1>3, <1>4

\* The detail of a geography says what the map says of it.
Detail(req, view, raw, geo, loads) == DetailOf(req, geo, view, raw, Selected(req, raw), loads)
\* A detail that is shown was computed from figures that did not fail.
LEMMA DetailComputed ==
  ASSUME NEW req, NEW view, NEW raw, NEW geo, NEW loads, ~ Failed(Detail(req, view, raw, geo, loads))
  PROVE  ~ Failed(Tivs(req, view, raw)) /\ ~ Failed(PriorFigures(req, view, loads))
<1> DEFINE d == Detail(req, view, raw, geo, loads)
           T == Tivs(req, view, raw)
           Q == PriorFigures(req, view, loads)
<1>0. Failed(Raises)
  BY DEF Failed
<1>1. ~ Failed(T) /\ ~ Failed(Q)
  <2>1. Failed(T) => d = Raises
    BY Zenon DEF Detail, DetailOf, Given, Tivs
  <2>2. ~ Failed(T) /\ Failed(Q) => d = Q
    BY Zenon DEF Detail, DetailOf, Given, Tivs
  <2> HIDE DEF d, T, Q
  <2>3. ~ Failed(d)
    BY Zenon DEF d
  <2> QED
    BY <1>0, <2>1, <2>2, <2>3
<1> QED
  BY <1>1

\* What it says.
LEMMA DetailFields ==
  ASSUME NEW req, NEW view, NEW raw, NEW geo, NEW loads, ~ Failed(Detail(req, view, raw, geo, loads))
  PROVE  LET d == Detail(req, view, raw, geo, loads)
             T == Tivs(req, view, raw)
             s == Shares(geo, AtKey(T, <<geo>>, 0), SumOf(T), PortfolioTiv(req, view, loads).tiv)
         IN /\ d.geo = geo /\ d.tiv = AtKey(T, <<geo>>, 0) /\ d.count = AtKey(LocationsAt(req, view, raw), <<geo>>, 0)
            /\ d.dealShare = s.dealShare /\ d.geoShare = s.geoShare /\ d.concentration = s.concentration
            /\ d.yoy = IF view.comparison = None THEN [value |-> None, status |-> "NA"]
                       ELSE YoyChange(AtKey(T, <<geo>>, 0), AtKey(PriorFigures(req, view, loads).tiv, <<geo>>, None))
BY DetailComputed, Zenon DEF Detail, DetailOf, Given, Tivs, LocationsAt

\* It is of the geography asked for.
LEMMA DetailGeo ==
  ASSUME NEW req, NEW view, NEW raw, NEW geo, NEW loads, ~ Failed(Detail(req, view, raw, geo, loads))
  PROVE  Detail(req, view, raw, geo, loads).geo = geo
BY DetailComputed DEF Detail, DetailOf, Given, Tivs, LocationsAt

\* The map and the detail warn of the loads of their views that failed.
LEMMA MapWarns ==
  ASSUME NEW req, NEW view, NEW raw, NEW loads, ~ Failed(MapOf(req, view, raw, loads))
  PROVE  view.warnings \subseteq MapOf(req, view, raw, loads).warnings
<1> DEFINE D == Selected(req, raw)
           T == Tivs(req, view, raw)
           P == PortfolioTiv(req, view, loads)
           Q == PriorFigures(req, view, loads)
           m == MapOf(req, view, raw, loads)
           H == Headings(req, view, raw, D)
           all == {FeatureAt(req, view, raw, loads, k) : k \in DOMAIN T}
                    \cup {Removed(req, view, loads, k) : k \in DOMAIN Q.tiv \ DOMAIN T}
           rest == H \cup P.warnings \cup (IF view.comparison = None THEN {"WARN_PRIOR_DATASET_NOT_SELECTED"} ELSE {})
<1>1. view.warnings \subseteq H
  BY DEF Headings
<1>2. CASE D = {}
  <2>1. m = [features |-> {}, currency |-> view.currency, warnings |-> H]
    BY <1>2, Zenon DEF MapOf, Selected
  <2> HIDE DEF m, H
  <2>2. m.warnings = H
    BY <2>1
  <2> QED
    BY <1>1, <2>2 DEF m
<1>3. CASE D # {}
  <2>1. m = IF Failed(T) THEN T ELSE IF Failed(Q) THEN Q
            ELSE [features |-> all, currency |-> view.currency, warnings |-> rest]
    BY <1>3, Zenon DEF MapOf, Selected, Tivs, LocationsAt, FeatureAt, Removed
  <2>2. H \subseteq rest
    OBVIOUS
  <2> HIDE DEF T, Q, all, rest, m, H
  <2>3. ~ Failed(m)
    BY DEF m
  <2>4. m.warnings = rest
    BY <2>1, <2>3
  <2> QED
    BY <1>1, <2>2, <2>4 DEF m
<1> QED
  BY <1>2, <1>3

\* So does the detail.
LEMMA DetailWarns ==
  ASSUME NEW req, NEW view, NEW raw, NEW geo, NEW loads, ~ Failed(Detail(req, view, raw, geo, loads))
  PROVE  view.warnings \subseteq Detail(req, view, raw, geo, loads).warnings
<1> DEFINE d == Detail(req, view, raw, geo, loads)
           H == Headings(req, view, raw, Selected(req, raw))
<1>1. view.warnings \subseteq H
  BY DEF Headings
<1>2. \E A, B, C : d.warnings = H \cup A \cup B \cup C
  BY DetailComputed, Zenon DEF Detail, DetailOf, Given, Tivs
<1> HIDE DEF d, H
<1>3. H \subseteq d.warnings
  BY <1>2
<1> QED
  BY <1>1, <1>3 DEF d

\* And the pivot.
LEMMA PivotWarns ==
  ASSUME NEW req, NEW dims, NEW measures, NEW asked, NEW view, NEW raw, ~ Failed(PivotOf(req, dims, measures, asked, view, raw))
  PROVE  view.warnings \subseteq PivotOf(req, dims, measures, asked, view, raw).warnings
<1> DEFINE p == PivotOf(req, dims, measures, asked, view, raw)
           D == ApplyFilters(PivotRows(raw, dims), req.filters)
           H == Headings([req EXCEPT !.level = PivotLevel(dims)], view, raw, D)
<1>0. Failed(Invalid)
  BY DEF Failed
<1>1. view.warnings \subseteq H
  BY DEF Headings
<1>2. p = Invalid \/ \E A : p.warnings = H \cup A
  BY Zenon DEF PivotOf
<1> HIDE DEF p, H
<1>3. H \subseteq p.warnings
  <2>1. ~ Failed(p)
    BY DEF p
  <2> QED
    BY <1>0, <1>2, <2>1
<1> QED
  BY <1>1, <1>3 DEF p

\* Two loads that do not fail find the same, when nothing is found with other
\* rows.
LEMMA SameLoad ==
  ASSUME NEW ids, NEW a, NEW b, NoOtherRows(a, b), None # {},
         "WARN_EDM_LOAD_FAILED" \notin Load(ids, a).warnings, "WARN_EDM_LOAD_FAILED" \notin Load(ids, b).warnings
  PROVE  Load(ids, a) = Load(ids, b)
<1>1. ASSUME NEW x, "WARN_EDM_LOAD_FAILED" \notin Load(ids, x).warnings
      PROVE  /\ \A d \in ids \cap DOMAIN x : x[d] # None
             /\ Load(ids, x) = [rows |-> UNION {x[d] : d \in ids \cap DOMAIN x}, warnings |-> {}]
  <2> DEFINE failed == {d \in ids \cap DOMAIN x : x[d] = None}
  <2>1. Load(ids, x) = [rows |-> UNION {x[d] : d \in (ids \cap DOMAIN x) \ failed},
                        warnings |-> IF failed = {} THEN {} ELSE {"WARN_EDM_LOAD_FAILED"}]
    BY DEF Load
  <2>2. failed = {}
    <3> HIDE DEF failed
    <3> QED
      BY <1>1, <2>1
  <2>3. (ids \cap DOMAIN x) \ failed = ids \cap DOMAIN x
    BY <2>2
  <2> HIDE DEF failed
  <2>4. Load(ids, x) = [rows |-> UNION {x[d] : d \in ids \cap DOMAIN x}, warnings |-> {}]
    BY <2>1, <2>2, <2>3
  <2> QED
    BY <2>2, <2>4 DEF failed
<1> DEFINE A == UNION {a[d] : d \in ids \cap DOMAIN a}
           B == UNION {b[d] : d \in ids \cap DOMAIN b}
<1>2. /\ \A d \in ids \cap DOMAIN a : a[d] # None
      /\ Load(ids, a) = [rows |-> A, warnings |-> {}]
  BY <1>1
<1>3. /\ \A d \in ids \cap DOMAIN b : b[d] # None
      /\ Load(ids, b) = [rows |-> B, warnings |-> {}]
  BY <1>1
<1>4. \A d \in (DOMAIN a \cup DOMAIN b) \cap ids : AtKey(a, d, {}) = AtKey(b, d, {})
  <2> SUFFICES ASSUME NEW d \in (DOMAIN a \cup DOMAIN b) \cap ids PROVE AtKey(a, d, {}) = AtKey(b, d, {})
    OBVIOUS
  <2>1. AtKey(a, d, {}) # None /\ AtKey(b, d, {}) # None
    BY <1>2, <1>3 DEF AtKey
  <2> QED
    BY <2>1 DEF NoOtherRows
<1>5. ASSUME NEW f \in A PROVE f \in B
  <2>1. PICK d \in ids \cap DOMAIN a : f \in a[d]
    OBVIOUS
  <2>2. AtKey(a, d, {}) = a[d] /\ AtKey(a, d, {}) = AtKey(b, d, {})
    BY <1>4, <2>1 DEF AtKey
  <2>3. d \in DOMAIN b /\ b[d] = a[d]
    BY <2>1, <2>2 DEF AtKey
  <2> QED
    BY <2>1, <2>3
<1>6. ASSUME NEW f \in B PROVE f \in A
  <2>1. PICK d \in ids \cap DOMAIN b : f \in b[d]
    OBVIOUS
  <2>2. AtKey(b, d, {}) = b[d] /\ AtKey(a, d, {}) = AtKey(b, d, {})
    BY <1>4, <2>1 DEF AtKey
  <2>3. d \in DOMAIN a /\ b[d] = a[d]
    BY <2>1, <2>2 DEF AtKey
  <2> QED
    BY <2>1, <2>3
<1>7. A = B
  <2> HIDE DEF A, B
  <2> QED
    BY <1>5, <1>6
<1> HIDE DEF A, B
<1> QED
  BY <1>2, <1>3, <1>7

\* Hence two tabs have one view.
LEMMA SameView ==
  ASSUME NEW req, NEW a, NEW b, NoOtherRows(a, b), ~ Failed(ResolveView(req, a)), ~ Failed(ResolveView(req, b)),
         "WARN_EDM_LOAD_FAILED" \notin ResolveView(req, a).warnings, "WARN_EDM_LOAD_FAILED" \notin ResolveView(req, b).warnings
  PROVE  ResolveView(req, a) = ResolveView(req, b)
<1> DEFINE scope == ScopeOf(req)
           x == Load(scope.datasets, a)
           y == Load(scope.datasets, b)
<1>1. ResolveView(req, a) = ViewOf_(scope, x) /\ ResolveView(req, b) = ViewOf_(scope, y)
  BY ViewOfScope
<1>2. \A load : load.warnings \subseteq ViewOf_(scope, load).warnings
  BY DEF ViewOf_
<1> HIDE DEF scope, x, y
<1>3. "WARN_EDM_LOAD_FAILED" \notin x.warnings /\ "WARN_EDM_LOAD_FAILED" \notin y.warnings
  BY <1>1, <1>2
<1>4. x = y
  BY <1>3, SameLoad, ExposureAssumption DEF x, y
<1> QED
  BY <1>1, <1>4

\* And one set of figures to compare with.
LEMMA SamePrior ==
  ASSUME NEW req, NEW view, NEW a, NEW b, NoOtherRows(a.prior, b.prior),
         ~ Failed(PriorFigures(req, view, a)), ~ Failed(PriorFigures(req, view, b))
  PROVE  PriorFigures(req, view, a) = PriorFigures(req, view, b)
<1> DEFINE of(found) ==
             LET shown == ApplyFilters(CountyFallback(PerilFilter(found, req.perils), req.level), req.filters)
             IN [tiv |-> CombineAtGrain(shown, <<"geo">>, Max_, None), count |-> LocationCountAtMaxPeril(shown, <<"geo">>)]
           none == [tiv |-> <<>>, count |-> <<>>]
           x == AtKey(a.prior, view.comparison, {})
           y == AtKey(b.prior, view.comparison, {})
<1>0. Failed(Raises)
  BY DEF Failed
<1>1. PriorFigures(req, view, a) = IF view.comparison = None THEN none
                                   ELSE IF ByDataset(view.comparison) = None THEN NotFound
                                   ELSE IF x = None THEN Raises ELSE of(x)
  BY Zenon DEF PriorFigures
<1>2. PriorFigures(req, view, b) = IF view.comparison = None THEN none
                                   ELSE IF ByDataset(view.comparison) = None THEN NotFound
                                   ELSE IF y = None THEN Raises ELSE of(y)
  BY Zenon DEF PriorFigures
<1>3. x = y \/ None \in {x, y}
  <2>1. CASE view.comparison \in DOMAIN a.prior \cup DOMAIN b.prior
    BY <2>1 DEF NoOtherRows
  <2>2. CASE view.comparison \notin DOMAIN a.prior \cup DOMAIN b.prior
    BY <2>2 DEF AtKey
  <2> QED
    BY <2>1, <2>2
<1> HIDE DEF of, none, x, y
<1> QED
  BY <1>0, <1>1, <1>2, <1>3

\* The map and the detail of a geography say the same of it.
LEMMA DetailAgrees ==
  ASSUME NEW req, NEW view, NEW raw, Valued(raw), NEW geo, NEW m, NEW d, NoOtherRows(m.prior, d.prior),
         ~ Failed(MapOf(req, view, raw, m)), ~ Failed(Detail(req, view, raw, geo, d))
  PROVE  /\ FiguresAgree(MapOf(req, view, raw, m), Detail(req, view, raw, geo, d))
         /\ SamePortfolio(req, m, d) => SharesAgree(MapOf(req, view, raw, m), Detail(req, view, raw, geo, d))
<1> DEFINE map == MapOf(req, view, raw, m)
           detail == Detail(req, view, raw, geo, d)
           T == Tivs(req, view, raw)
           Q == PriorFigures(req, view, m)
           P == PortfolioTiv(req, view, m)
           O == PortfolioTiv(req, view, d)
           same == SamePortfolio(req, m, d)
           agrees(f) == /\ f.tiv = None => detail.tiv = 0
                        /\ f.tiv # None =>
                             /\ f.tiv = detail.tiv /\ f.count = detail.count /\ f.concentration = detail.concentration
                             /\ f.yoy # None => f.yoy = detail.yoy
                             /\ same => f.dealShare = detail.dealShare /\ f.geoShare = detail.geoShare
<1>0. ~ Failed(Detail(req, view, raw, geo, d))
  OBVIOUS
<1>1. detail.geo = geo
  <2> HIDE DEF detail
  <2> QED
    BY <1>0, DetailGeo, Zenon DEF detail
<1>2. ASSUME \A f \in map.features : f.geo = geo => agrees(f)
      PROVE  FiguresAgree(map, detail) /\ (same => SharesAgree(map, detail))
  <2>1. \A f \in {g \in map.features : g.geo = detail.geo} : f \in map.features /\ f.geo = geo
    BY <1>1
  <2> HIDE DEF map, detail, same
  <2>2. FiguresAgree(map, detail)
    BY <1>2, <2>1 DEF FiguresAgree
  <2>3. same => SharesAgree(map, detail)
    BY <1>2, <2>1 DEF SharesAgree
  <2> QED
    BY <2>2, <2>3
<1> SUFFICES ASSUME NEW f \in map.features, f.geo = geo PROVE agrees(f)
  BY <1>2
<1>3. /\ ~ Failed(T) /\ ~ Failed(Q)
      /\ \/ \E k \in DOMAIN T : f = FeatureAt(req, view, raw, m, k)
         \/ \E k \in DOMAIN Q.tiv \ DOMAIN T : f = Removed(req, view, m, k)
  BY MapFeatures
<1>4. Q = PriorFigures(req, view, d)
  BY <1>3, DetailComputed, SamePrior
<1>5. same => P = O
  <2>1. same => WholeFacts(req, view, m) = WholeFacts(req, view, d)
    BY DEF SamePortfolio, WholeFacts
  <2>2. WholeFacts(req, view, m) = WholeFacts(req, view, d) => P = O
    BY Zenon DEF PortfolioTiv
  <2> HIDE DEF same, P, O
  <2> QED
    BY <2>1, <2>2
<1>6. ASSUME NEW k \in DOMAIN T, f = FeatureAt(req, view, raw, m, k) PROVE agrees(f)
  <2>1. Valued(Selected(req, raw)) /\ None \notin Int
    BY SelectedFacts, ExposureAssumption
  <2>2. T[k] \in Nat /\ k \in Places(Selected(req, raw), <<"geo">>)
    BY <1>3, <2>1, TivsType DEF Tivs
  <2>3. k = <<k[1]>>
    BY <2>2, PlaceIsAGeo
  <2>4. k = <<geo>> /\ k[1] = geo
    <3>1. FeatureAt(req, view, raw, m, k).geo = k[1]
      BY FeatureGeo, Zenon
    <3> HIDE DEF T
    <3>2. k[1] = geo
      BY <1>6, <3>1, Zenon
    <3> QED
      BY <2>3, <3>2
  <2> HIDE DEF T, Q, P, O, detail, same
  <2>5. AtKey(T, <<geo>>, 0) = T[k] /\ T[<<geo>>] = T[k] /\ <<geo>> \in DOMAIN T
    BY <2>4 DEF AtKey
  <2> DEFINE s == Shares(geo, T[k], SumOf(T), P.tiv)
             r == Shares(geo, T[k], SumOf(T), O.tiv)
  <2>6. /\ f.tiv = T[k] /\ f.count = AtKey(LocationsAt(req, view, raw), <<geo>>, 0)
        /\ f.dealShare = s.dealShare /\ f.geoShare = s.geoShare /\ f.concentration = s.concentration
        /\ f.yoy = IF view.comparison # None THEN YoyChange(T[k], AtKey(Q.tiv, <<geo>>, None)) ELSE None
    BY <1>6, <2>4, <2>5, FeatureFields DEF T, Q, P
  <2>7. /\ detail.tiv = T[k] /\ detail.count = AtKey(LocationsAt(req, view, raw), <<geo>>, 0)
        /\ detail.dealShare = r.dealShare /\ detail.geoShare = r.geoShare /\ detail.concentration = r.concentration
        /\ detail.yoy = IF view.comparison = None THEN [value |-> None, status |-> "NA"]
                        ELSE YoyChange(T[k], AtKey(Q.tiv, <<geo>>, None))
    BY <1>4, <2>5, DetailFields DEF T, O, detail
  <2>8. f.tiv # None
    BY <2>1, <2>2, <2>6
  <2>9. s.concentration = r.concentration /\ (same => s = r)
    BY <1>5 DEF Shares
  <2> HIDE DEF s, r
  <2> QED
    BY <2>6, <2>7, <2>8, <2>9
<1>7. ASSUME NEW k \in DOMAIN Q.tiv \ DOMAIN T, f = Removed(req, view, m, k) PROVE agrees(f)
  <2>1. f.tiv = None /\ k[1] = geo
    BY <1>7 DEF Removed
  <2>2. k = <<geo>>
    BY <1>3, <2>1, PriorPlaces
  <2>3. AtKey(T, <<geo>>, 0) = 0
    BY <2>2 DEF AtKey
  <2>4. detail.tiv = 0
    <3> HIDE DEF T
    <3> QED
      BY <2>3, DetailFields DEF T
  <2> QED
    BY <2>1, <2>4
<1> QED
  BY <1>3, <1>6, <1>7

\* Two ways to name the same things have one sum.
LEMMA SumThroughNames ==
  ASSUME NEW D, IsFiniteSet(D), NEW a, NEW b, NEW u, NEW v,
         \A x, y \in D : a[x] = a[y] <=> b[x] = b[y],
         \A x \in D : u[a[x]] = v[b[x]] /\ v[b[x]] \in Int
  PROVE  SumOver(u, {a[x] : x \in D}) = SumOver(v, {b[x] : x \in D})
<1> DEFINE A(s) == {a[x] : x \in s}
           B(s) == {b[x] : x \in s}
           C == {s \in SUBSET D : SumOver(u, A(s)) = SumOver(v, B(s))}
<1>1. \A s \in SUBSET D : IsFiniteSet(A(s)) /\ IsFiniteSet(B(s))
  <2> SUFFICES ASSUME NEW s \in SUBSET D PROVE IsFiniteSet(A(s)) /\ IsFiniteSet(B(s))
    OBVIOUS
  <2>1. IsFiniteSet(s)
    BY FS_Subset
  <2> QED
    BY <2>1, FiniteImage
<1>2. \A s \in SUBSET D : (\A y \in A(s) : u[y] \in Int) /\ (\A y \in B(s) : v[y] \in Int)
  OBVIOUS
<1>3. ASSUME NEW s \in SUBSET D, \A x \in s : s \ {x} \in C PROVE s \in C
  <2>1. CASE s = {}
    <3>1. A(s) = {} /\ B(s) = {}
      BY <2>1
    <3>2. IntOn(u, {}) /\ IntOn(v, {})
      BY FS_EmptySet DEF IntOn
    <3>3. SumOver(u, {}) = 0 /\ SumOver(v, {}) = 0
      <4> HIDE DEF A, B, C
      <4> QED
        BY <3>2, SumType
    <3> HIDE DEF A, B
    <3> QED
      BY <3>1, <3>3
  <2>2. CASE s # {}
    <3>1. PICK x \in s : TRUE
      BY <2>2
    <3> DEFINE r == s \ {x}
    <3>2. SumOver(u, A(r)) = SumOver(v, B(r)) /\ r \in SUBSET D /\ x \in D
      BY <1>3, <3>1
    <3>3. A(s) = A(r) \cup {a[x]} /\ B(s) = B(r) \cup {b[x]}
      BY <3>1
    <3>4. a[x] \in A(r) <=> b[x] \in B(r)
      BY <3>2
    <3>5. CASE a[x] \in A(r)
      <4>1. A(s) = A(r) /\ B(s) = B(r)
        <5> HIDE DEF A, B
        <5> QED
          BY <3>3, <3>4, <3>5
      <4> HIDE DEF A, B, r
      <4> QED
        BY <3>2, <4>1
    <3>6. CASE a[x] \notin A(r)
      <4>1. A(r) \cap {a[x]} = {} /\ B(r) \cap {b[x]} = {}
        <5> HIDE DEF A, B
        <5> QED
          BY <3>4, <3>6
      <4>2. u[a[x]] = v[b[x]] /\ u[a[x]] \in Int /\ v[b[x]] \in Int
        BY <3>2
      <4>3. SumOver(u, {a[x]}) = u[a[x]] /\ SumOver(v, {b[x]}) = v[b[x]]
        <5>1. u[a[x]] \in Int /\ v[b[x]] \in Int
          BY <4>2
        <5> HIDE DEF A, B, C, r
        <5>2. \A y : u[y] \in Int => SumOver(u, {y}) = u[y]
          BY SumOfOne
        <5>3. \A y : v[y] \in Int => SumOver(v, {y}) = v[y]
          BY SumOfOne
        <5> QED
          BY <5>1, <5>2, <5>3, Zenon
      <4>4. IsFiniteSet({a[x]}) /\ IsFiniteSet({b[x]}) /\ IsFiniteSet(A(r)) /\ IsFiniteSet(B(r))
        BY <1>1, <3>2, FS_Singleton
      <4>5. (\A y \in A(r) \cup {a[x]} : u[y] \in Int) /\ (\A y \in B(r) \cup {b[x]} : v[y] \in Int)
        <5>1. (\A y \in A(r) : u[y] \in Int) /\ (\A y \in B(r) : v[y] \in Int)
          BY <1>2, <3>2
        <5> HIDE DEF A, B, r
        <5> QED
          BY <4>2, <5>1
      <4> HIDE DEF A, B, C, r
      <4>6. SumOver(u, A(r) \cup {a[x]}) = SumOver(u, A(r)) + SumOver(u, {a[x]})
        BY <4>1, <4>4, <4>5, SumOfParts
      <4>7. SumOver(v, B(r) \cup {b[x]}) = SumOver(v, B(r)) + SumOver(v, {b[x]})
        BY <4>1, <4>4, <4>5, SumOfParts
      <4>8. SumOver(u, A(s)) = SumOver(v, B(s))
        BY <3>2, <3>3, <4>2, <4>3, <4>6, <4>7
      <4> QED
        BY <4>8 DEF C
    <3> QED
      BY <3>5, <3>6
  <2> QED
    BY <2>1, <2>2
<1>4. \A s \in SUBSET D : s \in C
  <2> HIDE DEF C
  <2> QED
    BY <1>3, ByRemoval
<1> QED
  BY <1>4

\* Rows with one key by one grain and by another have one value.
LEMMA SameWorth ==
  ASSUME NEW S, NEW by, NEW k, NEW grain, NEW h, At(S, k, by) = At(S, h, grain)
  PROVE  Worth(S, k, by) = Worth(S, h, grain)
<1>1. \A p : OfPeril(S, k, by, p) = OfPeril(S, h, grain, p)
  <2> SUFFICES ASSUME NEW p PROVE OfPeril(S, k, by, p) = OfPeril(S, h, grain, p)
    OBVIOUS
  <2>1. OfPeril(S, k, by, p) = {f \in At(S, k, by) : f.peril = p} /\ OfPeril(S, h, grain, p) = {f \in At(S, h, grain) : f.peril = p}
    BY DEF OfPeril, At
  <2> QED
    BY <2>1
<1>2. PerPeril(S, k, by) = [p \in {f.peril : f \in At(S, k, by)} |-> TivOf(OfPeril(S, k, by, p))]
  BY Zenon DEF PerPeril, At, TivOf
<1>3. PerPeril(S, h, grain) = [p \in {f.peril : f \in At(S, h, grain)} |-> TivOf(OfPeril(S, h, grain, p))]
  BY Zenon DEF PerPeril, At, TivOf
<1> DEFINE P == {f.peril : f \in At(S, h, grain)}
<1>4. PerPeril(S, k, by) = PerPeril(S, h, grain)
  <2>1. {f.peril : f \in At(S, k, by)} = P
    OBVIOUS
  <2> HIDE DEF P
  <2>2. PerPeril(S, k, by) = [p \in P |-> TivOf(OfPeril(S, k, by, p))]
    BY <1>2, <2>1, Zenon
  <2>3. PerPeril(S, h, grain) = [p \in P |-> TivOf(OfPeril(S, h, grain, p))]
    BY <1>3, Zenon DEF P
  <2>4. \A p \in P : TivOf(OfPeril(S, k, by, p)) = TivOf(OfPeril(S, h, grain, p))
    BY <1>1, Zenon
  <2> QED
    BY <2>2, <2>3, <2>4
<1> QED
  BY <1>4, Zenon DEF Worth

\* The features of a map that have a value add up to the values of its places.
LEMMA MapTotal ==
  ASSUME NEW req, NEW view, NEW raw, Valued(raw), NEW loads, ~ Failed(MapOf(req, view, raw, loads))
  PROVE  TivOf({f \in MapOf(req, view, raw, loads).features : f.tiv # None})
           = IF Selected(req, raw) = {} THEN 0 ELSE SumOf(Tivs(req, view, raw))
<1> DEFINE D == Selected(req, raw)
           T == Tivs(req, view, raw)
           Q == PriorFigures(req, view, loads)
           m == MapOf(req, view, raw, loads)
           V == {f \in m.features : f.tiv # None}
<1>0. Valued(D) /\ None \notin Int /\ IsFiniteSet(Places(D, <<"geo">>))
  BY SelectedFacts, ExposureAssumption, ValuesType
<1>1. CASE D = {}
  <2>1. m.features = {}
    BY <1>1 DEF MapOf, Selected
  <2>2. V = {} /\ Valued({})
    BY <2>1, FS_EmptySet DEF Valued
  <2>3. TivOf({}) = SumOver([x \in {} |-> x.tiv], {})
    BY <2>2, TivIsASum
  <2> DEFINE e == [x \in {} |-> x.tiv]
  <2>4. SumOver(e, {}) = 0
    <3>1. IntOn(e, {})
      BY FS_EmptySet DEF IntOn
    <3> HIDE DEF e
    <3> QED
      BY <3>1, SumType
  <2> HIDE DEF V, e
  <2> QED
    BY <1>1, <2>2, <2>3, <2>4 DEF V, e
<1>2. CASE D # {}
  <2>1. /\ ~ Failed(T)
        /\ m.features = {FeatureAt(req, view, raw, loads, k) : k \in DOMAIN T}
                          \cup {Removed(req, view, loads, k) : k \in DOMAIN Q.tiv \ DOMAIN T}
    BY <1>2, MapFeatures
  <2>2. \A k \in DOMAIN T : T[k] \in Nat /\ k \in Places(D, <<"geo">>)
    BY <1>0, <2>1, TivsType DEF Tivs
  <2>3. \A k \in DOMAIN T : k = <<k[1]>>
    BY <2>2, PlaceIsAGeo
  <2>4. IsFiniteSet(DOMAIN T)
    <3>1. DOMAIN T \subseteq Places(D, <<"geo">>)
      BY <2>2
    <3> QED
      BY <1>0, <3>1, FS_Subset
  <2> DEFINE a == [k \in DOMAIN T |-> FeatureAt(req, view, raw, loads, k)]
             b == [k \in DOMAIN T |-> k]
             u == [x \in V |-> x.tiv]
  <2>5. \A k \in DOMAIN T : a[k].geo = k[1] /\ a[k].tiv = T[k] /\ b[k] = k
    <3> SUFFICES ASSUME NEW k \in DOMAIN T PROVE a[k].geo = k[1] /\ a[k].tiv = T[k] /\ b[k] = k
      OBVIOUS
    <3>1. FeatureAt(req, view, raw, loads, k).tiv = Tivs(req, view, raw)[<<k[1]>>]
      BY DEF FeatureAt, Feature
    <3>2. T[<<k[1]>>] = T[k]
      BY <2>3
    <3> HIDE DEF T
    <3>3. a[k] = FeatureAt(req, view, raw, loads, k) /\ b[k] = k
      OBVIOUS
    <3> HIDE DEF a, b
    <3> QED
      BY <3>1, <3>2, <3>3, FeatureGeo DEF T
  <2>6. V = {a[k] : k \in DOMAIN T}
    <3>1. \A k : Removed(req, view, loads, k).tiv = None
      BY DEF Removed
    <3>2. \A k \in DOMAIN T : a[k] = FeatureAt(req, view, raw, loads, k)
      OBVIOUS
    <3> HIDE DEF T, Q, a, m
    <3>3. ASSUME NEW k \in DOMAIN T PROVE a[k] \in V
      <4>1. a[k] \in m.features
        BY <2>1, <3>2
      <4>2. a[k].tiv # None
        BY <1>0, <2>2, <2>5
      <4> QED
        BY <4>1, <4>2
    <3>4. ASSUME NEW f \in V PROVE f \in {a[k] : k \in DOMAIN T}
      BY <2>1, <3>1, <3>2
    <3> QED
      BY <3>3, <3>4
  <2> HIDE DEF D, T, Q, m, V, a, b
  <2>7. \A k, h \in DOMAIN T : a[k] = a[h] <=> b[k] = b[h]
    BY <2>3, <2>5
  <2>8. \A k \in DOMAIN T : u[a[k]] = T[b[k]] /\ T[b[k]] \in Int
    BY <2>2, <2>5, <2>6
  <2>9. {b[k] : k \in DOMAIN T} = DOMAIN T
    BY <2>5
  <2>10. Valued(V)
    <3>1. IsFiniteSet({a[k] : k \in DOMAIN T})
      BY <2>4, FiniteImage
    <3> QED
      BY <2>2, <2>5, <2>6, <3>1 DEF Valued
  <2>11. TivOf(V) = SumOver(u, V)
    BY <2>10, TivIsASum
  <2> HIDE DEF u
  <2>12. SumOver(u, {a[k] : k \in DOMAIN T}) = SumOver(T, {b[k] : k \in DOMAIN T})
    BY <2>4, <2>7, <2>8, SumThroughNames
  <2>13. SumOf(T) = SumOver(T, DOMAIN T)
    BY Zenon DEF SumOf, SumOver
  <2>14. TivOf(V) = SumOf(T)
    BY <2>6, <2>9, <2>11, <2>12, <2>13
  <2> QED
    BY <1>2, <2>14 DEF V, D, T, m
<1> QED
  BY <1>1, <1>2

\* Rows of one level whose geography is that of an attribute add up by either.
LEMMA SameKeys ==
  ASSUME NEW S, Valued(S), None \notin Int, NEW attr, attr # "county",
         \A f, h \in S : f.geo = h.geo <=> f[attr] = h[attr]
  PROVE  /\ SumOf(Values(S, <<attr>>)) = SumOf(Values(S, <<"geo">>))
         /\ SumOf(Totals(S, <<attr>>)) = SumOf(Totals(S, <<"geo">>))
<1> DEFINE by == <<attr>>
           grain == <<"geo">>
           a == [f \in S |-> GrainKey(f, by)]
           b == [f \in S |-> GrainKey(f, grain)]
<1>1. \A f : GrainKey(f, by) = <<f[attr]>> /\ GrainKey(f, grain) = <<f.geo>>
  <2> SUFFICES ASSUME NEW f PROVE GrainKey(f, by) = <<f[attr]>> /\ GrainKey(f, grain) = <<f.geo>>
    OBVIOUS
  <2>1. by[1] = attr /\ DOMAIN by = {1}
    OBVIOUS
  <2>2. GrainKey(f, by) = [i \in {1} |-> f[by[i]]]
    BY <2>1 DEF GrainKey
  <2>3. GrainKey(f, by) = <<f[attr]>>
    BY <2>1, <2>2
  <2> QED
    BY <2>3, GeoKey
<1>2. \A f, h \in S : a[f] = a[h] <=> b[f] = b[h]
  <2>1. \A f \in S : a[f] = <<f[attr]>> /\ b[f] = <<f.geo>>
    BY <1>1
  <2> HIDE DEF a, b
  <2> QED
    BY <2>1
<1>3. Places(S, by) = {a[f] : f \in S} /\ Places(S, grain) = {b[f] : f \in S}
  BY DEF Places
<1>4. \A f \in S : At(S, a[f], by) = At(S, b[f], grain)
  <2>1. \A f \in S : a[f] = GrainKey(f, by) /\ b[f] = GrainKey(f, grain)
    OBVIOUS
  <2> HIDE DEF a, b, by, grain
  <2> SUFFICES ASSUME NEW f \in S PROVE At(S, a[f], by) = At(S, b[f], grain)
    OBVIOUS
  <2>2. \A h \in S : GrainKey(h, by) = a[f] <=> GrainKey(h, grain) = b[f]
    BY <1>2, <2>1
  <2> QED
    BY <2>2 DEF At
<1> HIDE DEF a, b, by, grain
<1>5. SumOf(Values(S, by)) = SumOf(Values(S, grain))
  <2> DEFINE u == Values(S, by)
             v == Values(S, grain)
  <2>1. /\ DOMAIN u = Places(S, by) /\ DOMAIN v = Places(S, grain)
        /\ \A k \in Places(S, by) : u[k] = Worth(S, k, by)
        /\ \A k \in Places(S, grain) : v[k] = Worth(S, k, grain) /\ v[k] \in Nat
    BY ValuesType
  <2>2. SumOf(u) = SumOver(u, DOMAIN u) /\ SumOf(v) = SumOver(v, DOMAIN v)
    BY Zenon DEF SumOf, SumOver
  <2> HIDE DEF u, v
  <2>3. \A f \in S : u[a[f]] = v[b[f]] /\ v[b[f]] \in Int
    <3> SUFFICES ASSUME NEW f \in S PROVE u[a[f]] = v[b[f]] /\ v[b[f]] \in Int
      OBVIOUS
    <3>1. Worth(S, a[f], by) = Worth(S, b[f], grain)
      BY <1>4, SameWorth
    <3> QED
      BY <1>3, <2>1, <3>1
  <2>4. IsFiniteSet(S)
    BY DEF Valued
  <2>5. SumOver(u, {a[f] : f \in S}) = SumOver(v, {b[f] : f \in S})
    BY <1>2, <2>3, <2>4, SumThroughNames
  <2>6. SumOf(u) = SumOf(v)
    BY <1>3, <2>1, <2>2, <2>5
  <2> QED
    BY <2>6 DEF u, v
<1>6. SumOf(Totals(S, by)) = SumOf(Totals(S, grain))
  <2> DEFINE u == Totals(S, by)
             v == Totals(S, grain)
  <2>1. /\ DOMAIN u = Places(S, by) /\ DOMAIN v = Places(S, grain)
        /\ \A k \in Places(S, grain) : v[k] \in Nat
    BY TotalsShown
  <2>a. /\ \A k \in Places(S, by) : u[k] = TivOf(At(S, k, by))
        /\ \A k \in Places(S, grain) : v[k] = TivOf(At(S, k, grain))
    BY DEF Totals
  <2>2. SumOf(u) = SumOver(u, DOMAIN u) /\ SumOf(v) = SumOver(v, DOMAIN v)
    BY Zenon DEF SumOf, SumOver
  <2> HIDE DEF u, v
  <2>3. \A f \in S : u[a[f]] = v[b[f]] /\ v[b[f]] \in Int
    BY <1>3, <1>4, <2>1, <2>a
  <2>4. IsFiniteSet(S)
    BY DEF Valued
  <2>5. SumOver(u, {a[f] : f \in S}) = SumOver(v, {b[f] : f \in S})
    BY <1>2, <2>3, <2>4, SumThroughNames
  <2>6. SumOf(u) = SumOf(v)
    BY <1>3, <2>1, <2>2, <2>5
  <2> QED
    BY <2>6 DEF u, v
<1> QED
  BY <1>5, <1>6 DEF by, grain

\* The level of a pivot by one level is that level.
LEMMA OneLevel ==
  ASSUME NEW level \in DOMAIN Fineness
  PROVE  PivotLevel(<<level>>) = level
<1> DEFINE dims == <<level>>
           named == {i \in DOMAIN dims : dims[i] \in DOMAIN Fineness}
           finest(i) == \A j \in named : Fineness[dims[i]] > Fineness[dims[j]]
                                         \/ (Fineness[dims[i]] = Fineness[dims[j]] /\ i <= j)
           c == CHOOSE i \in named : finest(i)
<1>1. DOMAIN dims = {1} /\ dims[1] = level
  OBVIOUS
<1>2. named = {1}
  BY <1>1
<1>3. finest(1)
  BY <1>2
<1>4. c \in named
  <2> HIDE DEF named, finest
  <2> QED
    BY <1>2, <1>3
<1>5. c = 1
  BY <1>2, <1>4
<1>6. PivotLevel(dims) = dims[c]
  <2>1. PivotLevel(dims) = IF named = {} THEN None ELSE dims[c]
    BY Zenon DEF PivotLevel
  <2> HIDE DEF named, c, dims
  <2> QED
    BY <1>2, <2>1
<1> HIDE DEF c
<1> QED
  BY <1>1, <1>5, <1>6

\* A pivot by the level of the map adds up to it.
LEMMA PivotTotal ==
  ASSUME NEW req, req.level \in {"COUNTRY", "STATE"}, NEW view, view.method \in {Max_, Distinct},
         NEW raw, Valued(raw), NamedByGeo(raw, req.level),
         ~ Failed(PivotOf(req, <<req.level>>, {"tiv", "count"}, None, view, raw))
  PROVE  PivotOf(req, <<req.level>>, {"tiv", "count"}, None, view, raw).total["tiv"]
           = IF Selected(req, raw) = {} THEN 0 ELSE SumOf(Tivs(req, view, raw))
<1> DEFINE dims == <<req.level>>
           D == Selected(req, raw)
           by == [i \in DOMAIN dims |-> DimAttr[dims[i]]]
           method == PivotMethod(view, None)
           pivot == PivotOf(req, dims, {"tiv", "count"}, None, view, raw)
           cells == [m \in {"tiv", "count"} |-> PivotMeasure(D, m, by, method)]
           heads == pivot.warnings
<1>0. Failed(Invalid) /\ method = view.method
  BY DEF Failed, PivotMethod
<1>1. ApplyFilters(PivotRows(raw, dims), req.filters) = D
  <2>1. PivotLevel(dims) = req.level
    BY OneLevel DEF Fineness
  <2>2. req.level # None
    BY ExposureAssumption
  <2>3. PivotRows(raw, dims) = CountyFallback(raw, req.level)
    BY <2>1, <2>2 DEF PivotRows
  <2> HIDE DEF dims
  <2> QED
    BY <2>3 DEF Selected
<1>2. CASE D = {}
  <2>1. pivot.total = [m \in {"tiv", "count"} |-> 0]
    BY <1>1, <1>2 DEF PivotOf
  <2> HIDE DEF pivot
  <2>2. pivot.total["tiv"] = 0
    BY <2>1
  <2> QED
    BY <1>2, <2>2 DEF pivot
<1>3. CASE D # {}
  <2> DEFINE known == \A i \in DOMAIN dims : dims[i] \in DOMAIN DimAttr
             attr == DimAttr[req.level]
             T == Tivs(req, view, raw)
  <2>1. (~ known => pivot = Invalid) /\ (known => pivot.total = [m \in {"tiv", "count"} |-> SumOf(cells[m])])
    BY <1>1, <1>3 DEF PivotOf
  <2>2. known
    <3> HIDE DEF pivot, known
    <3>1. ~ Failed(pivot)
      BY DEF pivot
    <3> QED
      BY <1>0, <2>1, <3>1
  <2>4. by = <<attr>> /\ attr # "county"
    <3>1. attr # "county"
      BY DEF DimAttr
    <3> HIDE DEF attr
    <3>2. DOMAIN dims = {1} /\ dims[1] = req.level
      OBVIOUS
    <3>3. by = [i \in {1} |-> attr]
      BY <3>2 DEF attr
    <3> HIDE DEF by
    <3> QED
      BY <3>1, <3>3
  <2>5. \A f, h \in D : f.geo = h.geo <=> f[attr] = h[attr]
    <3>1. \A f \in D : f \in AtLevel(raw, req.level)
      BY DEF Selected, ApplyFilters, CountyFallback
    <3> HIDE DEF D
    <3> QED
      BY <3>1 DEF NamedByGeo
  <2>6. Valued(D) /\ None \notin Int
    BY SelectedFacts, ExposureAssumption
  <2>7. SumOf(Values(D, <<attr>>)) = SumOf(Values(D, <<"geo">>)) /\ SumOf(Totals(D, <<attr>>)) = SumOf(Totals(D, <<"geo">>))
    <3> HIDE DEF D, attr
    <3> QED
      BY <2>4, <2>5, <2>6, SameKeys
  <2>8. cells["tiv"] = CombineAtGrain(D, <<attr>>, view.method, None) /\ T = CombineAtGrain(D, <<"geo">>, view.method, view.base)
    <3>1. PivotMeasure(D, "tiv", by, method) = CombineAtGrain(D, by, method, None)
      BY <1>0 DEF PivotMeasure
    <3>2. Max_ # Separate /\ Distinct # Separate
      BY DEF Max_, Distinct, Separate
    <3>3. T = CombineAtGrain(D, <<"geo">>, view.method, view.base)
      BY <3>2 DEF Tivs, ScopeTiv
    <3>4. cells["tiv"] = PivotMeasure(D, "tiv", by, method)
      OBVIOUS
    <3> HIDE DEF D, T, by, method, cells, attr
    <3> QED
      BY <1>0, <2>4, <3>1, <3>3, <3>4
  <2>9. SumOf(cells["tiv"]) = SumOf(T)
    <3> HIDE DEF D, T, cells, attr
    <3>1. CASE view.method = Max_
      BY <2>7, <2>8, <3>1, ValuesShown
    <3>2. CASE view.method = Distinct
      <4>1. \A grain, base : CombineAtGrain(D, grain, Distinct, base) = Totals(D, grain)
        <5> SUFFICES ASSUME NEW grain, NEW base PROVE CombineAtGrain(D, grain, Distinct, base) = Totals(D, grain)
          OBVIOUS
        <5>1. Max_ # Distinct /\ Base # Distinct
          BY DEF Max_, Distinct, Base
        <5>2. CombineAtGrain(D, grain, Distinct, base) = AggregateMeasure(D, "tiv", grain)
          BY <5>1 DEF CombineAtGrain
        <5>3. AggregateMeasure(D, "tiv", grain) = Totals(D, grain)
          BY <2>6, TotalsShown
        <5> QED
          BY <5>2, <5>3
      <4> QED
        BY <2>7, <2>8, <3>2, <4>1
    <3> QED
      BY <3>1, <3>2
  <2>10. pivot.total["tiv"] = SumOf(cells["tiv"])
    <3> HIDE DEF pivot, cells, known
    <3> QED
      BY <2>1, <2>2
  <2> HIDE DEF pivot, cells, T, D
  <2> QED
    BY <1>3, <2>9, <2>10 DEF pivot, T, D
<1> QED
  BY <1>2, <1>3

\* An export that is shown is made of a map, a detail and a pivot that did not
\* fail, and has their warnings.
LEMMA ExportParts ==
  ASSUME NEW req, NEW geo, NEW dims, NEW asked, NEW loads, ~ Failed(ExportReply(req, geo, dims, asked, loads))
  PROVE  LET e == ExportReply(req, geo, dims, asked, loads)
             map == MapReply(req, loads.map)
             detail == IF geo = None THEN None ELSE DetailReply(req, geo, loads.detail)
             pivot == IF dims = None THEN None ELSE PivotReply(req, dims, {"tiv", "count"}, asked, loads.pivot)
         IN /\ e.map = map /\ e.detail = detail /\ e.pivot = pivot
            /\ ~ Failed(map) /\ ~ Failed(detail) /\ ~ Failed(pivot)
            /\ map.warnings \subseteq e.warnings
            /\ detail # None => detail.warnings \subseteq e.warnings
            /\ pivot # None => pivot.warnings \subseteq e.warnings
<1> DEFINE e == ExportReply(req, geo, dims, asked, loads)
           map == MapReply(req, loads.map)
           detail == IF geo = None THEN None ELSE DetailReply(req, geo, loads.detail)
           pivot == IF dims = None THEN None ELSE PivotReply(req, dims, {"tiv", "count"}, asked, loads.pivot)
           all == (UNION {w.warnings : w \in map.features}) \cup map.warnings
                    \cup (IF detail = None THEN {} ELSE detail.warnings)
                    \cup (IF pivot = None THEN {} ELSE pivot.warnings)
<1>0. Failed(TooLarge) /\ ~ Failed(e)
  BY DEF Failed
<1>1. \/ e = map /\ Failed(map)
      \/ e = detail /\ Failed(detail)
      \/ e = pivot /\ Failed(pivot)
      \/ e = TooLarge
      \/ /\ ~ Failed(map) /\ ~ Failed(detail) /\ ~ Failed(pivot)
         /\ \E raw : e = [map |-> map, detail |-> detail, pivot |-> pivot, raw |-> raw, warnings |-> all]
  <2> HIDE DEF map, detail, pivot
  <2> QED
    BY Zenon DEF ExportReply, map, detail, pivot
<1>2. /\ map.warnings \subseteq all
      /\ detail # None => detail.warnings \subseteq all
      /\ pivot # None => pivot.warnings \subseteq all
  <2> DEFINE a == UNION {w.warnings : w \in map.features}
             b == map.warnings
             c == IF detail = None THEN {} ELSE detail.warnings
             d == IF pivot = None THEN {} ELSE pivot.warnings
  <2>1. (detail # None => c = detail.warnings) /\ (pivot # None => d = pivot.warnings)
    OBVIOUS
  <2>2. all = a \cup b \cup c \cup d
    BY Zenon
  <2> HIDE DEF map, detail, pivot, all, a, c, d
  <2>3. b \subseteq all /\ c \subseteq all /\ d \subseteq all
    BY <2>2
  <2> QED
    BY <2>1, <2>3
<1> HIDE DEF e, map, detail, pivot, all
<1>3. ~ Failed(map) /\ ~ Failed(detail) /\ ~ Failed(pivot) /\ e.map = map /\ e.detail = detail /\ e.pivot = pivot /\ e.warnings = all
  BY <1>0, <1>1
<1> QED
  BY <1>2, <1>3 DEF e, map, detail, pivot

\* The view of a tab that did not fail, and its warnings.
LEMMA MapOfView ==
  ASSUME NEW req, NEW loads, ~ Failed(MapReply(req, loads))
  PROVE  LET view == ResolveView(req, loads.view) IN
         /\ ~ Failed(view) /\ MapReply(req, loads) = MapOf(req, view, PerilFilter(view.facts, req.perils), loads)
         /\ view.warnings \subseteq MapReply(req, loads).warnings
<1> DEFINE view == ResolveView(req, loads.view)
           raw == PerilFilter(view.facts, req.perils)
           m == MapReply(req, loads)
<1>1. m = IF Failed(view) THEN view ELSE MapOf(req, view, raw, loads)
  BY Zenon DEF MapReply, Given
<1> HIDE DEF m, view, raw
<1>2. ~ Failed(view) /\ m = MapOf(req, view, raw, loads)
  BY <1>1 DEF m
<1>3. view.warnings \subseteq m.warnings
  BY <1>2, MapWarns DEF m
<1> QED
  BY <1>2, <1>3, Zenon DEF m, view, raw
\* Of the detail.
LEMMA DetailOfView ==
  ASSUME NEW req, NEW geo, NEW loads, ~ Failed(DetailReply(req, geo, loads))
  PROVE  LET view == ResolveView(req, loads.view) IN
         /\ ~ Failed(view) /\ DetailReply(req, geo, loads) = Detail(req, view, PerilFilter(view.facts, req.perils), geo, loads)
         /\ view.warnings \subseteq DetailReply(req, geo, loads).warnings
<1> DEFINE view == ResolveView(req, loads.view)
           raw == PerilFilter(view.facts, req.perils)
           m == DetailReply(req, geo, loads)
<1>1. m = IF Failed(view) THEN view ELSE Detail(req, view, raw, geo, loads)
  BY Zenon DEF DetailReply, Given, Detail, Selected
<1> HIDE DEF m, view, raw
<1>2. ~ Failed(view) /\ m = Detail(req, view, raw, geo, loads)
  BY <1>1 DEF m
<1>3. view.warnings \subseteq m.warnings
  BY <1>2, DetailWarns DEF m
<1> QED
  BY <1>2, <1>3, Zenon DEF m, view, raw
\* Of the pivot.
LEMMA PivotOfView ==
  ASSUME NEW req, NEW dims, NEW measures, NEW asked, NEW loads, ~ Failed(PivotReply(req, dims, measures, asked, loads))
  PROVE  LET view == ResolveView(req, loads.view) IN
         /\ ~ Failed(view)
         /\ PivotReply(req, dims, measures, asked, loads)
              = PivotOf(req, dims, measures, asked, view, PerilFilter(view.facts, req.perils))
         /\ view.warnings \subseteq PivotReply(req, dims, measures, asked, loads).warnings
<1> DEFINE view == ResolveView(req, loads.view)
           raw == PerilFilter(view.facts, req.perils)
           m == PivotReply(req, dims, measures, asked, loads)
<1>1. m = IF Failed(view) THEN view ELSE PivotOf(req, dims, measures, asked, view, raw)
  BY Zenon DEF PivotReply, Given
<1> HIDE DEF m, view, raw
<1>2. ~ Failed(view) /\ m = PivotOf(req, dims, measures, asked, view, raw)
  BY <1>1 DEF m
<1>3. view.warnings \subseteq m.warnings
  BY <1>2, PivotWarns DEF m
<1> QED
  BY <1>2, <1>3, Zenon DEF m, view, raw

\* The rows that a view filters by peril are finitely many and have values.
LEMMA RawIsValued ==
  ASSUME NEW req, NEW loads \in Loads, ~ Failed(ResolveView(req, loads.view))
  PROVE  Valued(PerilFilter(ResolveView(req, loads.view).facts, req.perils))
<1> DEFINE view == ResolveView(req, loads.view)
<1>1. view.facts \subseteq RowsOf(loads.view) /\ Valued(RowsOf(loads.view))
  BY ViewIsOfRows, FoundRows
<1> HIDE DEF view
<1>2. PerilFilter(view.facts, req.perils) \subseteq view.facts
  BY DEF PerilFilter
<1> QED
  BY <1>1, <1>2, FS_Subset DEF Valued, view

\* The sheets of an export agree.
LEMMA MapAndDetail ==
  ASSUME NEW req, NEW geo, NEW m \in Loads, NEW d \in Loads, ~ Failed(MapReply(req, m)), ~ Failed(DetailReply(req, geo, d)),
         "WARN_EDM_LOAD_FAILED" \notin MapReply(req, m).warnings, "WARN_EDM_LOAD_FAILED" \notin DetailReply(req, geo, d).warnings,
         NoOtherRows(m.view, d.view), NoOtherRows(m.prior, d.prior)
  PROVE  /\ FiguresAgree(MapReply(req, m), DetailReply(req, geo, d))
         /\ SamePortfolio(req, m, d) => SharesAgree(MapReply(req, m), DetailReply(req, geo, d))
<1> DEFINE view == ResolveView(req, m.view)
           raw == PerilFilter(view.facts, req.perils)
           other == ResolveView(req, d.view)
<1>1. ~ Failed(view) /\ MapReply(req, m) = MapOf(req, view, raw, m) /\ view.warnings \subseteq MapReply(req, m).warnings
  BY MapOfView
<1>2. /\ ~ Failed(other) /\ DetailReply(req, geo, d) = Detail(req, other, PerilFilter(other.facts, req.perils), geo, d)
      /\ other.warnings \subseteq DetailReply(req, geo, d).warnings
  BY DetailOfView
<1>3. Valued(raw)
  BY <1>1, RawIsValued
<1>4. other = view
  BY <1>1, <1>2, SameView
<1> HIDE DEF view, other
<1>5. DetailReply(req, geo, d) = Detail(req, view, raw, geo, d)
  BY <1>2, <1>4
<1> HIDE DEF raw
<1> QED
  BY <1>1, <1>3, <1>5, DetailAgrees

\* The pivot adds up to the map.
LEMMA MapAndPivot ==
  ASSUME NEW req, NEW m \in Loads, NEW p \in Loads, req.level \in {"COUNTRY", "STATE"}, ScopeOf(req).method \in {Max_, Distinct},
         ~ Failed(MapReply(req, m)), ~ Failed(PivotReply(req, <<req.level>>, {"tiv", "count"}, None, p)),
         "WARN_EDM_LOAD_FAILED" \notin MapReply(req, m).warnings,
         "WARN_EDM_LOAD_FAILED" \notin PivotReply(req, <<req.level>>, {"tiv", "count"}, None, p).warnings,
         NoOtherRows(m.view, p.view), NamedByGeo(ResolveView(req, m.view).facts, req.level)
  PROVE  SameTotal(MapReply(req, m), PivotReply(req, <<req.level>>, {"tiv", "count"}, None, p))
<1> DEFINE view == ResolveView(req, m.view)
           raw == PerilFilter(view.facts, req.perils)
           other == ResolveView(req, p.view)
           map == MapReply(req, m)
           pivot == PivotReply(req, <<req.level>>, {"tiv", "count"}, None, p)
<1>1. ~ Failed(view) /\ map = MapOf(req, view, raw, m) /\ view.warnings \subseteq map.warnings
  BY MapOfView
<1>2. /\ ~ Failed(other) /\ other.warnings \subseteq pivot.warnings
      /\ pivot = PivotOf(req, <<req.level>>, {"tiv", "count"}, None, other, PerilFilter(other.facts, req.perils))
  BY PivotOfView
<1>3. Valued(raw)
  BY <1>1, RawIsValued
<1>4. other = view
  BY <1>1, <1>2, SameView
<1>5. view.method \in {Max_, Distinct}
  <2>1. view = ViewOf_(ScopeOf(req), Load(ScopeOf(req).datasets, m.view))
    BY <1>1, ViewOfScope
  <2> HIDE DEF view
  <2>2. view.method = ScopeOf(req).method
    BY <2>1 DEF ViewOf_
  <2> QED
    BY <2>2
<1>6. NamedByGeo(raw, req.level)
  <2>1. raw \subseteq view.facts
    BY DEF PerilFilter
  <2>2. NamedByGeo(view.facts, req.level)
    OBVIOUS
  <2> HIDE DEF raw, view
  <2> QED
    BY <2>1, <2>2 DEF NamedByGeo, AtLevel
<1> HIDE DEF view, other, map, pivot
<1>7. pivot = PivotOf(req, <<req.level>>, {"tiv", "count"}, None, view, raw)
  BY <1>2, <1>4
<1> HIDE DEF raw
<1>8. pivot.total["tiv"] = IF Selected(req, raw) = {} THEN 0 ELSE SumOf(Tivs(req, view, raw))
  <2>1. ~ Failed(PivotOf(req, <<req.level>>, {"tiv", "count"}, None, view, raw))
    BY <1>7 DEF pivot
  <2> QED
    BY <1>3, <1>5, <1>6, <1>7, <2>1, PivotTotal
<1>9. TivOf({f \in map.features : f.tiv # None}) = IF Selected(req, raw) = {} THEN 0 ELSE SumOf(Tivs(req, view, raw))
  <2>1. ~ Failed(MapOf(req, view, raw, m))
    BY <1>1 DEF map
  <2> QED
    BY <1>1, <1>3, <2>1, MapTotal
<1>10. pivot.total["tiv"] = TivOf({f \in map.features : f.tiv # None})
  BY <1>8, <1>9, Zenon
<1>11. SameTotal(map, pivot)
  BY <1>10, Zenon DEF SameTotal, TivOf
<1> QED
  BY <1>11 DEF map, pivot

\* No other endpoint exports.
LEMMA OtherThanExport ==
  ASSUME Next, ~ ExportCall
  PROVE  ~ Of("export")'
<1>1. CASE ViewNext
  <2>1. CASE CreateGroupCall
    BY <2>1 DEF CreateGroupCall, Of
  <2>2. CASE DetailCall
    BY <2>2 DEF DetailCall, Of
  <2>3. CASE PivotCall
    BY <2>3 DEF PivotCall, Of
  <2>4. CASE MapCall
    BY <2>4 DEF MapCall, Of
  <2>5. CASE LayersCall
    BY <2>5 DEF LayersCall, Of
  <2>6. CASE CatalogCall
    BY <2>6 DEF CatalogCall, Of
  <2> QED
    BY <1>1, <2>1, <2>2, <2>3, <2>4, <2>5, <2>6 DEF ViewNext
<1>2. CASE StormNext \/ FundNext \/ LossNext \/ HazardNext
  BY <1>2, OwnQuestions DEF StormOps, FundOps, LossOps, HazardOps, Of
<1>3. CASE Answered
  BY <1>3 DEF Answered, Of
<1> QED
  BY <1>1, <1>2, <1>3 DEF Next

(* The sheets of an export are computed apart, each from loads of its own,  *)
(* and agree: the detail of a geography says what the map says of it, and a *)
(* pivot by the level of the map adds up to the map, for any facts, filters *)
(* and combination of perils, when nothing was found with other rows        *)
(* meanwhile or the export warns of a load that failed.                     *)
THEOREM TabsAlwaysAgree == Spec => []ExportTabsAgree
<1>1. Init => ExportTabsAgree
  BY DEF Init, ExportTabsAgree, Shown, Of
<1>2. ExportTabsAgree /\ [Next]_vars => ExportTabsAgree'
  <2> SUFFICES ASSUME ExportTabsAgree, [Next]_vars PROVE ExportTabsAgree'
    OBVIOUS
  <2>1. CASE ExportCall
    <3>1. PICK req \in Asking, loads \in ExportLoads, geo \in Geometry \cup {None}, p \in Pivots \cup {None} :
            /\ call' = [op |-> "export", req |-> req, loads |-> loads, geo |-> geo, pivot |-> p]
            /\ reply' = ExportReply(req, geo, IF p = None THEN None ELSE p.dims, IF p = None THEN None ELSE p.asked, loads)
      BY <2>1 DEF ExportCall
    <3> DEFINE dims == IF p = None THEN None ELSE p.dims
               asked == IF p = None THEN None ELSE p.asked
               e == ExportReply(req, geo, dims, asked, loads)
               map == MapReply(req, loads.map)
               detail == IF geo = None THEN None ELSE DetailReply(req, geo, loads.detail)
               pivot == IF dims = None THEN None ELSE PivotReply(req, dims, {"tiv", "count"}, asked, loads.pivot)
    <3>2. call'.req = req /\ call'.loads = loads /\ call'.pivot = p /\ reply' = e
      BY <3>1
    <3>3. loads.map \in Loads /\ loads.detail \in Loads /\ loads.pivot \in Loads
      BY LoadAssumption
    <3> SUFFICES ASSUME ~ Failed(e), "WARN_EDM_LOAD_FAILED" \notin e.warnings
                 PROVE  /\ e.detail # None /\ NoOtherRows(loads.map.view, loads.detail.view)
                             /\ NoOtherRows(loads.map.prior, loads.detail.prior) =>
                             /\ FiguresAgree(e.map, e.detail)
                             /\ SamePortfolio(req, loads.map, loads.detail) => SharesAgree(e.map, e.detail)
                        /\ e.pivot # None /\ ByTheLevel(req, p) /\ NoOtherRows(loads.map.view, loads.pivot.view)
                             /\ NamedByGeo(ResolveView(req, loads.map.view).facts, req.level) => SameTotal(e.map, e.pivot)
      <4> HIDE DEF e
      <4> QED
        BY <3>2, Zenon DEF ExportTabsAgree, Shown
    <3>4. /\ e.map = map /\ e.detail = detail /\ e.pivot = pivot
          /\ ~ Failed(map) /\ ~ Failed(detail) /\ ~ Failed(pivot)
          /\ map.warnings \subseteq e.warnings
          /\ detail # None => detail.warnings \subseteq e.warnings
          /\ pivot # None => pivot.warnings \subseteq e.warnings
      BY ExportParts
    <3>5. ASSUME detail # None, NoOtherRows(loads.map.view, loads.detail.view), NoOtherRows(loads.map.prior, loads.detail.prior)
          PROVE  FiguresAgree(map, detail) /\ (SamePortfolio(req, loads.map, loads.detail) => SharesAgree(map, detail))
      <4>1. detail = DetailReply(req, geo, loads.detail)
        BY <3>5
      <4> HIDE DEF detail, map, e
      <4>2. "WARN_EDM_LOAD_FAILED" \notin map.warnings /\ "WARN_EDM_LOAD_FAILED" \notin detail.warnings
        BY <3>4, <3>5
      <4> QED
        BY <3>3, <3>4, <3>5, <4>1, <4>2, MapAndDetail DEF map
    <3>6. ASSUME pivot # None, ByTheLevel(req, p), NoOtherRows(loads.map.view, loads.pivot.view),
                 NamedByGeo(ResolveView(req, loads.map.view).facts, req.level)
          PROVE  SameTotal(map, pivot)
      <4>1. p # None
        BY <3>6
      <4>2. dims = <<req.level>> /\ asked = None /\ req.level \in {"COUNTRY", "STATE"} /\ ScopeOf(req).method \in {Max_, Distinct}
        BY <3>6, <4>1 DEF ByTheLevel
      <4> HIDE DEF dims, asked
      <4>3. pivot = PivotReply(req, <<req.level>>, {"tiv", "count"}, None, loads.pivot)
        BY <3>6, <4>2
      <4> HIDE DEF pivot, map, e
      <4>4. "WARN_EDM_LOAD_FAILED" \notin map.warnings /\ "WARN_EDM_LOAD_FAILED" \notin pivot.warnings
        BY <3>4, <3>6
      <4> QED
        BY <3>3, <3>4, <3>6, <4>2, <4>3, <4>4, MapAndPivot DEF map
    <3> HIDE DEF e, map, detail, pivot, dims, asked
    <3> QED
      BY <3>4, <3>5, <3>6
  <2>2. CASE Next /\ ~ ExportCall
    BY <2>2, OtherThanExport, Zenon DEF ExportTabsAgree, Shown
  <2>3. CASE UNCHANGED vars
    <3>1. call' = call /\ reply' = reply
      BY <2>3 DEF vars
    <3> QED
      BY <3>1, Zenon DEF ExportTabsAgree, Shown, Of
  <2> QED
    BY <2>1, <2>2, <2>3
<1> QED
  BY <1>1, <1>2, PTL DEF Spec

\* No other endpoint fits.
LEMMA OtherThanFit ==
  ASSUME Next, ~ FitCall
  PROVE  ~ Of("fit")'
<1>1. CASE LossNext
  <2>1. CASE HurricanesCall
    BY <2>1 DEF HurricanesCall, Of
  <2>2. CASE CountyImpactCall
    BY <2>2 DEF CountyImpactCall, Of
  <2>3. CASE IndustryLossCall
    BY <2>3 DEF IndustryLossCall, Of
  <2>4. CASE BacktestCall
    BY <2>4 DEF BacktestCall, Of
  <2> QED
    BY <1>1, <2>1, <2>2, <2>3, <2>4 DEF LossNext
<1>2. CASE StormNext \/ FundNext \/ ViewNext \/ HazardNext
  BY <1>2, OwnQuestions DEF StormOps, FundOps, ViewOps, HazardOps, Of
<1>3. CASE Answered
  BY <1>3 DEF Answered, Of
<1> QED
  BY <1>1, <1>2, <1>3 DEF Next

\* The monotone fit of a damage curve, with no pinned band and no tail to take from
\* the prior, is its isotonic regression within the limits: the pooling of adjacent
\* violators computes, for any integers and however often blocks merge, the largest
\* over starts of the smallest over ends of the means.
THEOREM FitIsAlwaysIsotonic == Spec => []FitIsTheIsotonicOne
<1>1. Init => FitIsTheIsotonicOne
  BY DEF Init, FitIsTheIsotonicOne, Of
<1>2. FitIsTheIsotonicOne /\ [Next]_vars => FitIsTheIsotonicOne'
  <2> SUFFICES ASSUME FitIsTheIsotonicOne, [Next]_vars PROVE FitIsTheIsotonicOne'
    OBVIOUS
  <2>1. CASE FitCall
    <3>1. PICK theta \in Curves, fixed \in Pins, supported \in {{}, {1, 2}} :
            /\ call' = [op |-> "fit", theta |-> theta, fixed |-> fixed, supported |-> supported]
            /\ reply' = PriorTail(Project(theta, fixed, -1000, 1000), [b \in DOMAIN theta |-> Scale * b],
                                  supported, fixed, -1000, 1000)
      BY <2>1, Zenon DEF FitCall
    <3>2. call'.theta = theta /\ call'.fixed = fixed /\ call'.supported = supported
      BY <3>1
    <3>3. theta \in Seq(Int)
      BY LossAssumption DEF LossAssumption
    <3>4. PavNonDecreasing(theta) = Isotonic(theta)
      BY <3>3, PooledIsIsotonic
    <3>5. ASSUME fixed = <<>>, supported = {} PROVE reply' = Clamp(Isotonic(theta), -1000, 1000)
      <4>1. reply' = Project(theta, fixed, -1000, 1000)
        BY <3>1, <3>5, Zenon DEF PriorTail
      <4>2. Project(theta, fixed, -1000, 1000) = Clamp(PavNonDecreasing(theta), -1000, 1000)
        BY <3>5, Zenon DEF Project
      <4> QED
        BY <3>4, <4>1, <4>2
    <3> QED
      BY <3>2, <3>5 DEF FitIsTheIsotonicOne
  <2>2. CASE Next /\ ~ FitCall
    BY <2>2, OtherThanFit DEF FitIsTheIsotonicOne
  <2>3. CASE UNCHANGED vars
    <3>1. call' = call /\ reply' = reply
      BY <2>3 DEF vars
    <3> QED
      BY <3>1 DEF FitIsTheIsotonicOne, Of
  <2> QED
    BY <2>1, <2>2, <2>3
<1> QED
  BY <1>1, <1>2, PTL DEF Spec

\* No other endpoint optimises.
LEMMA OtherThanOptimize ==
  ASSUME Next, ~ OptimizeCall
  PROVE  ~ Of("optimize")'
<1>1. CASE FundNext
  <2>1. CASE CustomCall
    BY <2>1 DEF CustomCall, Of
  <2>2. CASE RollingCall
    BY <2>2 DEF RollingCall, Of
  <2>3. CASE RobustnessCall
    BY <2>3 DEF RobustnessCall, Of
  <2> QED
    BY <1>1, <2>1, <2>2, <2>3 DEF FundNext
<1>2. CASE StormNext \/ LossNext \/ ViewNext \/ HazardNext
  BY <1>2, OwnQuestions DEF StormOps, LossOps, ViewOps, HazardOps, Of
<1>3. CASE Answered
  BY <1>3 DEF Answered, Of
<1> QED
  BY <1>1, <1>2, <1>3 DEF Next

\* An answered optimisation shows the frontier of its points.
LEMMA OptimizeAnswers ==
  ASSUME YearlyIsANumber, NEW ids \in FundSets, NEW draws \in DrawLists, NEW start, NEW req \in Requests,
         OptimizeReply(ids, draws, start, 40, req) # Invalid
  PROVE  Undominated(OptimizeReply(ids, draws, start, 40, req).points, OptimizeReply(ids, draws, start, 40, req).frontier)
<1> DEFINE r == OptimizeReply(ids, draws, start, 40, req)
           found == Optimised(ids, draws, start, 40, req)
<1>1. Asked(req) /\ IsFiniteSet(ids) /\ draws \in Seq(Seq(Int \X (Nat \ {0})))
  BY FundAssumption DEF Asked
<1>2. ~ (~(ids \subseteq DOMAIN Catalog) \/ Cardinality(ids) < 2 \/ CapitalOf(req) <= 0)
  BY DEF OptimizeReply
<1>3. r.points = found.points /\ r.frontier = found.frontier
  BY <1>2 DEF OptimizeReply, Given
<1>4. Listed(ids)
  BY <1>1, <1>2, FundAssumption DEF Listed
<1>5. CapitalOf(req) > 0
  BY <1>1, <1>2, CapitalType
<1>6. 40 \in Int
  OBVIOUS
<1>7. Undominated(found.points, found.frontier)
  BY <1>1, <1>4, <1>5, <1>6, OptimisedFrontier
<1> HIDE DEF r, found
<1>8. Undominated(r.points, r.frontier)
  BY <1>3, <1>7
<1> QED
  BY <1>8 DEF r

(* The frontier an optimisation shows is that of its points, for any        *)
(* catalogue, draws and limits: no sampled book is calmer than one of them  *)
(* and returns as much, and each is matched by one of its volatility bin or *)
(* a lower one. The yearly root is abstract; that it is a number is         *)
(* assumed.                                                                 *)
THEOREM FrontierIsAlwaysUndominated ==
  ASSUME YearlyIsANumber
  PROVE  Spec => []FrontierIsUndominated
<1>1. Init => FrontierIsUndominated
  BY DEF Init, FrontierIsUndominated, Optimal, Of
<1>2. FrontierIsUndominated /\ [Next]_vars => FrontierIsUndominated'
  <2> SUFFICES ASSUME FrontierIsUndominated, [Next]_vars PROVE FrontierIsUndominated'
    OBVIOUS
  <2>1. CASE OptimizeCall
    <3>1. PICK ids \in FundSets, draws \in DrawLists, start \in HistoryStarts, req \in Requests :
            reply' = OptimizeReply(ids, draws, start, 40, req)
      BY <2>1, Zenon DEF OptimizeCall
    <3>2. reply' # Invalid => Undominated(reply'.points, reply'.frontier)
      BY <3>1, OptimizeAnswers
    <3> QED
      BY <3>2, Zenon DEF FrontierIsUndominated, Optimal, Undominated
  <2>2. CASE Next /\ ~ OptimizeCall
    BY <2>2, OtherThanOptimize DEF FrontierIsUndominated, Optimal
  <2>3. CASE UNCHANGED vars
    <3>1. call' = call /\ reply' = reply
      BY <2>3 DEF vars
    <3> QED
      BY <3>1, Zenon DEF FrontierIsUndominated, Optimal, Of
  <2> QED
    BY <2>1, <2>2, <2>3
<1> QED
  BY <1>1, <1>2, PTL DEF Spec

(***************************************************************************)
(* The envelope of the model tracks.                                       *)
(***************************************************************************)
\* The fixes of a track: two at least, at whole leads, in the plane.
Charted(fixes) ==
  /\ IsFiniteSet(DOMAIN fixes) /\ DOMAIN fixes \subseteq Int /\ Cardinality(DOMAIN fixes) >= 2
  /\ \A tau \in DOMAIN fixes : fixes[tau].pos \in Plane
AllCharted(tracks) == IsFiniteSet(DOMAIN tracks) /\ \A i \in DOMAIN tracks : Charted(tracks[i].fixes)

\* The rows of the cycle asked for are rows of the file.
LEMMA RowsAreRead ==
  ASSUME NEW file \in AdeckFiles, NEW cycle
  PROVE  \E T : /\ \A r \in T : r.tau \in Int /\ r.pos \in Plane
                /\ (IF ParseLines(file) = <<>> THEN <<>> ELSE SelectRows(ParseLines(file), cycle)) \in Seq(T)
<1> DEFINE parsed == ParseLines(file)
           read == {i \in DOMAIN file : file[i] # None}
           asked == {i \in DOMAIN parsed : parsed[i].init = cycle}
           own == {i \in DOMAIN parsed : OwnCycle(parsed, parsed[i])}
           T == {file[i] : i \in read}
<1>1. file \in Seq(Range(file)) /\ \A i \in DOMAIN file : file[i] = None \/ (file[i].tau \in Int /\ file[i].pos \in Plane)
  BY StormAssumption, Zenon DEF Plane
<1>2. parsed = Picked(file, read)
  BY Zenon DEF ParseLines, Sift, Picked
<1>3. parsed \in Seq(T) /\ \A r \in T : r.tau \in Int /\ r.pos \in Plane
  <2>1. parsed \in Seq(Range(file)) /\ Range(parsed) = {x \in Range(file) : \E i \in DOMAIN file : i \in read /\ x = file[i]}
    <3> HIDE DEF parsed, read
    <3> QED
      BY <1>1, <1>2, Sifted
  <2>2. Range(parsed) \subseteq T
    <3> HIDE DEF parsed, read
    <3> QED
      BY <2>1
  <2>3. \A r \in T : r.tau \in Int /\ r.pos \in Plane
    BY <1>1
  <2> HIDE DEF parsed, T
  <2> QED
    BY <2>1, <2>2, <2>3, NarrowSequence
<1>4. SelectRows(parsed, cycle) = IF cycle # None THEN Picked(parsed, asked) ELSE Picked(parsed, own)
  <2> HIDE DEF parsed
  <2> QED
    BY Zenon DEF SelectRows, Sift, Picked, asked, own
<1> HIDE DEF parsed, T
<1>5. Picked(parsed, asked) \in Seq(T) /\ Picked(parsed, own) \in Seq(T)
  <2> HIDE DEF asked, own
  <2> QED
    BY <1>3, Sifted
<1>6. SelectRows(parsed, cycle) \in Seq(T) /\ <<>> \in Seq(T)
  <2> HIDE DEF asked, own
  <2>1. <<>> \in Seq(T)
    BY EmptySeq
  <2> QED
    BY <1>4, <1>5, <2>1
<1>7. (IF parsed = <<>> THEN <<>> ELSE SelectRows(parsed, cycle)) \in Seq(T)
  BY <1>6, Zenon
<1> QED
  BY <1>3, <1>7, Zenon DEF parsed

\* The techs in their order.
LEMMA DisplayOrderIsAList == DisplayOrder \in Seq(Range(DisplayOrder))
<1> DEFINE R == Range(DisplayOrder)
           n == 6
<1>1. DisplayOrder \in [1..n -> R] /\ n \in Nat
  BY DEF DisplayOrder, Range
<1> HIDE DEF R, n
<1>2. DisplayOrder \in Seq(R)
  BY <1>1
<1> QED
  BY <1>2 DEF R

\* The tracks that are shown are charted.
LEMMA TracksAreCharted ==
  ASSUME NEW file \in AdeckFiles, NEW cycle, NEW baselines
  PROVE  AllCharted(FetchModelTracks(file, cycle, baselines))
<1> DEFINE rows == IF ParseLines(file) = <<>> THEN <<>> ELSE SelectRows(ParseLines(file), cycle)
           shown(t) == /\ FamilyOf[t] = "baseline" => baselines
                       /\ FamilyOf[t] # "analysis"
                       /\ Cardinality(Taus(rows, t)) >= 2
           fix(t, tau) == [pos |-> rows[Min(RowsAt(rows, t, tau))].pos, wind |-> rows[Min(RowsAt(rows, t, tau))].wind]
           track(t) == [tech |-> t, init |-> Max(Inits(rows, t)),
                        fixes |-> [tau \in Taus(rows, t) |-> fix(t, tau)]]
           I == {i \in DOMAIN DisplayOrder : shown(DisplayOrder[i])}
           techs == Picked(DisplayOrder, I)
           tracks == [i \in DOMAIN techs |-> track(techs[i])]
<1>1. FetchModelTracks(file, cycle, baselines) = tracks
  BY Zenon DEF FetchModelTracks, Sift, Picked
<1>2. PICK T : (\A r \in T : r.tau \in Int /\ r.pos \in Plane) /\ rows \in Seq(T)
  BY RowsAreRead
<1> HIDE DEF rows
<1>3. Len(rows) \in Nat /\ DOMAIN rows = 1..Len(rows) /\ \A i \in 1..Len(rows) : rows[i].tau \in Int /\ rows[i].pos \in Plane
  <2>1. Len(rows) \in Nat /\ DOMAIN rows = 1..Len(rows) /\ \A i \in 1..Len(rows) : rows[i] \in T
    BY <1>2, LenProperties, ElementOfSeq
  <2> QED
    BY <1>2, <2>1
<1>4. DisplayOrder \in Seq(Range(DisplayOrder))
  BY DisplayOrderIsAList
<1>5. techs \in Seq(Range(DisplayOrder)) /\ Range(techs) = {x \in Range(DisplayOrder) : \E i \in DOMAIN DisplayOrder : i \in I /\ x = DisplayOrder[i]}
  <2> HIDE DEF I
  <2> QED
    BY <1>4, Sifted
<1>6. DOMAIN techs = 1..Len(techs) /\ Len(techs) \in Nat
  <2> HIDE DEF techs
  <2> QED
    BY <1>5, LenProperties
<1>7. \A i \in DOMAIN techs : Cardinality(Taus(rows, techs[i])) >= 2
  <2>1. \A i \in DOMAIN techs : techs[i] \in Range(techs)
    <3> HIDE DEF techs
    <3> QED
      BY DEF Range
  <2>2. \A i \in I : Cardinality(Taus(rows, DisplayOrder[i])) >= 2
    BY Zenon
  <2> HIDE DEF techs, I
  <2> QED
    BY <1>5, <2>1, <2>2
<1>8. ASSUME NEW i \in DOMAIN techs
      PROVE  Charted(tracks[i].fixes)
  <2> DEFINE t == techs[i]
             at == {k \in DOMAIN rows : rows[k].tech = t}
             fixes == [tau \in Taus(rows, t) |-> fix(t, tau)]
  <2>1. tracks[i].fixes = fixes
    <3> HIDE DEF fix, techs
    <3> QED
      OBVIOUS
  <2>2. DOMAIN fixes = {rows[k].tau : k \in at}
    BY DEF Taus
  <2>3. IsFiniteSet(at)
    <3>1. IsFiniteSet(1..Len(rows))
      BY <1>3, FS_Interval
    <3>2. at \subseteq 1..Len(rows)
      BY <1>3
    <3> HIDE DEF at
    <3> QED
      BY <3>1, <3>2, FS_Subset
  <2>4. IsFiniteSet(DOMAIN fixes)
    <3> DEFINE f == [k \in DOMAIN rows |-> rows[k].tau]
    <3>1. IsFiniteSet({f[k] : k \in at})
      <4> HIDE DEF at, f
      <4> QED
        BY <2>3, FiniteImage
    <3>2. {f[k] : k \in at} = {rows[k].tau : k \in at}
      OBVIOUS
    <3> HIDE DEF fixes, at, f
    <3> QED
      BY <2>2, <3>1, <3>2
  <2>5. DOMAIN fixes \subseteq Int
    <3> HIDE DEF fixes
    <3> QED
      BY <1>3, <2>2
  <2>6. Cardinality(DOMAIN fixes) >= 2
    <3>1. DOMAIN fixes = Taus(rows, t)
      OBVIOUS
    <3> HIDE DEF fixes
    <3> QED
      BY <1>7, <3>1
  <2>7. ASSUME NEW tau \in DOMAIN fixes
        PROVE  fixes[tau].pos \in Plane
    <3> DEFINE of == RowsAt(rows, t, tau)
    <3>1. of \subseteq at /\ of # {}
      <4>1. \E k \in at : rows[k].tau = tau
        <5> HIDE DEF fixes
        <5> QED
          BY <2>2
      <4> HIDE DEF fixes
      <4> QED
        BY <4>1 DEF RowsAt
    <3>2. of \in SUBSET Int /\ IsFiniteSet(of) /\ of \subseteq DOMAIN rows
      <4>1. at \subseteq DOMAIN rows
        OBVIOUS
      <4> HIDE DEF of, at, fixes
      <4> QED
        BY <1>3, <2>3, <3>1, <4>1, FS_Subset
    <3>3. Min(of) \in of
      <4> HIDE DEF of
      <4> QED
        BY <3>1, <3>2, MinOfFinite
    <3>4. fixes[tau].pos = rows[Min(of)].pos
      <4> HIDE DEF at
      <4> QED
        OBVIOUS
    <3> HIDE DEF of, fixes
    <3> QED
      BY <1>3, <3>2, <3>3, <3>4
  <2> HIDE DEF fixes, tracks
  <2>8. Charted(fixes)
    BY <2>4, <2>5, <2>6, <2>7 DEF Charted
  <2> QED
    BY <2>1, <2>8
<1>9. DOMAIN tracks = DOMAIN techs /\ IsFiniteSet(DOMAIN techs)
  <2>1. DOMAIN tracks = DOMAIN techs
    <3> HIDE DEF techs
    <3> QED
      OBVIOUS
  <2>2. IsFiniteSet(DOMAIN techs)
    <3> HIDE DEF techs
    <3> QED
      BY <1>6, FS_Interval
  <2> QED
    BY <2>1, <2>2
<1> HIDE DEF tracks, techs
<1>10. AllCharted(tracks)
  BY <1>8, <1>9 DEF AllCharted
<1> QED
  BY <1>1, <1>10

\* The neighbour of a lead is a lead of the track.
LEMMA NeighbourIsCharted ==
  ASSUME NEW fixes, Charted(fixes), NEW tau \in DOMAIN fixes
  PROVE  Neighbour(fixes, tau)[1] \in DOMAIN fixes /\ Neighbour(fixes, tau)[2] \in DOMAIN fixes
<1> DEFINE ends == Neighbour(fixes, tau)
           D == DOMAIN fixes
<1>0. IsFiniteSet(D) /\ D \subseteq Int /\ Cardinality(D) >= 2
  BY DEF Charted
<1> DEFINE later == {u \in D : u > tau}
           others == D \ {tau}
<1>1. IsFiniteSet(later) /\ later \in SUBSET Int /\ IsFiniteSet(others) /\ others \in SUBSET Int
  <2> HIDE DEF D
  <2> QED
    BY <1>0, FS_Subset
<1>2. CASE later # {}
  <2>1. ends = <<tau, Min(later)>>
    BY <1>2 DEF Neighbour
  <2>2. Min(later) \in later
    <3> HIDE DEF later
    <3> QED
      BY <1>1, <1>2, MinOfFinite
  <2>3. Min(later) \in D /\ tau \in D
    BY <2>2
  <2> HIDE DEF later
  <2> QED
    BY <2>1, <2>3
<1>3. CASE later = {}
  <2>1. ends = <<Max(others), tau>>
    BY <1>3 DEF Neighbour
  <2>2. others # {}
    <3> SUFFICES ASSUME D \subseteq {tau}
                 PROVE  FALSE
      <4> HIDE DEF D
      <4> QED
        OBVIOUS
    <3>1. IsFiniteSet({tau}) /\ Cardinality({tau}) = 1
      BY FS_Singleton
    <3> HIDE DEF D
    <3>2. Cardinality(D) <= Cardinality({tau}) /\ Cardinality(D) \in Nat
      BY <1>0, <3>1, FS_Subset, FS_CardinalityType
    <3> QED
      BY <1>0, <3>1, <3>2
  <2>3. Max(others) \in others
    <3> HIDE DEF others
    <3> QED
      BY <1>1, <2>2, MaxOfFinite
  <2>4. Max(others) \in D /\ tau \in D
    BY <2>3
  <2> HIDE DEF others
  <2> QED
    BY <2>1, <2>4
<1> QED
  BY <1>2, <1>3

\* The corridor of charted tracks is a finite set of points of the plane.
LEMMA CorridorIsFinite ==
  ASSUME NEW tracks, AllCharted(tracks), NEW members \in SUBSET DOMAIN tracks
  PROVE  CorridorPoints(tracks, members) \in SUBSET Plane /\ IsFiniteSet(CorridorPoints(tracks, members))
<1> DEFINE across(i, tau) == LET fixes == tracks[i].fixes
                                 ends == Neighbour(fixes, tau)
                             IN <<fixes[ends[1]].pos[2] - fixes[ends[2]].pos[2],
                                  fixes[ends[2]].pos[1] - fixes[ends[1]].pos[1]>>
           at(i, tau) == tracks[i].fixes[tau].pos
           left(i, tau) == <<at(i, tau)[1] + across(i, tau)[1], at(i, tau)[2] + across(i, tau)[2]>>
           right(i, tau) == <<at(i, tau)[1] - across(i, tau)[1], at(i, tau)[2] - across(i, tau)[2]>>
           pair(i, tau) == {left(i, tau), right(i, tau)}
           along(i) == UNION {pair(i, tau) : tau \in DOMAIN tracks[i].fixes}
<1>1. CorridorPoints(tracks, members) = UNION {along(i) : i \in members}
  BY Zenon DEF CorridorPoints
<1>2. ASSUME NEW i \in members, NEW tau \in DOMAIN tracks[i].fixes
      PROVE  /\ at(i, tau) \in Plane /\ across(i, tau) \in Plane
             /\ left(i, tau) \in Plane /\ right(i, tau) \in Plane
  <2> DEFINE fixes == tracks[i].fixes
             ends == Neighbour(fixes, tau)
             D == DOMAIN fixes
  <2>1. IsFiniteSet(D) /\ D \subseteq Int /\ Cardinality(D) >= 2 /\ \A u \in D : fixes[u].pos \in Plane
    BY DEF AllCharted, Charted
  <2>2. ends[1] \in D /\ ends[2] \in D
    BY NeighbourIsCharted DEF AllCharted
  <2>3. fixes[ends[1]].pos \in Plane /\ fixes[ends[2]].pos \in Plane /\ fixes[tau].pos \in Plane
    <3> DEFINE e1 == ends[1]
               e2 == ends[2]
    <3>1. e1 \in D /\ e2 \in D /\ tau \in D
      BY <2>2
    <3> HIDE DEF e1, e2, ends, fixes
    <3>2. fixes[e1].pos \in Plane /\ fixes[e2].pos \in Plane /\ fixes[tau].pos \in Plane
      BY <2>1, <3>1
    <3> QED
      BY <3>2 DEF e1, e2
  <2> DEFINE p == fixes[ends[1]].pos
             q == fixes[ends[2]].pos
             o == fixes[tau].pos
  <2>4. across(i, tau) = <<p[2] - q[2], q[1] - p[1]>> /\ at(i, tau) = o
    BY Zenon
  <2> HIDE DEF p, q, o, across, at
  <2>5. p \in Plane /\ q \in Plane /\ o \in Plane
    BY <2>3 DEF p, q, o
  <2>6. across(i, tau) \in Plane /\ at(i, tau) \in Plane
    BY <2>4, <2>5 DEF Plane
  <2> DEFINE x == across(i, tau)
             y == at(i, tau)
  <2>7. x \in Plane /\ y \in Plane
    BY <2>6
  <2> HIDE DEF x, y
  <2>8. <<y[1] + x[1], y[2] + x[2]>> \in Plane /\ <<y[1] - x[1], y[2] - x[2]>> \in Plane
    BY <2>7 DEF Plane
  <2>9. left(i, tau) \in Plane /\ right(i, tau) \in Plane
    BY <2>8, Zenon DEF x, y
  <2> QED
    BY <2>6, <2>9
<1> HIDE DEF left, right, at, across
<1>3. ASSUME NEW i \in members
      PROVE  along(i) \in SUBSET Plane /\ IsFiniteSet(along(i))
  <2> DEFINE D == DOMAIN tracks[i].fixes
             f == [tau \in D |-> pair(i, tau)]
  <2>1. IsFiniteSet(D)
    BY DEF AllCharted, Charted
  <2>2. \A tau \in D : pair(i, tau) \in SUBSET Plane /\ IsFiniteSet(pair(i, tau))
    <3>1. \A tau \in D : pair(i, tau) \in SUBSET Plane
      BY <1>2
    <3>2. \A tau \in D : IsFiniteSet(pair(i, tau))
      BY FS_Singleton, FS_Union, TwoAreFinite
    <3> QED
      BY <3>1, <3>2
  <2>3. IsFiniteSet({f[tau] : tau \in D})
    <3> HIDE DEF f, D
    <3> QED
      BY <2>1, FiniteImage
  <2>4. {f[tau] : tau \in D} = {pair(i, tau) : tau \in D}
    <3> HIDE DEF pair, D
    <3> QED
      OBVIOUS
  <2> HIDE DEF pair, f, D
  <2>5. IsFiniteSet(UNION {pair(i, tau) : tau \in D})
    BY <2>2, <2>3, <2>4, FS_UNION
  <2> QED
    BY <2>2, <2>5 DEF D
<1> HIDE DEF along
<1>4. IsFiniteSet(members)
  BY FS_Subset DEF AllCharted
<1>5. IsFiniteSet({along(i) : i \in members})
  <2> DEFINE f == [i \in members |-> along(i)]
  <2>1. IsFiniteSet({f[i] : i \in members})
    <3> HIDE DEF f
    <3> QED
      BY <1>4, FiniteImage
  <2>2. {f[i] : i \in members} = {along(i) : i \in members}
    OBVIOUS
  <2> QED
    BY <2>1, <2>2
<1>6. IsFiniteSet(UNION {along(i) : i \in members})
  BY <1>3, <1>5, FS_UNION
<1> QED
  BY <1>1, <1>3, <1>6

\* Between two points on either side of it, a point is supported.
LEMMA HalfWay ==
  ASSUME NEW S \in SUBSET Plane, NEW p \in Plane, NEW x \in Int, NEW y \in Int,
         <<p[1] + x, p[2] + y>> \in S, <<p[1] - x, p[2] - y>> \in S
  PROVE  Supported(p, S)
<1> SUFFICES ASSUME NEW u \in Plane
             PROVE  \E s \in S : Dot(u, p) <= Dot(u, s)
  BY DEF Supported
<1> DEFINE a == <<p[1] + x, p[2] + y>>
           b == <<p[1] - x, p[2] - y>>
           d == u[1] * x + u[2] * y
<1>1. p[1] \in Int /\ p[2] \in Int /\ u[1] \in Int /\ u[2] \in Int
  BY DEF Plane
<1>2. Dot(u, a) = Dot(u, p) + d /\ Dot(u, b) = Dot(u, p) - d /\ d \in Int /\ Dot(u, p) \in Int
  <2>1. a[1] = p[1] + x /\ a[2] = p[2] + y /\ b[1] = p[1] - x /\ b[2] = p[2] - y
    OBVIOUS
  <2>2. Dot(u, a) = u[1] * (p[1] + x) + u[2] * (p[2] + y)
    BY <2>1, Zenon DEF Dot
  <2>3. Dot(u, b) = u[1] * (p[1] - x) + u[2] * (p[2] - y)
    BY <2>1, Zenon DEF Dot
  <2> HIDE DEF a, b
  <2> QED
    BY <1>1, <2>2, <2>3 DEF Dot
<1> HIDE DEF a, b, d
<1>3. Dot(u, p) <= Dot(u, a) \/ Dot(u, p) <= Dot(u, b)
  BY <1>2
<1> QED
  BY <1>3 DEF a, b

\* Where a member stands is supported by the corridor along the tracks.
LEMMA CorridorSupports ==
  ASSUME NEW tracks, AllCharted(tracks), NEW members \in SUBSET DOMAIN tracks,
         NEW i \in members, NEW h \in DOMAIN tracks[i].fixes
  PROVE  Supported(tracks[i].fixes[h].pos, CorridorPoints(tracks, members))
<1> DEFINE fixes(k) == tracks[k].fixes
           ends(k, t) == Neighbour(fixes(k), t)
           x(k, t) == fixes(k)[ends(k, t)[1]].pos[2] - fixes(k)[ends(k, t)[2]].pos[2]
           y(k, t) == fixes(k)[ends(k, t)[2]].pos[1] - fixes(k)[ends(k, t)[1]].pos[1]
           at(k, t) == fixes(k)[t].pos
           pair(k, t) == {<<at(k, t)[1] + x(k, t), at(k, t)[2] + y(k, t)>>, <<at(k, t)[1] - x(k, t), at(k, t)[2] - y(k, t)>>}
           C == CorridorPoints(tracks, members)
<1>1. <<at(i, h)[1] + x(i, h), at(i, h)[2] + y(i, h)>> \in C /\ <<at(i, h)[1] - x(i, h), at(i, h)[2] - y(i, h)>> \in C
  <2>1. C = UNION {UNION {pair(k, t) : t \in DOMAIN tracks[k].fixes} : k \in members}
    BY DEF CorridorPoints
  <2> HIDE DEF C, x, y, at
  <2>2. pair(i, h) \subseteq C
    <3> HIDE DEF pair
    <3> QED
      BY <2>1
  <2> QED
    BY <2>2
<1>2. C \in SUBSET Plane
  BY CorridorIsFinite
<1>3. at(i, h) \in Plane /\ x(i, h) \in Int /\ y(i, h) \in Int
  <2>1. Charted(fixes(i))
    BY DEF AllCharted
  <2> DEFINE a == ends(i, h)[1]
             b == ends(i, h)[2]
             p == fixes(i)[a].pos
             q == fixes(i)[b].pos
             o == fixes(i)[h].pos
  <2>2. a \in DOMAIN fixes(i) /\ b \in DOMAIN fixes(i)
    BY <2>1, NeighbourIsCharted
  <2>3. p \in Plane /\ q \in Plane /\ o \in Plane
    <3> HIDE DEF a, b, fixes
    <3>1. h \in DOMAIN fixes(i)
      BY DEF fixes
    <3> QED
      BY <2>1, <2>2, <3>1 DEF Charted
  <2>4. x(i, h) = p[2] - q[2] /\ y(i, h) = q[1] - p[1] /\ at(i, h) = o
    BY Zenon
  <2> HIDE DEF p, q, o, x, y, at
  <2> QED
    BY <2>3, <2>4 DEF Plane
<1> HIDE DEF at, x, y, C
<1>5. Supported(at(i, h), C)
  BY <1>1, <1>2, <1>3, HalfWay
<1> QED
  BY <1>5, Zenon DEF at, C

\* The fixes of the members at an anchor are a finite set of points of the plane.
LEMMA FixesAreFinite ==
  ASSUME NEW tracks, AllCharted(tracks), NEW members \in SUBSET DOMAIN tracks, NEW h
  PROVE  /\ {tracks[i].fixes[h].pos : i \in Reporting(tracks, members, h)} \in SUBSET Plane
         /\ IsFiniteSet({tracks[i].fixes[h].pos : i \in Reporting(tracks, members, h)})
<1> DEFINE R == Reporting(tracks, members, h)
           f == [i \in R |-> tracks[i].fixes[h].pos]
           at == {tracks[i].fixes[h].pos : i \in R}
<1>1. R \subseteq members /\ IsFiniteSet(R)
  <2>1. R \subseteq members /\ R \subseteq DOMAIN tracks
    BY DEF Reporting
  <2> HIDE DEF R
  <2> QED
    BY <2>1, FS_Subset DEF AllCharted
<1>2. IsFiniteSet({f[i] : i \in R})
  <2> HIDE DEF R, f
  <2> QED
    BY <1>1, FiniteImage
<1>3. {f[i] : i \in R} = at
  OBVIOUS
<1>4. at \in SUBSET Plane
  BY DEF Reporting, AllCharted, Charted
<1> HIDE DEF f, R
<1> QED
  BY <1>2, <1>3, <1>4 DEF R

\* All the fixes of charted tracks are a finite set.
LEMMA AllFixesAreFinite ==
  ASSUME NEW tracks, AllCharted(tracks), NEW members \in SUBSET DOMAIN tracks
  PROVE  IsFiniteSet(UNION {{tracks[i].fixes[h].pos : h \in DOMAIN tracks[i].fixes} : i \in members})
<1> DEFINE all(i) == {tracks[i].fixes[h].pos : h \in DOMAIN tracks[i].fixes}
<1>1. ASSUME NEW i \in members
      PROVE  IsFiniteSet(all(i))
  <2> DEFINE D == DOMAIN tracks[i].fixes
             f == [h \in D |-> tracks[i].fixes[h].pos]
  <2>1. IsFiniteSet(D)
    BY DEF AllCharted, Charted
  <2>2. IsFiniteSet({f[h] : h \in D})
    <3> HIDE DEF D, f
    <3> QED
      BY <2>1, FiniteImage
  <2>3. {f[h] : h \in D} = all(i)
    OBVIOUS
  <2> HIDE DEF f
  <2> QED
    BY <2>2, <2>3
<1> HIDE DEF all
<1>2. IsFiniteSet(members)
  BY FS_Subset DEF AllCharted
<1>3. IsFiniteSet({all(i) : i \in members})
  <2> DEFINE f == [i \in members |-> all(i)]
  <2>1. IsFiniteSet({f[i] : i \in members})
    <3> HIDE DEF f
    <3> QED
      BY <1>2, FiniteImage
  <2>2. {f[i] : i \in members} = {all(i) : i \in members}
    OBVIOUS
  <2> QED
    BY <2>1, <2>2
<1>4. IsFiniteSet(UNION {all(i) : i \in members})
  BY <1>1, <1>3, FS_UNION
<1> QED
  BY <1>4 DEF all

\* The points a ring is drawn around are within it.
LEMMA RingHolds ==
  ASSUME NEW C \in SUBSET Plane, IsFiniteSet(C), NEW U \in SUBSET Plane, IsFiniteSet(U),
         NEW p \in Plane, Supported(p, C), Supported(p, U)
  PROVE  LET around == ConvexHull(U)
             ring == IF Cardinality(around) < 3 THEN ConvexHull(C) ELSE around
         IN Cardinality(ring) >= 3 => InHull(p, ring)
<1>1. ASSUME NEW S \in SUBSET Plane, IsFiniteSet(S), Supported(p, S)
      PROVE  InHull(p, ConvexHull(S))
  <2> DEFINE H == ConvexHull(S)
  <2>1. H \subseteq S /\ \A s \in S : Supported(s, H)
    <3>1. S # {}
      <4>1. <<0, 0>> \in Plane
        BY DEF Plane
      <4> QED
        BY <1>1, <4>1 DEF Supported
    <3> HIDE DEF H
    <3> QED
      BY <1>1, <3>1, HullSupports DEF H
  <2>2. H \in SUBSET Plane /\ IsFiniteSet(H)
    <3> HIDE DEF H
    <3> QED
      BY <1>1, <2>1, FS_Subset
  <2> HIDE DEF H
  <2>3. Supported(p, H)
    BY <1>1, <2>1, <2>2, SupportedThrough
  <2>4. H # {}
    <3>1. <<0, 0>> \in Plane
      BY DEF Plane
    <3> QED
      BY <2>3, <3>1 DEF Supported
  <2>5. InHull(p, H)
    BY <2>2, <2>3, <2>4, Separation
  <2> QED
    BY <2>5 DEF H
<1>2. InHull(p, ConvexHull(U)) /\ InHull(p, ConvexHull(C))
  BY <1>1
<1> QED
  BY <1>2, Zenon

\* A member that stands at an anchor in use is within the envelope.
LEMMA EnvelopeHolds ==
  ASSUME NEW tracks, AllCharted(tracks), NEW families, NEW most, NEW e,
         e = BuildEnvelope(tracks, families, most), e # None,
         NEW i \in MembersOf(tracks, families), NEW h \in e.anchors, h \in DOMAIN tracks[i].fixes
  PROVE  InHull(tracks[i].fixes[h].pos, e.ring)
<1> DEFINE members == MembersOf(tracks, families)
           hulls == AnchorHulls(tracks, members)
           C == CorridorPoints(tracks, members)
           U == UNION {hulls[k] : k \in DOMAIN hulls}
           around == ConvexHull(IF U = {} THEN C ELSE U)
           ring == IF Cardinality(around) < 3 THEN ConvexHull(C) ELSE around
           at(k) == {tracks[j].fixes[k].pos : j \in Reporting(tracks, members, k)}
           p == tracks[i].fixes[h].pos
<1>1. BuildEnvelope(tracks, families, most) =
        IF Cardinality(members) < most \/ Cardinality(ring) < 3 THEN None
        ELSE [members |-> Cardinality(members), anchors |-> DOMAIN hulls, ring |-> ring]
  BY Zenon DEF BuildEnvelope, Given
<1>2. members \in SUBSET DOMAIN tracks
  BY DEF MembersOf
<1>3. hulls = [k \in DOMAIN hulls |-> ConvexHull(at(k))]
  BY Zenon DEF AnchorHulls
<1> HIDE DEF ring, hulls
<1>4. ~ (Cardinality(ring) < 3) /\ e.anchors = DOMAIN hulls /\ e.ring = ring
  BY <1>1
<1> HIDE DEF members
<1>5. h \in DOMAIN hulls /\ hulls[h] = ConvexHull(at(h))
  <2> HIDE DEF at
  <2> QED
    BY <1>3, <1>4, Zenon
<1>6. \A k : at(k) \in SUBSET Plane /\ IsFiniteSet(at(k))
  <2> SUFFICES ASSUME NEW k
               PROVE  at(k) \in SUBSET Plane /\ IsFiniteSet(at(k))
    OBVIOUS
  <2> HIDE DEF C, U, p, around
  <2> QED
    BY <1>2, FixesAreFinite
<1>7. p \in at(h) /\ at(h) \in SUBSET Plane /\ IsFiniteSet(at(h))
  <2>1. at(h) \in SUBSET Plane /\ IsFiniteSet(at(h))
    <3> HIDE DEF at
    <3> QED
      BY <1>6
  <2>2. i \in Reporting(tracks, members, h)
    BY DEF Reporting, members
  <2> QED
    BY <2>1, <2>2
<1>8. Supported(p, hulls[h]) /\ hulls[h] \subseteq U
  <2>1. hulls[h] \subseteq U
    BY <1>5
  <2>2. Supported(p, ConvexHull(at(h)))
    <3> HIDE DEF at, p
    <3> QED
      BY <1>7, HullSupports
  <2> HIDE DEF at, p, U
  <2> QED
    BY <1>5, <2>1, <2>2
<1>9. Supported(p, U) /\ U # {}
  <2>1. <<0, 0>> \in Plane
    BY DEF Plane
  <2> HIDE DEF p, U
  <2> QED
    BY <1>8, <2>1 DEF Supported
<1>10. U \in SUBSET Plane /\ IsFiniteSet(U)
  <2> DEFINE all(j) == {tracks[j].fixes[k].pos : k \in DOMAIN tracks[j].fixes}
             A == UNION {all(j) : j \in members}
  <2>1. IsFiniteSet(A)
    <3> HIDE DEF C, U, p, at, around
    <3> QED
      BY <1>2, AllFixesAreFinite
  <2>2. ASSUME NEW k \in DOMAIN hulls
        PROVE  hulls[k] \subseteq at(k) /\ at(k) \subseteq A /\ at(k) \in SUBSET Plane
    <3>1. at(k) \subseteq A
      BY DEF Reporting
    <3>2. at(k) \in SUBSET Plane
      <4> HIDE DEF at
      <4> QED
        BY <1>6
    <3> HIDE DEF at, A
    <3>3. hulls[k] = ConvexHull(at(k))
      BY <1>3, Zenon
    <3>4. ConvexHull(at(k)) \subseteq at(k)
      BY DEF ConvexHull
    <3> QED
      BY <3>1, <3>2, <3>3, <3>4
  <2> HIDE DEF at, A
  <2>3. U \subseteq A /\ U \in SUBSET Plane
    BY <2>2
  <2> HIDE DEF U
  <2> QED
    BY <2>1, <2>3, FS_Subset
<1>11. C \in SUBSET Plane /\ IsFiniteSet(C) /\ Supported(p, C)
  <2>1. i \in members /\ h \in DOMAIN tracks[i].fixes
    BY DEF members
  <2> QED
    BY <1>2, <2>1, CorridorIsFinite, CorridorSupports
<1>12. p \in Plane
  <2> HIDE DEF p, at
  <2> QED
    BY <1>7
<1> HIDE DEF C, U, p, at
<1>13. around = ConvexHull(U)
  BY <1>9
<1> HIDE DEF around
<1>14. Cardinality(ring) >= 3 => InHull(p, ring)
  <2> DEFINE other == IF Cardinality(ConvexHull(U)) < 3 THEN ConvexHull(C) ELSE ConvexHull(U)
  <2>1. Cardinality(other) >= 3 => InHull(p, other)
    BY <1>9, <1>10, <1>11, <1>12, RingHolds
  <2>2. ring = other
    BY <1>13, Zenon DEF ring
  <2> HIDE DEF other
  <2> QED
    BY <2>1, <2>2
<1>15. Cardinality(ring) >= 3
  <2>1. Cardinality(ring) \in Int
    <3>1. IsFiniteSet(ring)
      <4>1. \A S \in SUBSET Plane : IsFiniteSet(S) => IsFiniteSet(ConvexHull(S))
        BY FS_Subset DEF ConvexHull
      <4>2. IsFiniteSet(ConvexHull(C)) /\ IsFiniteSet(ConvexHull(U))
        BY <1>10, <1>11, <4>1
      <4> QED
        BY <1>13, <4>2 DEF ring
    <3> QED
      BY <3>1, FS_CardinalityType
  <2> DEFINE n == Cardinality(ring)
  <2>2. n \in Int /\ ~ (n < 3)
    BY <1>4, <2>1
  <2> HIDE DEF n
  <2>3. n >= 3
    BY <2>2
  <2> QED
    BY <2>3 DEF n
<1> QED
  BY <1>4, <1>14, <1>15 DEF p

\* No other endpoint shows model tracks.
LEMMA OtherThanModelTracks ==
  ASSUME Next, ~ ModelTracksCall
  PROVE  ~ Of("model_tracks")'
<1>1. CASE StormNext
  <2>1. CASE EnsembleRiskCall
    BY <2>1 DEF EnsembleRiskCall, Of
  <2>2. CASE ForecastsCall
    BY <2>2 DEF ForecastsCall, Of
  <2>3. CASE ImpactCall
    <3>1. PICK e, fixes, official : call' = [op |-> "impact", entry |-> e, fixes |-> fixes, official |-> official]
      BY <2>3, Zenon DEF ImpactCall
    <3>2. call'.op = "impact"
      BY <3>1
    <3> QED
      BY <3>2 DEF Of
  <2>4. CASE ShapesCall
    BY <2>4 DEF ShapesCall, Of
  <2>5. CASE ReplayCall
    BY <2>5 DEF ReplayCall, Of
  <2>6. CASE OutlookCall
    BY <2>6 DEF OutlookCall, Of
  <2> QED
    BY <1>1, <2>1, <2>2, <2>3, <2>4, <2>5, <2>6 DEF StormNext
<1>2. CASE LossNext \/ FundNext \/ ViewNext \/ HazardNext
  BY <1>2, OwnQuestions DEF LossOps, FundOps, ViewOps, HazardOps, Of
<1>3. CASE Answered
  BY <1>3 DEF Answered, Of
<1> QED
  BY <1>1, <1>2, <1>3 DEF Next

\* What is shown of an a-deck: its tracks, and their envelope if there is one.
LEMMA TracksShown ==
  ASSUME NEW file \in AdeckFiles, NEW cycle, NEW baselines
  PROVE  LET shown == ModelTracksReply(file, cycle, baselines)
         IN /\ AllCharted(shown.tracks)
            /\ shown.envelope # None =>
                 shown.envelope = BuildEnvelope(shown.tracks, EnsembleFamilies, MinMembers)
<1> DEFINE tracks == FetchModelTracks(file, cycle, baselines)
           shown == ModelTracksReply(file, cycle, baselines)
<1>1. AllCharted(tracks)
  BY TracksAreCharted
<1>2. shown.tracks = tracks
  BY DEF ModelTracksReply, Given
<1>3. shown.envelope = IF tracks = <<>> THEN None ELSE BuildEnvelope(tracks, EnsembleFamilies, MinMembers)
  BY DEF ModelTracksReply, Given
<1> HIDE DEF tracks, shown
<1>4. /\ AllCharted(shown.tracks)
      /\ shown.envelope # None => shown.envelope = BuildEnvelope(shown.tracks, EnsembleFamilies, MinMembers)
  BY <1>1, <1>2, <1>3
<1> QED
  BY <1>4 DEF shown

(* No member shown at an anchor in use stands outside the envelope drawn    *)
(* over it, for any a-deck of rows in the plane: tracks of any number,      *)
(* length and shape, the straight ones in their corridor included.         *)
THEOREM EnvelopeAlwaysHolds == Spec => []EnvelopeHoldsTheMembers
<1>1. Init => EnvelopeHoldsTheMembers
  BY DEF Init, EnvelopeHoldsTheMembers, Of
<1>2. EnvelopeHoldsTheMembers /\ [Next]_vars => EnvelopeHoldsTheMembers'
  <2> SUFFICES ASSUME EnvelopeHoldsTheMembers, [Next]_vars PROVE EnvelopeHoldsTheMembers'
    OBVIOUS
  <2>1. CASE ModelTracksCall
    <3>1. PICK file \in AdeckFiles, baselines \in BOOLEAN : \E cycle \in AvailableCycles(file) \cup {None} :
            reply' = ModelTracksReply(file, cycle, baselines)
      BY <2>1, Zenon DEF ModelTracksCall
    <3>2. PICK cycle : reply' = ModelTracksReply(file, cycle, baselines)
      BY <3>1, Zenon
    <3>3. /\ AllCharted(reply'.tracks)
          /\ reply'.envelope # None =>
               reply'.envelope = BuildEnvelope(reply'.tracks, EnsembleFamilies, MinMembers)
      BY <3>2, TracksShown, Zenon
    <3>4. ASSUME reply'.envelope # None,
                 NEW i \in MembersOf(reply'.tracks, EnsembleFamilies), NEW h \in reply'.envelope.anchors,
                 h \in DOMAIN reply'.tracks[i].fixes
          PROVE  InHull(reply'.tracks[i].fixes[h].pos, reply'.envelope.ring)
      <4> DEFINE tracks == reply'.tracks
                 e == reply'.envelope
      <4>1. AllCharted(tracks) /\ e = BuildEnvelope(tracks, EnsembleFamilies, MinMembers) /\ e # None
        BY <3>3, <3>4
      <4>2. i \in MembersOf(tracks, EnsembleFamilies) /\ h \in e.anchors /\ h \in DOMAIN tracks[i].fixes
        BY <3>4
      <4> HIDE DEF tracks, e
      <4>3. InHull(tracks[i].fixes[h].pos, e.ring)
        BY <4>1, <4>2, EnvelopeHolds
      <4> QED
        BY <4>3 DEF tracks, e
    <3> QED
      BY <3>4, Zenon DEF EnvelopeHoldsTheMembers
  <2>2. CASE Next /\ ~ ModelTracksCall
    BY <2>2, OtherThanModelTracks, Zenon DEF EnvelopeHoldsTheMembers
  <2>3. CASE UNCHANGED vars
    <3>1. call' = call /\ reply' = reply
      BY <2>3 DEF vars
    <3> QED
      BY <3>1, Zenon DEF EnvelopeHoldsTheMembers, Of
  <2> QED
    BY <2>1, <2>2, <2>3
<1> QED
  BY <1>1, <1>2, PTL DEF Spec
=============================================================================
