------------------------------ MODULE LossApi ------------------------------
(***************************************************************************)
(* The endpoints of past and live storms' county impacts and industry      *)
(* losses (api/hurricanes.py, api/industry_loss.py), and the curve fit     *)
(* that calibrates them. A client makes one call at a time; what the       *)
(* archive and the supplied files hold when it is made is arbitrary.       *)
(***************************************************************************)
EXTENDS IndustryLoss, Endpoint, FiniteSetsExt, Functions

CONSTANTS Archives,    \* contents of the IBTrACS file
          LiveTracks,  \* tracks of the live storm
          Caps,        \* the model's wind by place
          Shapes,      \* geoid -> county
          GeoOf,       \* geoid -> geography
          FactSets,    \* the rows of the selection
          LossFiles, TivFiles, Book, CurveFiles, Prior, Indices, AdjustmentLists,
          CurveIds,    \* curve sets asked for
          Evidence,    \* what stations say of a past storm: None or geography -> hundredths
          Curves,      \* inputs of the projection
          Pins         \* pinned bands

\* What the files can hold: _money refuses a negative loss, a date and the year
\* of a storm are numbers; an index (people, homes, wages, prices) and the
\* multiplier of an analyst are read as they are, and not negative. A curve to
\* project is a sequence of numbers.
ASSUME LossAssumption ==
  /\ None \notin Int
  /\ \A rows \in LossFiles :
       /\ rows \in Seq(Range(rows))
       /\ \A i \in DOMAIN rows : /\ rows[i].loss \in Nat \cup {None} /\ rows[i].date \in Int \cup {None}
                                 /\ rows[i].storm = None \/ rows[i].storm.year \in Int
  /\ \A years \in TivFiles : IsFiniteSet(DOMAIN years) /\ DOMAIN years \subseteq Int
  /\ \A tiv \in {Book} \cup UNION {Range(years) : years \in TivFiles} :
       tiv.asOf \in Int /\ \A geo \in DOMAIN tiv.county : Range(tiv.county[geo]) \subseteq Int
  /\ \A ix \in Indices \ {None} : \A values \in Range(ix.series) \cup Range(ix.prices) :
       IsFiniteSet(DOMAIN values) /\ DOMAIN values \subseteq Int /\ Range(values) \subseteq Nat
  /\ \A adjustments \in AdjustmentLists :
       adjustments \in Seq(Range(adjustments)) /\ \A i \in DOMAIN adjustments : adjustments[i].factor \in Nat
  /\ Curves \subseteq Seq(Int)

HurricanesCall ==
  /\ call = None
  /\ \E file \in Archives, landfallOnly \in BOOLEAN, states \in {None, {"FL"}}, least \in {-2, 1} :
       /\ call' = [op |-> "hurricanes"]
       /\ reply' = ListHurricanes(ParseCsv(file), 1950..2100, least, landfallOnly, states)

\* The archive is asked only when the storm is not live.
Sources == (Archives \X {None}) \cup ({None} \X LiveTracks)

CountyImpactCall ==
  /\ call = None
  /\ \E of \in Sources, cap \in Caps, facts \in FactSets :
       LET file == of[1]
           live == of[2]
           index == ParseCsv(file)
       IN /\ call' = [op |-> "county_impact", index |-> index, live |-> live]
          /\ reply' = ImpactPayload(index, file, live, "AL01", facts, Shapes, 25, cap)

\* A live storm's impacts are computed anew with the model's cap, a past one's
\* with its tropical-storm field.
StormImpacts(index, live) ==
  LET mph(b) == IF b[1] = 0 THEN 0 ELSE b[1] + 4
      bins(i) == [m \in {mph(b) : b \in DOMAIN i.bins} |->
                    (100 * MapThenSumSet(LAMBDA b : i.bins[b], {b \in DOMAIN i.bins : mph(b) = m}))
                       \div Cardinality(DOMAIN i.winds)]
      found == ComputeImpact(index, IF live # None THEN live ELSE index.storms["AL01"], Shapes, 25, None, live = None)
  IN Given(found.impacts, LAMBDA impacts :
       [g \in {GeoOf[impacts[k].geoid] : k \in DOMAIN impacts} |->
          Given(CHOOSE i \in Range(impacts) : GeoOf[i.geoid] = g, LAMBDA i : [bins |-> bins(i), peak |-> i.peak])])

LossInput(file, live) ==
  LET index == ParseCsv(file)
  IN IF live = None /\ "AL01" \notin DOMAIN index.storms THEN None
     ELSE [storm |-> [id |-> "AL01", year |-> IF live # None THEN live.year ELSE index.storms["AL01"].year],
           impacts |-> StormImpacts(index, live)]

IndustryLossCall ==
  /\ call = None
  /\ \E of \in Sources : \E given \in {LossInput(of[1], of[2])} :
          \E rows \in LossFiles, supplied \in TivFiles, files \in CurveFiles, id \in CurveIds, ix \in Indices,
             evidence \in Evidence, wanted \in BOOLEAN :
            /\ call' = [op |-> "industry_loss"]
            /\ reply' = CASE of = <<None, None>> -> BadGateway
                          [] of # <<None, None>> /\ given = None -> NotFound
                          [] OTHER -> IndustryLossReply(rows, given.storm, supplied, Book, LoadCurveSets(files, Prior),
                                                        Prior, id, given.impacts,
                                                        [past |-> of[2] = None, wanted |-> wanted, evidence |-> evidence],
                                                        <<>>, ix, <<>>)

BacktestCall ==
  /\ call = None
  /\ \E file \in Archives \ {None} : \E given \in {LossInput(file, None)} :
          /\ given # None
          /\ \E rows \in LossFiles, supplied \in TivFiles, files \in CurveFiles, ix \in Indices,
                adjustments \in AdjustmentLists, evidence \in Evidence, wanted \in BOOLEAN :
               /\ call' = [op |-> "backtest", supplied |-> supplied, files |-> files, impacts |-> given.impacts]
               /\ reply' = BacktestReply(rows, given.storm, supplied, Book, LoadCurveSets(files, Prior), Prior, None, given.impacts,
                                         [past |-> TRUE, wanted |-> wanted, evidence |-> evidence], ix, adjustments, TRUE)

FitCall ==
  /\ call = None
  /\ \E theta \in Curves, fixed \in Pins, supported \in {{}, {1, 2}} :
       /\ call' = [op |-> "fit", theta |-> theta, fixed |-> fixed, supported |-> supported]
       /\ reply' = PriorTail(Project(theta, fixed, -1000, 1000), [b \in DOMAIN theta |-> Scale * b],
                             supported, fixed, -1000, 1000)

LossNext == \/ HurricanesCall \/ CountyImpactCall \/ IndustryLossCall \/ BacktestCall \/ FitCall

(***************************************************************************)
(* Properties.                                                             *)
(***************************************************************************)
Answers(op) == Of(op) /\ reply \notin {NotFound, Invalid, BadGateway}

Stamps ==
  LET storm == IF call.live # None THEN call.live ELSE call.index.storms["AL01"]
      counted == SelectSeq(storm.track, LAMBDA pt : Counts(pt, FALSE))
  IN [i \in DOMAIN counted |-> StampOf(call.index, "AL01", counted[i], 25, FALSE)]
WindAt(c, x) ==
  LET rows == {i \in DOMAIN reply.counties : reply.counties[i].impact.geoid = c}
  IN IF rows = {} THEN 0 ELSE reply.counties[Max(rows)].impact.winds[x]
Narrowest(s) == Min({IF b[1] = None THEN b[2] ELSE Min({b[1][1], b[1][2]}) :
                       b \in {<<s.q64, s.r64>>} \cup (IF HasBand(s.q34, s.r34) THEN {<<s.q34, s.r34>>} ELSE {})})

\* "A point the eye crosses between two fixes would otherwise be scored at
\* whichever vertex is closer": no place the core passes over between two fixes
\* at most 300 nm apart is left with less than the weaker of their winds, at
\* the resolution of a step.
CoreIsSweptBetweenFixes ==
  Answers("county_impact") =>
    \A i \in 1..(Len(Stamps) - 1) : \A c \in DOMAIN Shapes : \A x \in Shapes[c].samples :
      LET a == Stamps[i]
          b == Stamps[i + 1]
          wide(s) == s.rmax >= 20 /\ Narrowest(s) >= 40 /\ Dist(x, Shapes[c].at) <= 30
      IN (/\ Dist(a.at, b.at) \in 24..MaxGap
          /\ x \in a.at..b.at \/ x \in b.at..a.at
          /\ wide(a) /\ wide(b)) => WindAt(c, x) >= Min({a.vmax, b.vmax})

\* Every reported dollar is in one place of the back-test: scored against the
\* model, outside the wind field, without insured values, or in no county; and
\* what is scored has a wind that does damage and a value to be scored against.
EveryLossIsAccountedFor ==
  Answers("backtest") =>
    LET e == reply.event
        r == reply.result
        loose == Total(e.unallocated) + Total([k \in {j \in DOMAIN e.state : StateCounts(e, j)} |-> e.state[k]])
        tiv == IF reply.vintage = None THEN Book ELSE call.supplied[reply.vintage]
        inField(k) == InField(call.impacts, LoadCurveSets(call.files, Prior)[reply.curve], reply.observed, k[1])
    IN /\ Total(r.actual) = Total(r.observed) + Total(r.miss) + Total(r.gap) + loose
       /\ DOMAIN r.observed \cap DOMAIN r.miss = {} /\ DOMAIN r.observed \cap DOMAIN r.gap = {}
       /\ DOMAIN r.miss \cap DOMAIN r.gap = {}
       /\ \A k \in DOMAIN r.observed : inField(k) /\ ValueOf(tiv, k) > 0
       /\ \A k \in DOMAIN r.miss : ~inField(k)
       /\ \A k \in DOMAIN r.gap : inField(k) /\ ValueOf(tiv, k) <= 0

\* Without pinned bands the projection is the isotonic regression, within the
\* limits: the largest over starts of the smallest over ends of the mean between
\* them.
MeanOf(theta, a, b) == MapThenSumSet(LAMBDA i : theta[i], a..b) \div (b - a + 1)
Isotonic(theta) ==
  [i \in DOMAIN theta |-> Max({Min({MeanOf(theta, a, b) : b \in i..Len(theta)}) : a \in 1..i})]
FitIsTheIsotonicOne ==
  Of("fit") /\ call.fixed = <<>> /\ call.supported = {} => reply = Clamp(Isotonic(call.theta), -1000, 1000)
=============================================================================
