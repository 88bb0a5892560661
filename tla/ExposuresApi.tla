----------------------------- MODULE ExposuresApi ----------------------------
(***************************************************************************)
(* The endpoints of the exposures: groups of datasets, the map, the detail *)
(* of a geography, the pivot, the export, the catalogue, and what a tower  *)
(* of layers pays. What each load of a call finds is chosen with the call.  *)
(***************************************************************************)
EXTENDS Exposures, Endpoint, SequencesExt

CONSTANTS GroupPayloads, \* groups asked for: [members, method, currency, confirmed]
          Targets,       \* sets of targets; that of a group has its payload
          ViewRequests,  \* what is asked of a view, but for its targets
          Pivots,        \* [dims, asked]
          Loads,         \* what the loads of a request find: [view, portfolio, prior]
          ExportLoads,   \* the same for the four of an export: [map, detail, pivot, raw]
          Towers,        \* sequences of layers [deductible, limit, share]
          Scenarios      \* sequences of [gross, tiv, ratio]

\* Rows are finitely many, and a row has an insured value.
RowsOf(found) == UNION (Range(found) \ {None})
ASSUME LoadAssumption ==
  /\ ExportLoads \subseteq [{"map", "detail", "pivot", "raw"} -> Loads]
  /\ \A l \in Loads : \A found \in {l.view, l.portfolio} :
       IsFiniteSet(RowsOf(found)) /\ \A f \in RowsOf(found) : f.tiv \in Nat

(***************************************************************************)
(* Layers (services/layer_calc.py). Shares are in percent and damage       *)
(* ratios per mille; amounts are multiples of what makes them exact.       *)
(***************************************************************************)
ApplyLayer(loss, terms) ==
  LET inLayer == Max({0, Min({loss - terms.deductible, terms.limit})})
  IN [loss |-> inLayer, ceded |-> (inLayer * terms.share) \div 100, exhausted |-> inLayer >= terms.limit]
RunScenario(layers, s) ==
  LET loss == IF s.gross # None THEN s.gross ELSE (s.tiv * s.ratio) \div 1000
      outcomes == [i \in DOMAIN layers |-> ApplyLayer(loss, layers[i])]
      ceded == MapThenSumSet(LAMBDA i : outcomes[i].ceded, DOMAIN layers)
  IN [loss |-> loss, layers |-> outcomes, ceded |-> ceded, net |-> loss - ceded,
      ratio |-> IF s.gross = None \/ s.tiv = None \/ s.ratio # None THEN SafeRatio(s.ratio, 1000)
                ELSE SafeRatio(s.gross, s.tiv)]
SweepRatios == <<5, 10, 20, 50, 100, 150, 200, 300, 500, 750, 1000>>
RunSweep(layers, tiv) ==
  [i \in DOMAIN SweepRatios |-> RunScenario(layers, [gross |-> None, tiv |-> tiv, ratio |-> SweepRatios[i]])]
LayersReply(layers, scenarios, sweepTiv) ==
  IF layers = <<>> \/ (scenarios = <<>> /\ sweepTiv = None) THEN Invalid
  ELSE IF \E i \in DOMAIN scenarios :
            scenarios[i].gross = None /\ (scenarios[i].tiv = None \/ scenarios[i].ratio = None) THEN Invalid
  ELSE [scenarios |-> [i \in DOMAIN scenarios |-> RunScenario(layers, scenarios[i])],
        sweep |-> IF sweepTiv = None THEN <<>> ELSE RunSweep(layers, sweepTiv)]

(***************************************************************************)
(* The catalogue (api/cedents.py).                                         *)
(***************************************************************************)
GetCedent(id) == IF id \in Range(Chains) THEN {c \in DOMAIN Chains : Chains[c] = id} ELSE NotFound
GetChain(id) == IF id \in DOMAIN Chains THEN {p \in Range(Programmes) : p.chain = id} ELSE NotFound
GetProgramme(id) == IF id \in Ids THEN Programme(id) ELSE NotFound
ProgrammeStatus(id) == IF id \in Ids THEN DatasetStatus(Programme(id).dataset) ELSE NotFound
ListCedents == [c \in Range(Chains) |-> GetCedent(c)]

(***************************************************************************)
(* The endpoints.                                                          *)
(***************************************************************************)
\* A group that was refused cannot be asked for.
Askable == {ts \in Targets : \A t \in ts : t.kind = "group" => ~Failed(CreateGroup(t.group))}
Asking == {[r \in DOMAIN req \cup {"targets"} |-> IF r = "targets" THEN ts ELSE req[r]] : ts \in Askable, req \in ViewRequests}

CreateGroupCall ==
  /\ call = None
  /\ \E payload \in GroupPayloads : /\ call' = [op |-> "group", payload |-> payload]
                                    /\ reply' = CreateGroup(payload)
MapCall ==
  /\ call = None
  /\ \E req \in Asking, loads \in Loads :
       /\ call' = [op |-> "map", req |-> req, loads |-> loads]
       /\ reply' = MapReply(req, loads)
DetailCall ==
  /\ call = None
  /\ \E req \in Asking, loads \in Loads, geo \in Geometry :
       /\ call' = [op |-> "detail", req |-> req, loads |-> loads]
       /\ reply' = DetailReply(req, geo, loads)
PivotCall ==
  /\ call = None
  /\ \E req \in Asking, loads \in Loads, p \in Pivots :
       /\ call' = [op |-> "pivot", req |-> req, loads |-> loads, pivot |-> p]
       /\ reply' = PivotReply(req, p.dims, {"tiv", "count"}, p.asked, loads)
ExportCall ==
  /\ call = None
  /\ \E req \in Asking, loads \in ExportLoads, geo \in Geometry \cup {None}, p \in Pivots \cup {None} :
       /\ call' = [op |-> "export", req |-> req, loads |-> loads, geo |-> geo, pivot |-> p]
       /\ reply' = ExportReply(req, geo, IF p = None THEN None ELSE p.dims, IF p = None THEN None ELSE p.asked, loads)
LayersCall ==
  /\ call = None
  /\ \E layers \in Towers, scenarios \in Scenarios, sweepTiv \in {None, 0, 200, 1000} :
       /\ call' = [op |-> "layers", layers |-> layers]
       /\ reply' = LayersReply(layers, scenarios, sweepTiv)
CatalogCall ==
  /\ call = None
  /\ \E id \in Ids \cup DOMAIN Chains \cup Range(Chains) \cup {None} :
       /\ call' = [op |-> "catalog"]
       /\ \/ reply' = ListCedents
          \/ reply' = GetCedent(id)
          \/ reply' = GetChain(id)
          \/ reply' = GetProgramme(id)
          \/ reply' = ProgrammeStatus(id)

ViewNext == CreateGroupCall \/ MapCall \/ DetailCall \/ PivotCall \/ ExportCall \/ LayersCall \/ CatalogCall

(***************************************************************************)
(* Properties.                                                             *)
(***************************************************************************)
Shown(op) == Of(op) /\ ~Failed(reply)
AtMostOne(ratio) == ratio = None \/ ratio[1] <= ratio[2]

\* "What % of the Fidelis portfolio in this geography is in the selected
\* deal?": the deal and the portfolio are loaded, filtered and combined by
\* separate code, and yet the portfolio in a geography is never more than all of
\* it, nor the deal there more than all of the deal; and a programme that is part
\* of the portfolio is never more than the whole of it, in any geography, at any
\* level, for any filters, whatever else failed to load, provided that the two
\* loads found the same rows of the programme, that all of them are in its
\* currency (the portfolio drops the others, the deal does not), and that in a
\* county view the geography does not name a state to one row and a county, or
\* another state, to another (a state that the deal shows for want of counties
\* is then measured against those).
InPortfolio(req) ==
  \A t \in req.targets : t.kind = "programme" /\ Programme(t.id).dataset \in PortfolioDatasets
FoundAlike(req, view, loads) ==
  req.targets # {} => \A d \in view.datasets : AtKey(loads.view, d, None) \in {None, AtKey(loads.portfolio, d, None)}
OneCurrency(view) == \A f \in view.facts : f.currency = view.currency
NamesOneState(facts, g) ==
  \A f, h \in {r \in facts : r.geo = g} :
    f.level = "STATE" => h.level # "COUNTY" /\ (h.level = "STATE" => h.state = f.state)
Comparable(req, loads, g) ==
  LET view == ResolveView(req, loads.view)
  IN /\ FoundAlike(req, view, loads)
     /\ OneCurrency(view)
     /\ req.level = "COUNTY" => NamesOneState(WholeFacts(req, view, loads), g)
DealShareIsAShare ==
  Shown("map") /\ InPortfolio(call.req) =>
    \A f \in {g \in reply.features : g.tiv # None} :
      /\ AtMostOne(f.geoShare) /\ AtMostOne(f.concentration)
      /\ Comparable(call.req, call.loads, f.geo) => AtMostOne(f.dealShare)

\* The sheets of an export come from separate computations, each from loads of
\* its own, and yet the detail of a geography says what the map says of it, and
\* a pivot by the level of the map adds up to it, when no dataset was found with
\* other rows meanwhile, or the export warns of a load that failed; the shares
\* agree when the portfolios found are the same too, for which there is no
\* warning. (A pivot by county puts the states without counties in one row, of
\* which it shows the largest peril; and states, or countries, are told apart
\* by their names in a pivot and by their geographies on a map.)
FiguresAgree(map, detail) ==
  \A f \in {g \in map.features : g.geo = detail.geo} :
    IF f.tiv = None THEN detail.tiv = 0
    ELSE /\ <<f.tiv, f.count, f.concentration>> = <<detail.tiv, detail.count, detail.concentration>>
         /\ f.yoy # None => f.yoy = detail.yoy
SharesAgree(map, detail) ==
  \A f \in {g \in map.features : g.geo = detail.geo} :
    f.tiv # None => <<f.dealShare, f.geoShare>> = <<detail.dealShare, detail.geoShare>>
SameTotal(map, pivot) ==
  pivot.total["tiv"] = MapThenSumSet(LAMBDA f : f.tiv, {f \in map.features : f.tiv # None})
NamedByGeo(facts, level) ==
  \A f, h \in AtLevel(facts, level) : f.geo = h.geo <=> f[DimAttr[level]] = h[DimAttr[level]]
ByTheLevel(req, pivot) ==
  /\ req.level \in {"COUNTRY", "STATE"} /\ pivot.dims = <<req.level>> /\ pivot.asked = None
  /\ ScopeOf(req).method \in {Max_, Distinct}

NoOtherRows(a, b) ==
  \A d \in DOMAIN a \cup DOMAIN b :
    None \in {AtKey(a, d, {}), AtKey(b, d, {})} \/ AtKey(a, d, {}) = AtKey(b, d, {})
SamePortfolio(req, a, b) == req.targets = {} \/ PortfolioFacts(a.portfolio) = PortfolioFacts(b.portfolio)
ExportTabsAgree ==
  Shown("export") /\ "WARN_EDM_LOAD_FAILED" \notin reply.warnings =>
    LET map == call.loads.map
        detail == call.loads.detail
        pivot == call.loads.pivot
    IN /\ reply.detail # None /\ NoOtherRows(map.view, detail.view) /\ NoOtherRows(map.prior, detail.prior) =>
            /\ FiguresAgree(reply.map, reply.detail)
            /\ SamePortfolio(call.req, map, detail) => SharesAgree(reply.map, reply.detail)
       /\ reply.pivot # None /\ ByTheLevel(call.req, call.pivot) /\ NoOtherRows(map.view, pivot.view)
            /\ NamedByGeo(ResolveView(call.req, map.view).facts, call.req.level) => SameTotal(reply.map, reply.pivot)

\* "Selecting a view at one level should drop the others rather than
\* double-counting." A pivot by peril alone shows, of each peril, the value of
\* its rows at one of the levels.
LevelsAreNeverAdded ==
  Shown("pivot") /\ call.pivot.dims = <<"PERIL">> /\ call.req.filters.segments = {} /\ call.pivot.asked = None =>
    LET facts == PerilFilter(ResolveView(call.req, call.loads.view).facts, call.req.perils)
        valueAt(level, k) ==
          MapThenSumSet(LAMBDA f : f.tiv, {f \in AtLevel(facts, level) : f.peril = k[1] /\ f.tiv # None})
    IN \A k \in DOMAIN reply.cells["tiv"] :
         \E level \in {"COUNTRY", "STATE", "CRESTA", "COUNTY"} : reply.cells["tiv"][k] = valueAt(level, k)
=============================================================================
