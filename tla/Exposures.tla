----------------------------- MODULE Exposures -----------------------------
(***************************************************************************)
(* What is seen of a set of programmes: which facts a request selects      *)
(* (services/view_resolve.py), how the insured values of several perils    *)
(* and EDMs are put together (services/grouping.py), and the figures the   *)
(* map, the detail panel, the pivot and the export show of them            *)
(* (api/exposures.py). A fact is a row [dataset, level, geo, state,        *)
(* county, peril, segment, tiv, count, invalid, currency]; the other       *)
(* dimensions behave as the segment does. Names and messages are left out. *)
(*                                                                         *)
(* A request loads facts up to three times: those of its view, those of    *)
(* the portfolio and those it is compared with. Nothing keeps the facts    *)
(* as they are in between, and a load that failed is tried again by the    *)
(* next: "loads" says what each of the three finds, from a dataset to its  *)
(* rows, or to None when the load fails.                                   *)
(***************************************************************************)
EXTENDS HttpErrors, Integers, SequencesExt

CONSTANTS Programmes, \* sequence of [id, chain, cedent, year, dataset, currency, inForce, include, ert]
          Chains,     \* chain -> cedent
          Industry,   \* rows [geo, segment, tiv]
          Geometry,   \* geographies with a shape
          MaxRows     \* EXPORT_MAX_ROWS

\* What is absent is not a number, a level or a set of rows.
ASSUME ExposureAssumption ==
  None \notin Int /\ None \notin {"COUNTRY", "STATE"} /\ None # {} /\ Programmes \in Seq(Range(Programmes))

Max_ == "MAX_ACROSS_PERILS"
Distinct == "SUM_DISTINCT_SEGMENTS"
Base == "SELECTED_EDM_AS_BASE"
Separate == "KEEP_PERILS_SEPARATE"
Failed(answer) == answer \in {Invalid, NotFound, Conflict, TooLarge, Raises}

(***************************************************************************)
(* The catalogue.                                                          *)
(***************************************************************************)
Ids == {Programmes[i].id : i \in DOMAIN Programmes}
Programme(id) == Programmes[CHOOSE i \in DOMAIN Programmes : Programmes[i].id = id]
WithDataset(ds) == {i \in DOMAIN Programmes : Programmes[i].dataset = ds}
ByDataset(ds) == IF WithDataset(ds) = {} THEN None ELSE Programmes[Max(WithDataset(ds))]
InChain(c) == {i \in DOMAIN Programmes : Programmes[i].chain = c}
\* The newest of these programmes, the first of them when years are equal.
Newest_(S) == CHOOSE i \in S : \A j \in S \ {i} : \/ Programmes[i].year > Programmes[j].year
                                                  \/ Programmes[i].year = Programmes[j].year /\ i < j
Current(c) == Newest_(InChain(c))
PortfolioDatasets ==
  {p.dataset : p \in {q \in Range(Programmes) : q.include /\ q.inForce /\ q.ert # "ERT_NOT_FOUND"}}

TableTypes == {"EVOLUTION", "LOCATION", "PERIL_DETAILS"}
DatasetStatus(ds) ==
  LET p == ByDataset(ds)
      status == IF p = None THEN "ERT_NOT_FOUND" ELSE p.ert
      present == IF status = "ERT_NOT_FOUND" THEN {}
                 ELSE IF status = "ERT_PARTIAL" THEN TableTypes \ {"PERIL_DETAILS"} ELSE TableTypes
  IN [status |-> status, present |-> present, missing |-> IF status = "ERT_PARTIAL" THEN TableTypes \ present ELSE {}]

\* A failed load counts as no rows and is reported, except for the portfolio
\* that shares are taken of.
Load(ids, found) ==
  LET failed == {d \in ids \cap DOMAIN found : found[d] = None}
  IN [rows |-> UNION {found[d] : d \in (ids \cap DOMAIN found) \ failed},
      warnings |-> IF failed = {} THEN {} ELSE {"WARN_EDM_LOAD_FAILED"}]
\* A variant without the programmes whose results are partial.
ReadyFacts(found) == Load({p.dataset : p \in {q \in Range(Programmes) : q.inForce /\ q.ert = "READY"}}, found).rows
PortfolioFacts(found) == Load(PortfolioDatasets, found).rows

(***************************************************************************)
(* Groups of datasets. The currency of a group is the one asked for.       *)
(***************************************************************************)
CreateGroup(payload) ==
  LET members == {payload.members[i][1] : i \in DOMAIN payload.members}
      perils == {payload.members[i][2] : i \in DOMAIN payload.members}
  IN IF \E d \in members : ByDataset(d) = None THEN NotFound
     ELSE IF Cardinality({ByDataset(d).currency : d \in members}) > 1 THEN Conflict
     ELSE IF payload.method = Distinct /\ ~payload.confirmed THEN Invalid
     ELSE [group |-> payload,
           warnings |-> IF payload.method = Max_ /\ Cardinality(perils) > 1 THEN {"WARN_MAX_ACROSS_PERILS"}
                        ELSE IF payload.method = Distinct THEN {"WARN_SUMMED"} ELSE {}]

(***************************************************************************)
(* The facts a request selects: at most one target, by default the         *)
(* programmes in force.                                                    *)
(***************************************************************************)
CurrencyForScope(currencies) ==
  IF Cardinality(currencies) > 1 THEN Conflict ELSE IF currencies = {} THEN "USD" ELSE CHOOSE c \in currencies : TRUE
ComparisonOf(req) ==
  IF req.cmpProgramme = None THEN req.cmpDataset
  ELSE IF req.cmpProgramme \in Ids THEN Programme(req.cmpProgramme).dataset ELSE NotFound

\* What is to be loaded, and how it is put together: several datasets at once,
\* without a comparison, one of them, or a group.
Scope(datasets, currency, method, base, comparison, confirmed, warnings) ==
  [datasets |-> datasets, currency |-> currency, method |-> method, base |-> base, comparison |-> comparison,
   confirmed |-> confirmed, warnings |-> warnings]
Joint(datasets, currencies) ==
  LET currency == CurrencyForScope(currencies)
  IN IF currency = Conflict THEN Conflict
     ELSE Scope(datasets, currency, Max_, None, None, FALSE,
                IF Cardinality(datasets) > 1 THEN {"WARN_MAX_ACROSS_PERILS"} ELSE {})
JointCurrent(chains) ==
  LET now == {Programmes[Current(c)] : c \in {d \in chains : InChain(d) # {}}}
  IN Joint({p.dataset : p \in now}, {p.currency : p \in now})
Single(p, comparison) ==
  IF comparison = NotFound THEN NotFound ELSE Scope({p.dataset}, p.currency, Max_, p.dataset, comparison, FALSE, {})
OfChain(c, comparison) ==
  LET older == InChain(c) \ {Current(c)}
  IN Single(Programmes[Current(c)],
            IF comparison = None /\ older # {} THEN Programmes[Newest_(older)].dataset ELSE comparison)
OfGroup(group, comparison) ==
  IF comparison = NotFound THEN NotFound
  ELSE Scope({group.members[i][1] : i \in DOMAIN group.members}, group.currency, group.method,
             IF group.members = <<>> THEN None ELSE group.members[1][1], comparison, group.confirmed, {})

ScopeOf(req) ==
  LET comparison == ComparisonOf(req)
      t == CHOOSE x \in req.targets : TRUE
  IN IF Cardinality(req.targets) > 1 THEN Invalid
     ELSE IF req.targets = {}
       THEN Joint(PortfolioDatasets, {p.currency : p \in {q \in Range(Programmes) : q.dataset \in PortfolioDatasets}})
     ELSE IF t.kind = "programme"
       THEN IF t.id \in Ids THEN Single(Programme(t.id), comparison) ELSE NotFound
     ELSE IF t.kind = "chain"
       THEN IF t.id \in DOMAIN Chains /\ InChain(t.id) # {} THEN OfChain(t.id, comparison) ELSE NotFound
     ELSE IF t.kind = "chains"
       THEN IF t.ids \subseteq DOMAIN Chains THEN JointCurrent(t.ids) ELSE NotFound
     ELSE IF t.kind = "cedent"
       THEN IF t.id \in Range(Chains) THEN JointCurrent({c \in DOMAIN Chains : Chains[c] = t.id}) ELSE NotFound
     ELSE IF t.kind = "dataset"
       THEN IF ByDataset(t.id) = None THEN NotFound ELSE Single(ByDataset(t.id), comparison)
     ELSE IF Failed(CreateGroup(t.group)) THEN NotFound ELSE OfGroup(t.group, comparison)

ViewOf_(scope, load) ==
  [facts |-> load.rows, currency |-> scope.currency, method |-> scope.method, base |-> scope.base,
   comparison |-> scope.comparison, datasets |-> scope.datasets, confirmed |-> scope.confirmed,
   warnings |-> load.warnings \cup scope.warnings]
ResolveView(req, found) ==
  Given(ScopeOf(req), LAMBDA scope : IF Failed(scope) THEN scope ELSE ViewOf_(scope, Load(scope.datasets, found)))

(***************************************************************************)
(* Filters, levels and grains.                                             *)
(***************************************************************************)
PerilFilter(facts, perils) == IF perils = {} \/ "ALL" \in perils THEN facts ELSE {f \in facts : f.peril \in perils}
ApplyFilters(facts, filters) ==
  {f \in facts : /\ filters.peril \in {"ALL", f.peril}
                 /\ filters.segments = {} \/ f.segment \in filters.segments}
AtLevel(facts, level) == {f \in facts : f.level = level}

\* A state without counties of its own is shown as a state in a county view.
StatesWithCounties(facts) == {f.state : f \in AtLevel(facts, "COUNTY")} \ {None}
FallbackRows(facts) == {f \in AtLevel(facts, "STATE") : f.state # None /\ f.state \notin StatesWithCounties(facts)}
CountyFallback(facts, level) ==
  IF level = "COUNTY" THEN AtLevel(facts, level) \cup FallbackRows(facts) ELSE AtLevel(facts, level)
FellBack(facts, level) == level = "COUNTY" /\ FallbackRows(facts) # {}

GrainKey(f, by) == [i \in DOMAIN by |-> IF by[i] = "county" /\ f.county # None /\ f.state # None
                                        THEN <<f.county, f.state>> ELSE f[by[i]]]
AggregateMeasure(facts, attr, by) ==
  LET given == {f \in facts : f[attr] # None}
  IN [k \in {GrainKey(f, by) : f \in given} |-> MapThenSumSet(LAMBDA f : f[attr], {f \in given : GrainKey(f, by) = k})]
OfPeril(facts, k, by, p) == {f \in facts : GrainKey(f, by) = k /\ f.peril = p}
PerPeril(facts, k, by) ==
  [p \in {f.peril : f \in {g \in facts : GrainKey(g, by) = k}} |-> MapThenSumSet(LAMBDA f : f.tiv, OfPeril(facts, k, by, p))]
CombineAtGrain(facts, by, method, base) ==
  CASE method = Max_     -> [k \in {GrainKey(f, by) : f \in facts} |-> Max(Range(PerPeril(facts, k, by)))]
    [] method = Distinct -> AggregateMeasure(facts, "tiv", by)
    [] method = Base     -> IF base = None THEN Invalid ELSE AggregateMeasure({f \in facts : f.dataset = base}, "tiv", by)
    [] OTHER             -> Raises
\* Locations of the peril whose value is shown, of any of them when they tie.
WinningPeril(per) == CHOOSE p \in DOMAIN per : per[p] = Max(Range(per))
LocationCountAtMaxPeril(facts, by) ==
  [k \in {GrainKey(f, by) : f \in facts} |->
     MapThenSumSet(LAMBDA f : f.count, OfPeril(facts, k, by, WinningPeril(PerPeril(facts, k, by))))]
ScopeTiv(facts, by, method, base) ==
  IF method = Separate THEN AggregateMeasure(facts, "tiv", by) ELSE CombineAtGrain(facts, by, method, base)
ScopeCount(facts, by, method) ==
  IF method = Max_ THEN LocationCountAtMaxPeril(facts, by) ELSE AggregateMeasure(facts, "count", by)

(***************************************************************************)
(* Figures. A ratio is a pair, None when it cannot be computed.            *)
(***************************************************************************)
AtKey(f, k, default) == IF k \in DOMAIN f THEN f[k] ELSE default
SumOf(f) == MapThenSumSet(LAMBDA k : f[k], DOMAIN f)
SafeRatio(n, d) == IF n = None \/ d = None THEN None ELSE IF d = 0 THEN None ELSE <<n, d>>
YoyChange(current, prior) ==
  IF current = None THEN [value |-> None, status |-> IF prior = None THEN "NA" ELSE "REMOVED"]
  ELSE IF prior = None THEN [value |-> None, status |-> "NEW"]
  ELSE IF prior = 0 THEN [value |-> None, status |-> "NA"]
  ELSE [value |-> <<current - prior, prior>>, status |-> "OK"]
LookupIndustry(geo, segments) ==
  LET rows == {r \in Industry : r.geo = geo /\ (segments = None \/ r.segment \in segments)}
  IN IF rows = {} THEN None ELSE MapThenSumSet(LAMBDA r : r.tiv, rows)
SegmentForShare(facts, requested) ==
  LET found == {f.segment : f \in facts}
  IN IF requested # {} THEN requested
     ELSE IF Cardinality(found) = 1 /\ found # {"UNKNOWN"} THEN found ELSE None

\* The portfolio in the currency of the view, as the request filters it.
WholeFacts(req, view, loads) == IF req.targets = {} THEN view.facts ELSE PortfolioFacts(loads.portfolio)
PortfolioTiv(req, view, loads) ==
  LET all == PerilFilter(WholeFacts(req, view, loads), req.perils)
      same == {f \in all : f.currency = view.currency}
  IN [tiv |-> CombineAtGrain(ApplyFilters(CountyFallback(same, req.level), req.filters), <<"geo">>, Max_, None),
      warnings |-> IF same = all THEN {} ELSE {"WARN_CURRENCY_MISMATCH"}]
PriorFigures(req, view, loads) ==
  LET found == AtKey(loads.prior, view.comparison, {})
      rows == PerilFilter(found, req.perils)
      shown == ApplyFilters(CountyFallback(rows, req.level), req.filters)
  IN IF view.comparison = None THEN [tiv |-> <<>>, count |-> <<>>]
     ELSE IF ByDataset(view.comparison) = None THEN NotFound
     ELSE IF found = None THEN Raises
     ELSE [tiv |-> CombineAtGrain(shown, <<"geo">>, Max_, None), count |-> LocationCountAtMaxPeril(shown, <<"geo">>)]
Shares(geo, deal, dealTotal, portfolio) ==
  [dealShare |-> SafeRatio(deal, AtKey(portfolio, <<geo>>, 0)),
   geoShare |-> SafeRatio(AtKey(portfolio, <<geo>>, 0), SumOf(portfolio)),
   concentration |-> SafeRatio(deal, dealTotal)]

MetricValue(metric, tiv, count, shares, market, yoy) ==
  CASE metric = "TIV" -> SafeRatio(tiv, 1) [] metric = "LOCATION_COUNT" -> SafeRatio(count, 1)
    [] metric = "MARKET_SHARE" -> market [] metric = "YOY" -> yoy [] OTHER -> shares[metric]
YoyOfRatios(current, prior) ==
  IF current = None \/ prior = None THEN None
  ELSE IF prior[1] = 0 THEN None
  ELSE <<current[1] * prior[2] - current[2] * prior[1], current[2] * prior[1]>>

Headings(req, view, raw, deal) ==
  view.warnings \cup (IF FellBack(raw, req.level) THEN {"WARN_COUNTY_DATA_UNAVAILABLE"} ELSE {})
    \cup (IF deal = {} THEN {"WARN_FILTERS_RETURN_NO_ROWS"} ELSE {})
\* Those with a shape, and those of facts in the cache: of what was just loaded.
Geometries(req, view, loads) ==
  Geometry \cup {f.geo : f \in view.facts \cup WholeFacts(req, view, loads) \cup AtKey(loads.prior, view.comparison, {})}

(***************************************************************************)
(* The map.                                                                *)
(***************************************************************************)
Feature(req, view, g, tiv, count, portfolio, prior, industry, shaped) ==
  LET compared == view.comparison # None
      before == AtKey(prior.tiv, <<g>>, None)
      feature(shares, market, yoy, now, then) ==
        [geo |-> g, hasGeometry |-> shaped, tiv |-> tiv[<<g>>], count |-> AtKey(count, <<g>>, 0),
         dealShare |-> shares.dealShare, geoShare |-> shares.geoShare, concentration |-> shares.concentration,
         market |-> market, prior |-> then,
         value |-> IF compared /\ req.yoyMode THEN YoyOfRatios(now, then) ELSE now, yoy |-> yoy,
         warnings |-> IF industry = None THEN {"WARN_IED_DENOMINATOR_MISSING"} ELSE {}]
      valued(shares, market, yoy, sharesBefore) ==
        feature(shares, market, yoy,
                MetricValue(req.metric, tiv[<<g>>], AtKey(count, <<g>>, 0), shares, market, IF compared THEN yoy.value ELSE None),
                IF compared THEN MetricValue(req.metric, before, AtKey(prior.count, <<g>>, None),
                                             [sharesBefore EXCEPT !.geoShare = shares.geoShare], SafeRatio(before, industry), None)
                ELSE None)
  IN valued(Shares(g, tiv[<<g>>], SumOf(tiv), portfolio.tiv), SafeRatio(tiv[<<g>>], industry),
            IF compared THEN YoyChange(tiv[<<g>>], before) ELSE None,
            Shares(g, before, SumOf(prior.tiv), portfolio.tiv))
MapOf(req, view, raw, loads) ==
  LET deal == ApplyFilters(CountyFallback(raw, req.level), req.filters)
      shaped(g) == g \in Geometries(req, view, loads)
      removed(g, before) == [geo |-> g, hasGeometry |-> shaped(g), tiv |-> None, count |-> None, value |-> None,
                             yoy |-> YoyChange(None, before), warnings |-> {}]
      drawn(tiv, count, portfolio, prior, segments) ==
        IF Failed(tiv) THEN tiv
        ELSE IF Failed(prior) THEN prior
        ELSE [features |-> {Feature(req, view, k[1], tiv, count, portfolio, prior, LookupIndustry(k[1], segments), shaped(k[1])) :
                              k \in DOMAIN tiv}
                             \cup {removed(k[1], prior.tiv[k]) : k \in DOMAIN prior.tiv \ DOMAIN tiv},
              currency |-> view.currency,
              warnings |-> Headings(req, view, raw, deal) \cup portfolio.warnings
                             \cup (IF view.comparison = None THEN {"WARN_PRIOR_DATASET_NOT_SELECTED"} ELSE {})]
  IN IF deal = {} THEN [features |-> {}, currency |-> view.currency, warnings |-> Headings(req, view, raw, deal)]
     ELSE drawn(ScopeTiv(deal, <<"geo">>, view.method, view.base), ScopeCount(deal, <<"geo">>, view.method),
                PortfolioTiv(req, view, loads), PriorFigures(req, view, loads),
                SegmentForShare(deal, req.filters.segments))
MapReply(req, loads) ==
  Given(ResolveView(req, loads.view), LAMBDA view :
    IF Failed(view) THEN view ELSE MapOf(req, view, PerilFilter(view.facts, req.perils), loads))

(***************************************************************************)
(* The detail of one geography. Here a geography without facts has 0, and  *)
(* the segment is that of its own facts.                                   *)
(***************************************************************************)
Breakdown(facts, attr, view) ==
  LET usable == {f \in facts : f[attr] # None}
  IN [tiv |-> ScopeTiv(usable, <<attr>>, view.method, view.base), count |-> ScopeCount(usable, <<attr>>, view.method)]
DetailOf(req, geo, view, raw, deal, loads) ==
  LET here == {f \in deal : f.geo = geo}
      shown(tiv, value, portfolio, prior, industry) ==
        IF Failed(tiv) THEN Raises
        ELSE IF Failed(prior) THEN prior
        ELSE LET shares == Shares(geo, value, SumOf(tiv), portfolio.tiv) IN
             [geo |-> geo, dealShare |-> shares.dealShare, geoShare |-> shares.geoShare,
              concentration |-> shares.concentration, tiv |-> value, count |-> AtKey(ScopeCount(deal, <<"geo">>, view.method), <<geo>>, 0),
              portfolio |-> AtKey(portfolio.tiv, <<geo>>, 0), market |-> SafeRatio(value, industry),
              prior |-> AtKey(prior.tiv, <<geo>>, None),
              yoy |-> IF view.comparison = None THEN [value |-> None, status |-> "NA"]
                      ELSE YoyChange(value, AtKey(prior.tiv, <<geo>>, None)),
              breakdowns |-> [attr \in {"peril", "segment"} |-> Breakdown(here, attr, view)],
              warnings |-> Headings(req, view, raw, deal) \cup portfolio.warnings
                             \cup (IF industry = None THEN {"WARN_IED_DENOMINATOR_MISSING"} ELSE {})
                             \cup (IF view.comparison = None THEN {"WARN_PRIOR_DATASET_NOT_SELECTED"} ELSE {})]
  IN Given(ScopeTiv(deal, <<"geo">>, view.method, view.base), LAMBDA tiv :
       shown(tiv, IF Failed(tiv) THEN 0 ELSE AtKey(tiv, <<geo>>, 0), PortfolioTiv(req, view, loads),
             PriorFigures(req, view, loads), LookupIndustry(geo, SegmentForShare(here, req.filters.segments))))
DetailReply(req, geo, loads) ==
  LET detail(view, raw) == DetailOf(req, geo, view, raw, ApplyFilters(CountyFallback(raw, req.level), req.filters), loads)
  IN Given(ResolveView(req, loads.view), LAMBDA view :
       IF Failed(view) THEN view ELSE detail(view, PerilFilter(view.facts, req.perils)))

(***************************************************************************)
(* The pivot: the finest geography named picks the level, and without one  *)
(* the rows of every level are taken as they are.                          *)
(***************************************************************************)
Fineness == [d \in {"COUNTRY", "STATE", "CRESTA", "COUNTY"} |->
               CASE d = "COUNTRY" -> 0 [] d = "COUNTY" -> 2 [] OTHER -> 1]
DimAttr == [d \in {"COUNTRY", "STATE", "COUNTY", "PERIL", "OCCUPANCY_SEGMENT", "DATASET", "CURRENCY"} |->
              CASE d = "COUNTRY" -> "country" [] d = "STATE" -> "state" [] d = "COUNTY" -> "county"
                [] d = "PERIL" -> "peril" [] d = "OCCUPANCY_SEGMENT" -> "segment"
                [] d = "DATASET" -> "dataset" [] d = "CURRENCY" -> "currency"]
PivotLevel(dims) ==
  LET named == {i \in DOMAIN dims : dims[i] \in DOMAIN Fineness}
  IN IF named = {} THEN None
     ELSE dims[CHOOSE i \in named : \A j \in named : Fineness[dims[i]] > Fineness[dims[j]]
                                                     \/ (Fineness[dims[i]] = Fineness[dims[j]] /\ i <= j)]
PivotRows(facts, dims) == IF PivotLevel(dims) = None THEN facts ELSE CountyFallback(facts, PivotLevel(dims))
\* A variant that does not fall back on the method of the view.
AskedMethod(view, asked) == asked
PivotMethod(view, asked) == IF asked = None THEN view.method ELSE asked
PivotMeasure(facts, measure, by, method) ==
  IF measure = "tiv" /\ method \in {Max_, Distinct} THEN CombineAtGrain(facts, by, method, None)
  ELSE IF measure = "count" /\ method = Max_ THEN LocationCountAtMaxPeril(facts, by)
  ELSE AggregateMeasure(facts, measure, by)
PivotOf(req, dims, measures, asked, view, raw) ==
  LET deal == ApplyFilters(PivotRows(raw, dims), req.filters)
      method == PivotMethod(view, asked)
      by == [i \in DOMAIN dims |-> DimAttr[dims[i]]]
      cells == [m \in measures |-> PivotMeasure(deal, m, by, method)]
      combined == CASE method = Max_ -> {"WARN_MAX_ACROSS_PERILS"} [] method = Distinct -> {"WARN_SUMMED"} [] OTHER -> {}
      headings == Headings([req EXCEPT !.level = PivotLevel(dims)], view, raw, deal) \cup combined
  IN IF deal = {} THEN [cells |-> [m \in measures |-> <<>>], total |-> [m \in measures |-> 0], warnings |-> headings]
     ELSE IF \E i \in DOMAIN dims : dims[i] \notin DOMAIN DimAttr THEN Invalid
     ELSE [cells |-> cells, total |-> [m \in measures |-> SumOf(cells[m])], warnings |-> headings]
PivotReply(req, dims, measures, asked, loads) ==
  Given(ResolveView(req, loads.view), LAMBDA view :
    IF Failed(view) THEN view ELSE PivotOf(req, dims, measures, asked, view, PerilFilter(view.facts, req.perils)))

(***************************************************************************)
(* The export: the same three, and the facts, when there are not too many  *)
(* rows. Each of the four makes its own loads, so that a dataset may fail  *)
(* for one and be found by the next, or be found with other rows. The      *)
(* warning of an export near the limit is added to the list after its      *)
(* sheet is written, so no sheet has it.                                   *)
(***************************************************************************)
ExportReply(req, geo, dims, asked, loads) ==
  LET size(b) == Cardinality(DOMAIN b.tiv)
      rows(map, detail, pivot, raw) ==
        Cardinality(map.features) + Cardinality(raw)
        + (IF detail = None THEN 0 ELSE size(detail.breakdowns["peril"]) + size(detail.breakdowns["segment"]))
        + (IF pivot = None THEN 0 ELSE Cardinality(UNION {DOMAIN pivot.cells[m] : m \in DOMAIN pivot.cells}))
      sheets(map, detail, pivot, raw) ==
        IF Failed(map) THEN map
        ELSE IF Failed(detail) THEN detail
        ELSE IF Failed(pivot) THEN pivot
        ELSE IF rows(map, detail, pivot, raw) > MaxRows THEN TooLarge
        ELSE [map |-> map, detail |-> detail, pivot |-> pivot, raw |-> raw,
              warnings |-> (UNION {w.warnings : w \in map.features}) \cup map.warnings
                             \cup (IF detail = None THEN {} ELSE detail.warnings)
                             \cup (IF pivot = None THEN {} ELSE pivot.warnings)]
  IN sheets(MapReply(req, loads.map), IF geo = None THEN None ELSE DetailReply(req, geo, loads.detail),
            IF dims = None THEN None ELSE PivotReply(req, dims, {"tiv", "count"}, asked, loads.pivot),
            ResolveView(req, loads.raw.view).facts)
=============================================================================
