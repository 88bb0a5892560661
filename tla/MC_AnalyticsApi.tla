---------------------------- MODULE MC_AnalyticsApi ----------------------------
(* What the endpoints are given: a few files, tracks and rows of each kind.  *)
EXTENDS AnalyticsApi


Row(tech, init, tau, pos, wind) ==
  [tech |-> tech, init |-> init, tau |-> tau, pos |-> pos, wind |-> wind,
   rmw |-> IF tech = "CARQ" THEN 15 ELSE 0,
   rad |-> IF tech = "OFCL" THEN 64 ELSE 34, quads |-> IF tau = 0 THEN {20} ELSE {}]

\* A model's track: a straight line from <<0, 0>>, of one of two cycles.
Line(tech, init, taus, step) ==
  [i \in DOMAIN taus |-> Row(tech, init, taus[i], <<step[1] * (taus[i] \div 12), step[2] * (taus[i] \div 12)>>, 60)]
Steps == {<<1, 0>>, <<1, 1>>, <<2, -1>>}
Leads == {<<0, 12, 24, 36>>, <<12, 24>>, <<24, 36>>}
TwoCycles(tech, step) == Line(tech, 6, <<0, 12, 24>>, step) \o Line(tech, 0, <<24, 36>>, <<0, 1>>)

MCImpactFiles ==
  {<<>>, <<None>>, <<Row("OFCL", 6, 0, <<0, 0>>, 50), Row("CARQ", 6, 0, <<0, 1>>, 45)>>,
   <<Row("OFCL", 6, 0, <<0, 0>>, 50), Row("OFCL", 6, 24, <<2, 2>>, 70), Row("OFCL", 6, 48, <<4, 4>>, 0)>>,
   Line("OFCL", 12, <<0, 12>>, <<1, 1>>) \o Line("CARQ", 18, <<0>>, <<1, 1>>) \o Line("AP01", 12, <<12>>, <<1, 1>>)}
MCAdeckFiles ==
  MCImpactFiles
  \cup {Line("GDMI", c, l, s) \o Line("AP01", 6, <<0, 12, 24, 36>>, t) \o TwoCycles("AP02", u)
          \o Line("OFCL", 12, <<0, 24>>, s) :
          c \in {-24, 0}, l \in Leads, s \in Steps, t \in Steps \ {<<1, 0>>}, u \in {<<2, -1>>}}

Point(coords, hours, wind) ==
  [geo |-> "point", coords |-> coords, hours |-> hours, wind |-> wind, name |-> 0, range |-> None]
MCPlacemarks == {Point(<<<<0, 0>>>>, 0, 50), Point(<<<<1, 1>>>>, 12, 60), Point(<<None, <<2, 2>>>>, 24, 0),
                 Point(<<<<3, 2>>>>, 24, 80), Point(<<None>>, 36, 90), Point(<<<<4, 4>>>>, None, 90)}
MCTrackFiles == {None, NotXml, <<>>} \cup {<<p>> : p \in MCPlacemarks} \cup (MCPlacemarks \X MCPlacemarks)
                  \cup {<<Point(<<<<3, 2>>>>, 24, 80), Point(<<<<1, 1>>>>, 12, 60), Point(<<<<0, 0>>>>, 0, 50)>>}

MCEntries == {[pos |-> <<0, 0>>, move |-> m, intensity |-> 55, adv |-> a] :
                m \in {None, <<1, 1>>}, a \in {None, <<1, FALSE>>, <<3, FALSE>>, <<5, TRUE>>}}

MCCounties == {<<2, 1>>, <<3, 3>>, <<0, 0>>, <<5, -3>>}

Polygon(coords, style, pct) ==
  [geo |-> "polygon", coords |-> coords, hours |-> None, wind |-> 0, name |-> style, range |-> pct]
MCGtwoFiles == {None, NotXml, <<>>,
                <<Polygon(<<<<0, 0>>, <<1, 0>>, <<0, 1>>>>, "low", 30), Point(<<<<1, 1>>>>, None, 0)>>,
                <<Polygon(<<<<0, 0>>, None, <<0, 1>>>>, "high", None), Point(<<<<1, 1>>>>, None, 0),
                  Polygon(<<<<0, 0>>, <<1, 0>>, <<0, 1>>>>, "other", None)>>}

MCShapeFiles == {None, NotXml, <<>>,
                 <<Polygon(<<<<0, 0>>, <<1, 0>>, <<0, 1>>>>, 64, 6), Polygon(<<<<0, 0>>, <<1, 0>>, <<0, 1>>>>, 34, None),
                   Polygon(<<<<0, 0>>, None, <<0, 1>>>>, 50, None), Point(<<<<1, 1>>>>, None, 0)>>}
MCReplayWinds == {<<>>, <<50>>, <<30, 70>>, <<30, 40, 50, 40>>, <<30, 70, 80, 90, 70, 60, 40>>}

MCCompletions == {<<>>, <<<<1, FALSE>>, <<2, TRUE>>, <<2, FALSE>>>>, <<<<4, FALSE>>, <<5, FALSE>>>>,
                  <<<<1, FALSE>>, <<4, TRUE>>, <<2, FALSE>>, <<5, FALSE>>, <<4, FALSE>>, <<3, TRUE>>>>}

(***************************************************************************)
(* Archives, live tracks, losses and values.                               *)
(***************************************************************************)

\* An archive row of the storm "AL01".
ArchiveRow(time, at, wind, status, landfall, r64) ==
  [id |-> "AL01", time |-> time, season |-> 2020, at |-> at, wind |-> wind, status |-> status,
   landfall |-> landfall, rmw |-> 20, r64 |-> r64, r50 |-> <<0, 0>>, r34 |-> <<90, 60>>]
MCArchives ==
  {None, <<>>, <<None>>,
   <<ArchiveRow(2, 100, 100, "HU", TRUE, <<60, 50>>), ArchiveRow(1, 0, 90, "HU", FALSE, <<50, 45>>), None>>,
   <<ArchiveRow(1, 0, 120, "HU", TRUE, <<60, 0>>), ArchiveRow(2, 60, 80, "HU", FALSE, <<0, 0>>),
     [ArchiveRow(2, 60, 80, "HU", FALSE, <<0, 0>>) EXCEPT !.id = "EP02", !.season = 1949]>>,
   <<[ArchiveRow(1, 20, 50, "TS", TRUE, <<0, 0>>) EXCEPT !.rmw = 0], ArchiveRow(2, 110, 40, "EX", FALSE, <<0, 0>>),
     [ArchiveRow(3, None, 90, "HU", FALSE, <<40, 40>>) EXCEPT !.id = "AL02"],
     [ArchiveRow(4, 300, 90, "HU", TRUE, <<0, 0>>) EXCEPT !.id = "AL02"]>>}

Fix(at, wind, rmax, r64, r34) ==
  [time |-> None, landfall |-> FALSE, status |-> "HU", at |-> at, wind |-> wind, source |-> "nhc",
   rmax |-> rmax, r64 |-> r64, r50 |-> None, r34 |-> r34]
MCLiveTracks ==
  {[id |-> "AL01", year |-> 2026, track |-> t] :
     t \in {<<Fix(60, 70, 20, <<40, 40>>, <<120, 60>>)>>,
            <<Fix(0, 100, 20, <<60, 40>>, <<130, 100>>), Fix(115, 80, 25, <<45, 50>>, <<100, 120>>)>>,
            <<Fix(10, 50, 0, None, <<100, 0>>), Fix(70, 70, 30, <<0, 50>>, <<60, 100>>), Fix(390, 90, 20, None, None)>>}}
MCShapes == [F1 |-> [at |-> 20, samples |-> {10, 20, 30}], F2 |-> [at |-> 60, samples |-> {50, 60, 75}],
             A1 |-> [at |-> 130, samples |-> {110, 130, 160}]]
MCStateOf == [x \in 0..400 |-> IF x <= 100 THEN "FL" ELSE IF x <= 250 THEN "AL" ELSE None]
MCCaps == {None, [x \in 0..400 |-> IF x > 100 THEN None ELSE 40]}
Fact(geo, level, ds, seg, tiv) == [geo |-> geo, level |-> level, dataset |-> ds, segment |-> seg, tiv |-> tiv, count |-> 1]
MCFactSets == {{Fact("F1", "COUNTY", "d1", "RESIDENTIAL", 5), Fact("F1", "COUNTY", "d2", "AUTO", 2),
                Fact("F1", "STATE", "d1", "RESIDENTIAL", 50), Fact("F2", "COUNTY", "d1", "COMMERCIAL", 3)}}

County(id, st) == [id |-> id, level |-> "COUNTY", state |-> st]
StateGeo(st) == [id |-> st, level |-> "STATE", state |-> st]
MCGeoOf == [F1 |-> County("F1", "FL"), F2 |-> County("F2", "FL"), A1 |-> County("A1", "AL")]
S20 == [id |-> "AL01", year |-> 2020]
LossRow(geo, seg, loss, part, claims) ==
  [storm |-> S20, geo |-> geo, seg |-> seg, loss |-> loss, cur |-> "USD", part |-> part, claims |-> claims, date |-> None]
F1Row == LossRow(MCGeoOf["F1"], "RESIDENTIAL", 900, FALSE, 40)
MCLossFiles ==
  {<<>>, <<[F1Row EXCEPT !.geo = None]>>, <<F1Row, [F1Row EXCEPT !.cur = "EUR"]>>, <<[F1Row EXCEPT !.part = TRUE]>>,
   <<[F1Row EXCEPT !.cur = "EUR"]>>}
  \cup {<<F1Row, [F1Row EXCEPT !.loss = l, !.claims = None], LossRow(MCGeoOf["A1"], "RESIDENTIAL", 70, FALSE, None),
          LossRow(MCGeoOf["F2"], s, 500, FALSE, 3), LossRow(StateGeo("FL"), s, 300, FALSE, None),
          LossRow(StateGeo("AL"), "COMMERCIAL", 200, p, None)>> :
          l \in {0, 100}, s \in {"COMMERCIAL", "AUTO"}, p \in BOOLEAN}
Values(r, c) == [cur |-> "USD", asOf |-> 2021, county |-> [g \in {MCGeoOf["F1"], MCGeoOf["F2"]} |->
                   IF g = MCGeoOf["F1"] THEN [RESIDENTIAL |-> r] ELSE [COMMERCIAL |-> c, RESIDENTIAL |-> r]]]
MCBook == Values(9000, 0)
MCTivFiles == {<<>>, [y \in {2019, 2022} |-> Values(8000, 7000)]}
MCPrior == [id |-> "prior", kind |-> "vendor", created |-> 0, factor |-> 80, deductible |-> 1, shaped |-> FALSE,
            segments |-> [s \in LossSegments |-> <<1, 2, 5, 10, 20, 40>>]]
MCCurveFiles == {<<>>, <<[MCPrior EXCEPT !.id = "c1", !.kind = "calibrated", !.segments = [AUTO |-> <<0, 1, 1, 2, 3, 9>>]],
                         [MCPrior EXCEPT !.id = "c2", !.kind = "calibrated", !.created = 5, !.shaped = TRUE]>>}
MCEvidence == {None, [g \in Range(MCGeoOf) |-> IF g.state = "FL" THEN 61 ELSE 160]}
MCCurveIds == {None, "c1", "retired"}
MCIndices == {None, [series |-> [k \in {<<"F1", "HU">>, <<"FL", "HU">>, <<"AL", "HU">>, <<"F2", "EMP">>, <<"FL", "EMP">>, <<"FL", "POP">>} |->
                        IF k[1] = "AL" THEN [y \in {2021} |-> 10]
                        ELSE IF k = <<"F2", "EMP">> THEN [y \in {2018, 2022} |-> 2 * y - 4000]
                        ELSE [y \in {2019, 2020, 2022} |-> 100 + 5 * (y - 2019)]],
                     prices |-> [PPI_RES_INPUTS |-> [y \in {2020, 2021} |-> 100 + 20 * (y - 2020)]]]}
MCAdjustmentLists == {<<>>, <<[storm |-> Every, geo |-> "FL", seg |-> "RESIDENTIAL", factor |-> 150],
                              [storm |-> S20, geo |-> "F1", seg |-> Every, factor |-> 50]>>}
MCCurves == [1..4 -> {0, 60, 120, 300}]
MCPins == {<<>>, <<60>>, [b \in {3} |-> 60]}
MCUsBox == 0..300

(***************************************************************************)
(* Funds, samples and requests.                                            *)
(***************************************************************************)

MCAnnualise(growth, n) == ((growth - Unit) * 12) \div n
FundRow(kind, illiquid, min, fee, from, rets) ==
  [kind |-> kind, illiquid |-> illiquid, min |-> min, fee |-> fee,
   series |-> [m \in from..(from + Len(rets) - 1) |-> rets[m - from + 1]]]
MCCatalog == <<FundRow("hedge_fund", TRUE, 30, 20, 1, <<10, -20, 30, 15, -5, 20, 40, 10>>),
               FundRow("hedge_fund", FALSE, 10, 0, 2, <<-10, 5, 25, -30, 10, 15>>),
               FundRow("hedge_fund", FALSE, 50, 15, 5, <<20, 10, -10>>),
               FundRow("reference", FALSE, 0, 1, 1, <<5, -15, 20, 10, -25, 15, 30, 5>>)>>
MCFundSets == {{1, 2}, {1, 2, 4}, {1, 2, 3}, {1, 9}}
MCDrawLists == {<<<<<<1, 3>>, <<2, 1>>>>, <<<<4, 2>>, <<2, 2>>>>, <<<<1, 1>>>>, <<<<3, 2>>, <<1, 2>>, <<4, 1>>>>>>,
                <<<<<<2, 5>>>>, <<<<3, 1>>, <<2, 4>>>>, <<>>>>}
MCRequests ==
  {[netOfFees |-> nm = 2, overrides |-> IF nm = 1 THEN [a \in {2} |-> [ret |-> 90, vol |-> None, cap |-> 300]] ELSE <<>>,
    cash |-> ca, holdings |-> ho[1], newCapital |-> 100, newOnly |-> ho[2], noSell |-> ~ho[2], tickets |-> IF nm = 1 THEN <<>> ELSE [a \in {1, 3} |-> 40],
    respectMin |-> TRUE, caps |-> cp, defaultCap |-> 7000, names |-> nm, sleeve |-> sl, fofFee |-> 10,
    benchmark |-> 4, ownBenchmarks |-> [a \in {1} |-> 2], objective |-> "sharpe"] :
     ca \in BOOLEAN, ho \in {<<<<>>, FALSE>>, <<[a \in {2, 4} |-> 30], FALSE>>, <<[a \in {2, 4} |-> 30], TRUE>>}, nm \in {1, 2},
     cp \in {<<>>, [a \in {1, 2} |-> 4500], [a \in {2, 4} |-> 2500]}, sl \in {0, 3000, Whole}}
MCOwnBooks == {<<>>, [a \in {1, 2} |-> 5], [a \in {0, 1, 3} |-> IF a = 3 THEN 1 ELSE 6], [a \in {3} |-> 1], [a \in {2, 9} |-> 1]}
MCHistoryStarts == {None, 3, 20}
MCStress == <<<<1, 6>>, <<3, 5>>>>

(***************************************************************************)
(* Programmes and their facts, at all three levels. "TX" has no counties   *)
(* in any dataset, "FL" has none in one of them; "GA" was in last year's.  *)
(***************************************************************************)
Prog(id, chain, cedent, year, ds, cur, inForce, ert) ==
  [id |-> id, chain |-> chain, cedent |-> cedent, year |-> year, dataset |-> ds, currency |-> cur,
   inForce |-> inForce, include |-> TRUE, ert |-> ert]
MCProgrammes == <<Prog("p1", "c1", "A", 2025, "d1", "USD", TRUE, "READY"),
                  Prog("p0", "c1", "A", 2024, "d0", "USD", FALSE, "READY"),
                  Prog("p2", "c2", "A", 2025, "d2", "USD", TRUE, "ERT_PARTIAL"),
                  Prog("p3", "c3", "B", 2025, "d3", "EUR", TRUE, "READY"),
                  Prog("p4", "c3", "B", 2023, "d4", "EUR", TRUE, "ERT_NOT_FOUND")>>
MCChains == [c1 |-> "A", c2 |-> "A", c3 |-> "B", c4 |-> "B"]
Exposed(ds, cur, level, geo, st, county, peril, seg, tiv) ==
  [dataset |-> ds, level |-> level, geo |-> geo, country |-> "US", state |-> st, county |-> county,
   peril |-> peril, segment |-> seg, tiv |-> tiv, count |-> tiv \div 10, currency |-> cur]
UsRow(ds, cur, peril, tiv) == Exposed(ds, cur, "COUNTRY", "US", None, None, peril, "RESIDENTIAL", tiv)
StateRow(ds, cur, st, peril, seg, tiv) == Exposed(ds, cur, "STATE", st, st, None, peril, seg, tiv)
CountyRow(ds, st, county, peril, seg, tiv) == Exposed(ds, "USD", "COUNTY", county, st, county, peril, seg, tiv)
MCFacts ==
  [d1 |-> {UsRow("d1", "USD", "HU", 90), UsRow("d1", "USD", "EQ", 60), StateRow("d1", "USD", "FL", "HU", "RESIDENTIAL", 70),
           StateRow("d1", "USD", "TX", "HU", "COMMERCIAL", 20), StateRow("d1", "USD", "TX", "EQ", "COMMERCIAL", 60),
           CountyRow("d1", "FL", "F1", "HU", "RESIDENTIAL", 40), CountyRow("d1", "FL", "F2", "HU", "AUTO", 30)},
   d2 |-> {UsRow("d2", "USD", "EQ", 150), StateRow("d2", "USD", "FL", "EQ", "RESIDENTIAL", 150),
           StateRow("d2", "USD", "TX", "HU", "RESIDENTIAL", 10)},
   d0 |-> {StateRow("d0", "USD", "FL", "HU", "RESIDENTIAL", 60), StateRow("d0", "USD", "GA", "HU", "RESIDENTIAL", 10),
           CountyRow("d0", "FL", "F1", "HU", "RESIDENTIAL", 60)},
   d3 |-> {StateRow("d3", "EUR", "FL", "HU", "RESIDENTIAL", 80)}]
MCIndustry == {[geo |-> "FL", segment |-> "RESIDENTIAL", tiv |-> 1000], [geo |-> "F1", segment |-> "RESIDENTIAL", tiv |-> 0]}
MCGeometry == {"FL", "F1", "TX"}
GroupOf(members, method, confirmed) ==
  [members |-> members, method |-> method, currency |-> "USD", confirmed |-> confirmed]
MCGroupPayloads ==
  {GroupOf(m, k, c) : m \in {<<<<"d1", "HU">>, <<"d2", "EQ">>>>, <<<<"d1", "HU">>, <<"d3", "HU">>>>, <<<<"d9", "HU">>>>, <<>>},
                      k \in {Max_, Distinct, Base, Separate, "CUSTOM"}, c \in BOOLEAN}
Target(kind, id) == [kind |-> kind, id |-> id]
MCTargets == {{}, {Target("programme", "p1")}, {Target("programme", "p2")}, {Target("programme", "p9")},
              {Target("programme", "p1"), Target("chain", "c1")}, {Target("chain", "c1")}, {Target("chain", "c4")},
              {[kind |-> "chains", ids |-> {"c1", "c2", "c4"}]}, {[kind |-> "chains", ids |-> {"c9"}]}, {Target("cedent", "A")},
              {Target("cedent", "Z")}, {Target("dataset", "d3")}, {Target("dataset", "d9")}}
             \cup {{[kind |-> "group", group |-> g]} : g \in {h \in MCGroupPayloads : h.confirmed /\ (h.method = Max_ \/ h.members = <<<<"d1", "HU">>, <<"d2", "EQ">>>>)}}
ViewOf(level, perils, segs, cmp, metric) ==
  [level |-> level, perils |-> perils, filters |-> [peril |-> "ALL", segments |-> segs], cmpProgramme |-> None,
   cmpDataset |-> cmp, metric |-> metric, yoyMode |-> metric = "MARKET_SHARE"]
MCViewRequests ==
  {ViewOf(l, {}, {}, None, "TIV") : l \in {"COUNTRY", "STATE", "COUNTY"}}
  \cup {ViewOf(l, {"HU"}, s, "d0", m) : l \in {"STATE", "COUNTY"}, s \in {{}, {"RESIDENTIAL"}}, m \in {"MARKET_SHARE", "dealShare"}}
  \cup {[ViewOf("STATE", {"ALL"}, {}, "d9", "YOY") EXCEPT !.cmpProgramme = c[1], !.filters.peril = c[2]] :
          c \in {<<None, "ALL">>, <<None, "EQ">>, <<"p2", "EQ">>, <<"p9", "ALL">>}}
MCPivots == {[dims |-> d, asked |-> None] : d \in {<<"PERIL">>, <<"STATE">>, <<"COUNTY", "OCCUPANCY_SEGMENT">>, <<"YEAR">>}}
            \cup {[dims |-> <<"STATE">>, asked |-> Distinct]}
\* A dataset that fails to load, one that was loaded anew, and one with a county
\* that is not named and a row in another currency.
MCWithout(d) == [MCFacts EXCEPT ![d] = None]
MCLater == [MCFacts EXCEPT !.d1 = {r \in @ : r.level # "STATE"} \cup {StateRow("d1", "USD", "FL", "HU", "RESIDENTIAL", 80)}]
MCOdd == [MCFacts EXCEPT !.d1 = @ \cup {[CountyRow("d1", "FL", "FL", "HU", "AUTO", 10) EXCEPT !.county = None],
                                       StateRow("d1", "EUR", "TX", "HU", "AUTO", 500)}]
Found(view, portfolio, prior) == [view |-> view, portfolio |-> portfolio, prior |-> prior]
Throughout(found) == Found(found, found, found)
MCLoads == {Throughout(MCFacts), Throughout(MCWithout("d2")), Throughout(MCWithout("d0")), Throughout(MCLater), Throughout(MCOdd),
            Found(MCFacts, MCWithout("d2"), MCFacts), Found(MCFacts, MCLater, MCFacts)}
Tabs(map, detail, pivot, raw) == [map |-> map, detail |-> detail, pivot |-> pivot, raw |-> raw]
MCExportLoads ==
  LET now == Throughout(MCFacts)
      failing == Throughout(MCWithout("d2"))
      odd == Throughout(MCOdd)
  IN {Tabs(now, now, now, now), Tabs(now, failing, Throughout(MCLater), failing),
      Tabs(now, Found(MCFacts, MCWithout("d2"), MCFacts), now, now), Tabs(odd, odd, odd, now)}
Layer(d, l, s) == [deductible |-> d, limit |-> l, share |-> s]
MCTowers == {<<>>, <<Layer(0, 50, 100)>>, <<Layer(20, 80, 50), Layer(100, 400, 100)>>, <<Layer(50, 50, 100), Layer(60, 100, 100)>>}
ScenarioOf(gross, tiv, ratio) == [gross |-> gross, tiv |-> tiv, ratio |-> ratio]
MCScenarios == {<<>>, <<ScenarioOf(600, None, None), ScenarioOf(None, 400, 300)>>, <<ScenarioOf(40, 200, None)>>,
                <<ScenarioOf(None, 200, None)>>}

(***************************************************************************)
(* Polygons, fires and floods, on a map of a few cells.                    *)
(***************************************************************************)
Rect(x0, y0, x1, y1) == <<<<x0, y0>>, <<x1, y0>>, <<x1, y1>>, <<x0, y1>>, <<x0, y0>>>>
AreaOf(rings) == [kind |-> "Polygon", parts |-> <<rings>>]
AreasOf(parts) == [kind |-> "MultiPolygon", parts |-> parts]
Tile == AreaOf(<<Rect(0, 0, 6, 6)>>)
Holed == AreaOf(<<Rect(-4, 0, 8, 8), Rect(0, 2, 4, 6)>>)
Triangle == AreaOf(<<<<<<4, 0>>, <<12, 4>>, <<4, 8>>, <<4, 0>>>>>>)
Pair == AreasOf(<<<<Rect(-6, -6, -2, -2)>>, <<Rect(4, 4, 8, 8)>>>>)
Sliver == AreaOf(<<Rect(8, 8, 10, 10)>>)
NoArea == [kind |-> "LineString", parts |-> <<<<<<<<0, 0>>, <<2, 2>>>>>>>>]
Stub == AreaOf(<<<<<<0, 0>>, <<2, 0>>, <<0, 0>>>>>>)
Broken == AreasOf(<<<<Rect(0, 0, 2, 2), <<None>>>>>>)
MCScatter == [F1 |-> [A |-> <<<<1, 1>>, <<3, 5>>>>, B |-> <<<<5, 1>>, <<7, 7>>>>], F2 |-> [A |-> <<<<-3, -3>>, <<-1, 7>>>>, B |-> <<<<5, 3>>, <<9, 3>>>>]]
Insures(id, client) == [id |-> id, client |-> client, included |-> id # "d0", currency |-> "USD"]
InsuredRow(level, county, peril, tiv, cur) == [level |-> level, county |-> county, peril |-> peril, tiv |-> tiv, currency |-> cur]
MCLocationBooks ==
  LET ds == {Insures("d0", "A"), Insures("d1", "A"), Insures("d2", "A"), Insures("d3", "B")}
      d1 == {InsuredRow("COUNTY", "F1", "HU", 40, None), InsuredRow("COUNTY", "F1", "EQ", 30, None), InsuredRow("COUNTY", "F2", "HU", 10, "USD"),
             InsuredRow("COUNTY", "F9", "HU", 70, "USD"), InsuredRow("STATE", "FL", "HU", 90, "USD")}
      d2 == {InsuredRow("COUNTY", "F1", "HU", 60, "USD"), InsuredRow("COUNTY", "F2", "HU", None, "USD")}
      d3(cur) == {InsuredRow("COUNTY", "F1", "HU", 80, cur), InsuredRow("COUNTY", "F2", "EQ", 20, cur)}
  IN {[datasets |-> None, facts |-> <<>>], [datasets |-> ds, facts |-> [d1 |-> d1, d3 |-> d3("USD")]],
      [datasets |-> ds, facts |-> [d0 |-> d3("USD"), d1 |-> d1, d2 |-> d2, d3 |-> d3("USD")]], [datasets |-> ds, facts |-> [d1 |-> d1, d2 |-> d2, d3 |-> d3("EUR")]]}
MCPolygonLists == {<<>>, <<NoArea>>, <<Tile, Stub>>, <<Broken>>, <<Sliver, Sliver, Sliver>>}
               \cup {<<g, h>> : g, h \in {Tile, Holed, Triangle, Pair, Sliver}}

Detected(cell, conf, frp, at) == [cell |-> cell, conf |-> conf, frp |-> frp, at |-> at]
Cloud(cells) == LET s == SelectSeq([k \in 1..25 |-> <<(k - 1) % 5, (k - 1) \div 5>>], LAMBDA c : c \in cells)
                IN [i \in DOMAIN s |-> Detected(s[i], [word |-> "nominal"], 10 * i, i)]
Rim == ((0..2) \X (0..2)) \ {<<1, 1>>}
Field == (0..4) \X (0..4)
Clouds == {c \in SUBSET Rim : Cardinality(c) \in 4..8}
          \cup {(Field \ ({1, 2, 3} \X {1, 2, 3})) \cup {<<2, 2>>}, Field \ {<<1, 1>>, <<2, 1>>, <<3, 1>>, <<1, 2>>, <<3, 3>>},
                Field \ {<<1, 1>>, <<2, 2>>}, Field \ {<<1, 1>>, <<2, 2>>, <<3, 1>>, <<1, 3>>},
                Field \ {<<0, 1>>, <<1, 2>>, <<2, 2>>}, {<<k, k>> : k \in 0..4} \cup {<<2, 3>>, <<3, 2>>}}
FewRows == <<Detected(<<0, 0>>, None, None, None), Detected(<<9, 9>>, [pct |-> 85], 50, 4), Detected(<<1, 1>>, [word |-> "low"], 5, 2),
             Detected(None, None, 5, 3), Detected(<<2, 1>>, [word |-> "high"], 20, 1), Detected(<<8, 9>>, [pct |-> 40], 20, 3), Detected(<<-5, 0>>, [pct |-> 10], 20, 3)>>
FireFeed(perimeters, hasKey, answers, before) ==
  [perimeters |-> perimeters, perimetersBefore |-> None, hasKey |-> hasKey, answers |-> answers, before |-> before]
MCFireRequests ==
  {[days |-> d, heat |-> TRUE, perimeters |-> TRUE, conf |-> "nominal", minFrp |-> 0, minCells |-> 1, minDetections |-> 1] : d \in {1, 7}}
  \cup {[days |-> 1, heat |-> FALSE, perimeters |-> FALSE, conf |-> "low", minFrp |-> 0, minCells |-> 1, minDetections |-> 1],
        [days |-> 1, heat |-> TRUE, perimeters |-> FALSE, conf |-> "low", minFrp |-> 10, minCells |-> 2, minDetections |-> 2]}
Perimeter(g, cat, gis, size, st) == [geometry |-> g, category |-> cat, gis |-> gis, size |-> size, state |-> st]
MCPerimeterAnswers == {None, [error |-> "bad query"], [features |-> <<>>, exceeded |-> FALSE],
   [features |-> <<Perimeter(Tile, None, 0, 20, "CA"), Perimeter(None, "WF", 9, 9, "CA"), Perimeter(Holed, "WF", 50, None, "CA"),
                   Perimeter(Pair, "RX", 70, 70, "OR"), Perimeter(Pair, "WF", None, None, None)>>, exceeded |-> TRUE]}
MCFireFeeds ==
  {FireFeed(None, TRUE, <<Cloud(c), <<>>>>, None) : c \in Clouds}
  \cup {FireFeed(p, k, <<FewRows, a>>, b) : p \in MCPerimeterAnswers, k \in BOOLEAN, a \in {None, NotCsv, <<>>},
                                       b \in {None, <<FewRows, None>>, <<FewRows, FewRows>>, <<NotCsv, None>>}}
  \cup {FireFeed(None, TRUE, <<FewRows, a, <<>>, FewRows>>, None) : a \in {None, <<>>}}
  \cup {[FireFeed(p, TRUE, <<FewRows, <<>>>>, None) EXCEPT !.perimetersBefore = b] : p, b \in MCPerimeterAnswers}
Alert(event, sev, g, st) == [event |-> event, severity |-> sev, geometry |-> g, states |-> st]
MCAlertFeeds == {None, <<>>, <<Alert("Flood Warning", "Severe", Tile, {"FL", "GA"}), Alert("Flood Watch", "Minor", None, {"FL"}),
                              Alert("Hurricane Watch", "Severe", Holed, {"FL"}), Alert("Flood Warning", "Odd", Holed, {"FL"}),
                              Alert("Hurricane Warning", "Extreme", Tile, {"FL"}), Alert("Heat Advisory", "Minor", None, {})>>}
MCBoxes == {<<>>, <<0, 0, 2>>, <<0, None, 2, 2>>, <<2, 0, 0, 2>>, <<-1, -1, 9, 9>>, <<1, 1, 3, 3>>, <<-9, -9, 9, 9>>}
MCInundationAnswers == {None} \cup {[features |-> f, exceeded |-> x] : x \in BOOLEAN,
   f \in {<<>>, <<Sliver>>, <<Sliver, Tile, None, NoArea>>, <<Triangle, Broken, Holed, Tile>>}}
MCGridFiles == [tornado |-> [cells |-> [p \in {1, 2} |-> 30 * p], step |-> 2], hail |-> [cells |-> <<>>, step |-> 4], wildfire |-> None]
MCSynthetic == [hail |-> [p \in 1..3 |-> 30 * p], wildfire |-> [p \in 1..3 |-> 7], tornado |-> [p \in 1..3 |-> p]]
MCOnLand == {1, 3}
MCWorld == -12..12
MCFirmsSources == <<"VIIRS", "MODIS">>
MCWatchRank == [e \in {"Hurricane Warning", "Hurricane Watch"} |-> IF e = "Hurricane Warning" THEN 5 ELSE 3]
=============================================================================
