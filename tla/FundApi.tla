------------------------------ MODULE FundApi ------------------------------
(***************************************************************************)
(* The endpoints of the fund analysis (api/fund_analysis.py): the books an *)
(* optimisation recommends, a book of the client's own, the history of one *)
(* fund, and how often a fund is chosen. The catalogue is as supplied; the *)
(* samples an optimisation draws are arbitrary.                            *)
(***************************************************************************)
EXTENDS Portfolio, Endpoint, SequencesExt

CONSTANTS Catalog,    \* fund -> [kind, illiquid, min, fee, series]
          Spy,        \* the benchmark used when another is unknown
          FundSets,   \* funds asked for
          DrawLists,  \* what the sampler may draw
          Requests,   \* the limits asked for
          OwnBooks,   \* weights of the client's own book
          HistoryStarts

\* What the catalogue and a request hold: a series is a finite table of returns
\* by month, the amounts and limits are numbers and the masses of a draw
\* positive. An override of the return may be left out; a sleeve is not negative.
Table(f) == IsFiniteSet(DOMAIN f) /\ \A x \in DOMAIN f : f[x] \in Int
ASSUME FundAssumption ==
  /\ \A a \in DOMAIN Catalog : /\ a \in Int /\ Catalog[a].min \in Int
                              /\ Table(Catalog[a].series) /\ DOMAIN Catalog[a].series \subseteq Int
  /\ \A ids \in FundSets : IsFiniteSet(ids)
  /\ DrawLists \subseteq Seq(Seq(Int \X (Nat \ {0})))
  /\ \A req \in Requests :
       /\ Table(req.holdings) /\ Table(req.tickets) /\ Table(req.caps)
       /\ {req.newCapital, req.defaultCap, req.names, req.fofFee} \subseteq Int /\ req.sleeve \in Nat
       /\ \A a \in DOMAIN req.overrides : req.overrides[a].ret \in Int \cup {None}

Requested(req, a) == IF a \in DOMAIN req.tickets THEN req.tickets[a] ELSE Catalog[a].min
BenchmarkOf(id, start) == Since(Catalog[IF id \in DOMAIN Catalog THEN id ELSE Spy].series, start)
DragOf(req, a) == IF req.netOfFees THEN Catalog[a].fee ELSE 0

\* Series, estimates and correlations of the funds in the window.
MarketOf(ids, start, req) ==
  LET ov(a) == IF a \in DOMAIN req.overrides THEN req.overrides[a] ELSE None
      capped == [a \in ids \cap DOMAIN req.overrides |-> req.overrides[a]]
      assumed(a, s) == ApplyOverrides(ComputeAssetStats(s, DragOf(req, a)), ov(a))
      stat(a, s) == IF ov(a) # None /\ ov(a).ret # None THEN assumed(a, s) ELSE ApplyMuShrink(assumed(a, s))
  IN Once([a \in ids |-> Since(Catalog[a].series, start)],
          LAMBDA series : Once(CorrelationMatrix(series, capped),
                               LAMBDA rho : Once([a \in ids |-> stat(a, series[a])],
                                                 LAMBDA st : [series |-> series, rho |-> rho, stats |-> st])))
MarketFor(ids, start, req, rf) ==
  IF req.cash THEN InjectCash(MarketOf(ids, start, req), rf) ELSE MarketOf(ids, start, req)

\* Holdings count in the capital whether or not they are among the funds asked
\* for; a sleeve of nothing is taken for no limit.
CapitalOf(req) == Plus(req.holdings) + req.newCapital
Share(req, amount) == (amount * Whole) \div CapitalOf(req)
FixedOf(ids, req) ==
  [a \in {x \in ids \cap DOMAIN req.holdings : req.newOnly /\ req.holdings[x] > 0} |-> Share(req, req.holdings[a])]
LimitsOf(ids, req) ==
  [cap |-> [a \in {x \in ids : x \in DOMAIN req.caps \/ Catalog[x].kind = "hedge_fund"} |->
              IF a \in DOMAIN req.caps THEN req.caps[a] ELSE req.defaultCap],
   ticket |-> [a \in {x \in ids : req.respectMin} |-> Share(req, Requested(req, a))],
   floor |-> IF req.newOnly /\ Plus(req.holdings) > 0 THEN FixedOf(ids, req)
             ELSE [a \in {x \in ids \cap DOMAIN req.holdings : req.noSell /\ req.holdings[x] > 0} |->
                     Share(req, req.holdings[a])],
   names |-> req.names,
   illiquid |-> {a \in ids : Catalog[a].illiquid},
   sleeve |-> IF req.sleeve = 0 THEN Whole ELSE req.sleeve]
FreeOf(req) == IF req.newOnly /\ Plus(req.holdings) > 0 THEN Share(req, req.newCapital) ELSE Whole
SoftOf(ids, req) ==
  [a \in {x \in ids : req.respectMin /\ Requested(req, x) > 0} |-> Min({Whole, Share(req, Requested(req, a))})]

Optimised(ids, draws, start, rf, req) ==
  Given(MarketFor(ids, start, req, rf), LAMBDA market :
    ComputeFrontier(DOMAIN market.stats, draws, market, LimitsOf(ids, req), FixedOf(ids, req), FreeOf(req),
                    SoftOf(ids, req), BenchmarkOf(req.benchmark, start), rf, req.fofFee))

\* What is said of a book: the window it is scored over, its names, cash and
\* illiquid share, the stress windows, and the tickets it misses.
Enrich(p, market, req) ==
  LET path == NetOfFee(MonthlySeries(p.weights, market.series), req.fofFee)
  IN [weights |-> p.weights, ret |-> p.ret, vol |-> p.vol, sharpe |-> p.sharpe,
      window |-> IF DOMAIN path = {} THEN None ELSE <<Min(DOMAIN path), Max(DOMAIN path)>>,
      months |-> Cardinality(DOMAIN path),
      names |-> Cardinality(Active(p.weights) \ {Cash}),
      cash |-> IF Cash \in DOMAIN p.weights THEN p.weights[Cash] ELSE 0,
      illiquid |-> MapThenSumSet(LAMBDA a : p.weights[a], {a \in Funds(p.weights) : Catalog[a].illiquid}),
      stress |-> StressResults(p.weights, market.series),
      violates |-> {a \in Funds(p.weights) : /\ p.weights[a] > 0
                                              /\ p.weights[a] < Share(req, Requested(req, a))}]

\* The table of funds: each measured against its own benchmark.
RescoreRow(a, own, standard, start) ==
  LET id == IF a \in DOMAIN own /\ own[a] \in DOMAIN Catalog THEN own[a]
            ELSE IF standard \in DOMAIN Catalog THEN standard ELSE Spy
      series == Since(Catalog[a].series, start)
      shared == [m \in DOMAIN series \cap DOMAIN BenchmarkOf(id, start) |-> series[m]]
  IN [fund |-> a, benchmark |-> id, ir |-> IF a = id THEN 0 ELSE InformationRatio(shared, BenchmarkOf(id, start))]

\* The chart of a series, thinned to about 200 months that include the last.
SeriesOut(series) ==
  LET returns == InOrder(series)
      n == Len(returns)
      stride == Max({1, n \div 200})
      kept == {i \in 1..n : (i - 1) % stride = 0 \/ i = n}
  IN [months |-> {Months(series)[i] : i \in kept}, equity |-> [i \in kept |-> CumulativeCurve(returns)[i]],
      drawdown |-> [i \in kept |-> DrawdownSeries(returns)[i]], worst |-> MaxDrawdown(returns)]

\* The note on the window says so when less than asked for could be scored.
WindowNote(book, start) ==
  [kind |-> IF book.window = None THEN "none" ELSE IF start = None THEN "full"
            ELSE IF book.window[1] > start THEN "no_overlap_before" ELSE "clipped",
   short |-> book.months > 0 /\ book.months < MinPath]

OptimizeReply(ids, draws, start, rf, req) ==
  LET bench == BenchmarkOf(req.benchmark, start)
      reported(market, found, book, path) ==
        [points |-> found.points, frontier |-> found.frontier, recommended |-> book, picks |-> found.picks,
         limits |-> LimitsOf(ids, req), note |-> WindowNote(book, start),
         table |-> {RescoreRow(a, req.ownBenchmarks, req.benchmark, start) : a \in ids},
         charts |-> [a \in ids |-> SeriesOut(market.series[a])],
         path |-> SeriesOut(path), against |-> SeriesOut([m \in DOMAIN path \cap DOMAIN bench |-> bench[m]])]
      chosen(found) == found.picks[IF req.objective \in DOMAIN found.picks THEN req.objective ELSE "ir"]
  IN IF ~(ids \subseteq DOMAIN Catalog) \/ Cardinality(ids) < 2 \/ CapitalOf(req) <= 0 THEN Invalid
     ELSE Given(MarketFor(ids, start, req, rf), LAMBDA market :
          Given(Optimised(ids, draws, start, rf, req), LAMBDA found :
            reported(market, found, Enrich(chosen(found), market, req),
                     NetOfFee(MonthlySeries(chosen(found).weights, market.series), req.fofFee))))

(***************************************************************************)
(* A book of the client's own. Names below their tickets are dropped after *)
(* the first figures; the path is then scored again, without the fee of    *)
(* the fund of funds, when it is long enough.                              *)
(***************************************************************************)
PathFigures(path, bench, rf) ==
  LET returns == InOrder(path)
  IN [ret |-> Cagr(returns), vol |-> AnnualVol(path), sharpe |-> SharpeOf(Cagr(returns), rf, AnnualVol(path)),
      ir |-> InformationRatio(path, bench)]
EstimatedFigures(w, market, first, bench, rf, fee) ==
  LET mu == ExpectedReturn(w, market.stats) - fee
      figures(vol) == [ret |-> mu, vol |-> vol, sharpe |-> SharpeOf(mu, rf, vol),
                       ir |-> IF DOMAIN first = {} THEN 0 ELSE InformationRatio(first, bench)]
  IN figures(PortfolioVol(w, market))
CustomReply(asked, start, rf, req) ==
  LET positive == [a \in {x \in DOMAIN asked : asked[x] > 0} |-> asked[a]]
      w == Normal(positive)
      bench == BenchmarkOf(req.benchmark, start)
      tickets == [LimitsOf(Funds(positive), req) EXCEPT !.floor = <<>>]
      dropped == IF req.respectMin THEN BelowTicket(w, tickets) ELSE {}
      rescored(market, first, kept, shown) ==
        [weights |-> kept, dropped |-> dropped,
         figures |-> IF req.respectMin /\ Cardinality(DOMAIN shown) >= MinTail THEN PathFigures(shown, bench, rf)
                     ELSE IF Cardinality(DOMAIN first) >= MinTail THEN PathFigures(first, bench, rf)
                     ELSE EstimatedFigures(w, market, first, bench, rf, req.fofFee),
         equity |-> CumulativeCurve(InOrder(shown)),
         drawdown |-> Min({0} \cup Range(DrawdownSeries(InOrder(shown)))),
         against |-> [m \in DOMAIN shown \cap DOMAIN bench |-> bench[m]]]
      scored(market, first, kept) ==
        rescored(market, first, kept, IF req.respectMin THEN MonthlySeries(kept, market.series) ELSE first)
  IN IF ~(Funds(positive) \subseteq DOMAIN Catalog) \/ DOMAIN positive = {} THEN Invalid
     ELSE Given(Given(MarketOf(Funds(positive), start, req), LAMBDA plain :
                        IF Cash \in DOMAIN positive THEN InjectCash(plain, rf) ELSE plain),
                LAMBDA market : scored(market, NetOfFee(MonthlySeries(w, market.series), req.fofFee),
                                       IF Drop(w, dropped) = None THEN [a \in DOMAIN w |-> 0] ELSE Drop(w, dropped)))

(***************************************************************************)
(* The history of one fund in rolling windows and two halves.              *)
(***************************************************************************)
Adequacy(n, track) == IF n < track THEN "unreliable" ELSE IF 2 * n < 5 * track THEN "sparse"
                      ELSE IF n < 5 * track THEN "decent" ELSE "strong"
PeriodFigures(returns, rf) ==
  LET series == [i \in DOMAIN returns |-> returns[i]]
  IN IF Len(returns) < MinTail \div 2 THEN [ret |-> 0, vol |-> 0, sharpe |-> 0]
     ELSE [ret |-> Cagr(returns), vol |-> AnnualVol(series), sharpe |-> SharpeOf(Cagr(returns), rf, AnnualVol(series))]
SlopePerYear(ys) ==
  LET n == Len(ys)
      x(i) == 2 * i - n - 1
  IN IF n < 3 THEN 0
     ELSE (24 * MapThenSumSet(LAMBDA i : x(i) * ys[i], 1..n)) \div MapThenSumSet(LAMBDA i : x(i) * x(i), 1..n)
SeverityOf(change, minor, notable) ==
  LET size == IF change < 0 THEN -change ELSE change
  IN IF size < minor THEN "minor" ELSE IF size < notable THEN "notable" ELSE "significant"

RollingReply(fund, benchId, window, start, rf, crises) ==
  LET series == Since(Catalog[fund].series, start)
      bench == Since(Catalog[benchId].series, start)
      months == Months(series)
      n == Len(months)
      part(from, to) == SubSeq(months, from, to)
      over(f, ms) == [i \in DOMAIN SelectSeq(ms, LAMBDA m : m \in DOMAIN f) |-> f[SelectSeq(ms, LAMBDA m : m \in DOMAIN f)[i]]]
      half == n \div 2
      halves == <<part(1, half), part(half + 1, n)>>
      own(ms) == PeriodFigures(over(series, ms), rf)
      alpha(ms) == own(ms).ret - Cagr(over(bench, ms))
      windows == [k \in 1..Max({0, n - window + 1}) |->
                    LET ms == part(k, k + window - 1)
                        f == [m \in Range(ms) |-> series[m]]
                    IN [end |-> months[k + window - 1], ret |-> Cagr(over(series, ms)), vol |-> AnnualVol(f),
                        sharpe |-> SharpeOf(Cagr(over(series, ms)), rf, AnnualVol(f)), ir |-> InformationRatio(f, bench)]]
      change(Of2(_)) == Of2(halves[2]) - Of2(halves[1])
      near == {c \in DOMAIN crises : half > 0 /\ crises[c] - months[half] \in -12..12}
  IN IF {fund, benchId} \subseteq DOMAIN Catalog
     THEN IF n = 0 THEN None
          ELSE [windows |-> windows, halves |-> halves, adequacy |-> Adequacy(n, MinTail * 2),
                full |-> own(months), alphas |-> <<alpha(halves[1]), alpha(halves[2])>>, alpha |-> alpha(months),
                trend |-> SlopePerYear([k \in DOMAIN windows |-> windows[k].ret]),
                flags |-> <<SeverityOf(change(alpha), 20, 50), SeverityOf(change(LAMBDA h : own(h).ret), 30, 80),
                            SeverityOf(change(LAMBDA h : own(h).vol), 20, 60),
                            SeverityOf(change(LAMBDA h : own(h).sharpe), 200, 500)>>,
                crisis |-> IF near = {} THEN None ELSE Min(near)]
     ELSE NotFound

(***************************************************************************)
(* How often a fund is chosen over windows of history and risk-free rates. *)
(***************************************************************************)
Median(f, in) ==
  LET s == ByKey(in, f)
      n == Len(s)
  IN IF n = 0 THEN 0 ELSE IF n % 2 = 1 THEN f[s[n \div 2 + 1]] ELSE (f[s[n \div 2]] + f[s[n \div 2 + 1]]) \div 2
RobustnessTable(ids, runs, rates) ==
  LET n == 3 * Cardinality(DOMAIN runs)
      book(k) == runs[<<1 + (k \div 3) \div rates, 1 + ((k \div 3) % rates)>>][<<"sharpe", "sortino", "ir">>[1 + (k % 3)]]
      weight(a) == [k \in 0..(n - 1) |-> IF a \in DOMAIN book(k).weights THEN book(k).weights[a] ELSE 0]
      row(w) == LET selected == {k \in DOMAIN w : w[k] > Whole \div 20}
                IN [selected |-> selected, median |-> Median(w, DOMAIN w), whenSelected |-> Median(w, selected),
                    most |-> Max(Range(w)),
                    class |-> IF 100 * Cardinality(selected) >= 65 * n THEN "core"
                              ELSE IF 4 * Cardinality(selected) >= n THEN "situational" ELSE "peripheral"]
  IN [a \in ids |-> Then(weight(a), row)]
RobustnessReply(ids, draws, starts, rates, req) ==
  IF ~(ids \subseteq DOMAIN Catalog) \/ Cardinality(ids) < 2 \/ CapitalOf(req) <= 0 THEN Invalid
  ELSE Then([s \in (DOMAIN starts) \X (DOMAIN rates) |-> Optimised(ids, draws, starts[s[1]], rates[s[2]], req).picks],
            LAMBDA runs : RobustnessTable(ids, runs, Len(rates)))

(***************************************************************************)
(* The endpoints.                                                          *)
(***************************************************************************)
OptimizeCall ==
  /\ call = None
  /\ \E ids \in FundSets, draws \in DrawLists, start \in HistoryStarts, req \in Requests :
       /\ call' = [op |-> "optimize", ids |-> ids, req |-> req]
       /\ reply' = OptimizeReply(ids, draws, start, 40, req)

CustomCall ==
  /\ call = None
  /\ \E asked \in OwnBooks, start \in HistoryStarts, req \in {r \in Requests : DOMAIN r.holdings = {}} :
       /\ call' = [op |-> "custom", asked |-> asked]
       /\ reply' = CustomReply(asked, start, 40, req)

RollingCall ==
  /\ call = None
  /\ \E fund, benchId \in DOMAIN Catalog \cup {None}, window \in {3, 4}, start \in HistoryStarts :
       /\ call' = [op |-> "rolling"]
       /\ reply' = RollingReply(fund, benchId, window, start, 40, <<5>>)

RobustnessCall ==
  /\ call = None
  /\ \E ids \in FundSets, draws \in DrawLists, req \in Requests :
       /\ req.sleeve = Whole
       /\ call' = [op |-> "robustness"]
       /\ reply' = RobustnessReply(ids, draws, <<None, 3>>, <<20, 60>>, req)

FundNext == OptimizeCall \/ CustomCall \/ RollingCall \/ RobustnessCall

(***************************************************************************)
(* Properties.                                                             *)
(***************************************************************************)
Optimal == Of("optimize") /\ reply # Invalid

\* "Project cap / ticket / cardinality / illiquid until stable": each of the
\* corrections undoes others, and yet a book that may keep cash obeys all of
\* them at once: it is fully invested, keeps the holdings, has no line below its
\* ticket, none above its cap, no more names and no more illiquid funds than
\* allowed.
Obeys(w, lim) ==
  /\ Plus(w) \in (Whole - Slack)..Whole
  /\ FloorsHold(w, lim)
  /\ \A a \in BelowTicket(w, lim) : a \in Protected(lim)
  /\ \A a \in Funds(w) : w[a] <= CapOf(lim, a) + Slack
  /\ Cardinality(Active(w) \ {Cash}) <= lim.names
  /\ MapThenSumSet(LAMBDA a : w[a], lim.illiquid) <= lim.sleeve + Slack
BooksObeyTheirLimits ==
  Optimal /\ call.req.cash => \A i \in DOMAIN reply.points : Obeys(reply.points[i].weights, reply.limits)

\* The frontier is the set of books to choose from: no sampled book is calmer
\* than one of them and returns as much, and none returns more than all those
\* that are no more volatile than its bin.
FrontierIsUndominated ==
  Optimal =>
    LET f == Range(reply.frontier)
        all == Range(reply.points)
        widest == Max({p.vol : p \in all} \cup {1})
        bin(p) == (p.vol * Bins) \div widest
    IN /\ \A p \in f, q \in all : ~(q.vol <= p.vol /\ q.ret >= p.ret /\ (q.vol < p.vol \/ q.ret > p.ret))
       /\ \A q \in all : \E p \in f : bin(p) <= bin(q) /\ p.ret >= q.ret
=============================================================================
