----------------------------- MODULE Portfolio -----------------------------
(***************************************************************************)
(* Books of funds (services/portfolio_math.py): their statistics, the      *)
(* projection of a sampled book onto what the client allows, and the       *)
(* frontier of the sampled books. Funds are numbered in catalogue order    *)
(* and cash is 0; a month is a number; a return counts thousandths, a      *)
(* weight ten-thousandths, and quotients are rounded down. A minimum       *)
(* investment is given as the share of the capital that satisfies it.      *)
(***************************************************************************)
EXTENDS Absent, Integers, SequencesExt

CONSTANTS
  MinTail,             \* months before a tail metric is computed
  MinPath,             \* months before a path ranks a book
  MinStress,           \* months a stress window needs
  StressWindows,       \* sequence of <<first month, last month>>
  FullTrack,           \* months at which a track counts fully
  Annualise(_, _)      \* growth, months -> yearly return: the root is abstract

Whole == 10000
Unit == 1000
Slack == 20            \* stands for the code's tolerances, above the rounding
Cash == 0
MuPrior == 80
CorrPrior == 550
CorrMin == 3
RatioMax == 15 * Unit
Bins == 100

\* The rest of a computation, unless it has come to nothing.
Then(x, Op(_)) == IF x = None THEN None ELSE Op(x)
\* Given, of a table: TLC makes it once, when it compares it.
Once(x, Op(_)) == IF x = x THEN Op(x) ELSE x
\* A set of numbers by a key, and by themselves where it is the same.
ByKey(S, key) == Ordered(S, LAMBDA a, b : key[a] < key[b] \/ (key[a] = key[b] /\ a < b))
Plus(f) == MapThenSumSet(LAMBDA a : f[a], DOMAIN f)
\* The integer root, from its highest bit to its lowest.
Bits == <<16384, 8192, 4096, 2048, 1024, 512, 256, 128, 64, 32, 16, 8, 4, 2, 1>>
Root(n) ==
  LET bit[k \in 0..15] == IF k = 0 THEN 0
                          ELSE LET low == bit[k - 1]
                                   next == low + Bits[k]
                               IN IF next * next <= n THEN next ELSE low
  IN bit[15]

(***************************************************************************)
(* Statistics of a series: month -> return.                                *)
(***************************************************************************)
Since(series, start) == [m \in {k \in DOMAIN series : start = None \/ k >= start} |-> series[m]]
Months(series) == Ordered(DOMAIN series, <)
InOrder(series) == [i \in DOMAIN Months(series) |-> series[Months(series)[i]]]

Variance(f) ==
  LET n == Cardinality(DOMAIN f)
      mean == Plus(f) \div n
  IN IF n < 2 THEN 0 ELSE MapThenSumSet(LAMBDA m : (f[m] - mean) * (f[m] - mean), DOMAIN f) \div (n - 1)
AnnualVol(f) == Root(12 * Variance(f))

\* The value of 1 along a sequence of returns.
CumulativeCurve(returns) ==
  LET at[i \in 0..Len(returns)] == IF i = 0 THEN Unit ELSE (at[i - 1] * (Unit + returns[i])) \div Unit
  IN [i \in DOMAIN returns |-> at[i]]
Cagr(returns) ==
  IF returns = <<>> THEN 0
  ELSE IF Last(CumulativeCurve(returns)) <= 0 THEN -Unit
  ELSE Annualise(Last(CumulativeCurve(returns)), Len(returns))
DrawdownSeries(returns) ==
  Then(CumulativeCurve(returns),
       LAMBDA equity : [i \in DOMAIN returns |->
                          (equity[i] * Unit) \div Max({Unit} \cup {equity[k] : k \in 1..i}) - Unit])
MaxDrawdown(returns) ==
  IF Len(returns) < MinTail THEN 0 ELSE Min({0} \cup Range(DrawdownSeries(returns)))

ComputeAssetStats(series, drag) ==
  LET n == Cardinality(DOMAIN series)
  IN IF n = 0 THEN [n |-> 0, ret |-> 0, mu |-> 0, vol |-> 0]
     ELSE [n |-> n, ret |-> Cagr(InOrder(series)), mu |-> (12 * Plus(series)) \div n - drag, vol |-> AnnualVol(series)]

\* A short track is drawn toward the prior.
ShrinkToward(prior, value, n) ==
  LET w == Min({n, FullTrack}) IN (w * value + (FullTrack - w) * prior) \div FullTrack
ApplyMuShrink(stat) ==
  [stat EXCEPT !.mu = IF stat.n = 0 THEN MuPrior ELSE ShrinkToward(MuPrior, stat.mu, stat.n)]

ApplyOverrides(stat, o) ==
  IF o = None THEN stat
  ELSE [stat EXCEPT !.ret = IF o.ret = None THEN @ ELSE o.ret, !.mu = IF o.ret = None THEN @ ELSE o.ret,
                    !.vol = IF o.vol = None THEN @ ELSE o.vol]

PairwiseCorrelation(a, b) ==
  LET common == DOMAIN a \cap DOMAIN b
      n == Cardinality(common)
      off(f, m) == f[m] - MapThenSumSet(LAMBDA k : f[k], common) \div n
      moment(f, g) == MapThenSumSet(LAMBDA m : off(f, m) * off(g, m), common)
      denom == Root(moment(a, a)) * Root(moment(b, b))
  IN IF n < CorrMin THEN CorrPrior
     ELSE IF denom = 0 THEN CorrPrior
     ELSE Max({-Unit, Min({Unit, ShrinkToward(CorrPrior, (moment(a, b) * Unit) \div denom, n)})})

\* The tighter of both sides' caps bounds a correlation.
CorrelationMatrix(series, overrides) ==
  [p \in (DOMAIN series) \X (DOMAIN series) |->
     IF p[1] = p[2] THEN Unit
     ELSE LET r == PairwiseCorrelation(series[p[1]], series[p[2]])
              caps == {overrides[s].cap : s \in {p[1], p[2]} \cap DOMAIN overrides} \ {None}
          IN IF caps = {} THEN r ELSE Max({-Min(caps), Min({Min(caps), r})})]

\* Cash earns the risk-free rate and moves with nothing.
InjectCash(market, rf) ==
  LET funds == DOMAIN market.stats
      all == funds \cup {Cash}
      months == UNION {DOMAIN market.series[a] : a \in funds}
      rho(p) == IF p[1] = p[2] THEN Unit ELSE IF Cash \in {p[1], p[2]} THEN 0 ELSE market.rho[p]
  IN [stats |-> [a \in all |-> IF a = Cash THEN [n |-> 999, ret |-> rf, mu |-> rf, vol |-> 0] ELSE market.stats[a]],
      rho |-> [p \in all \X all |-> rho(p)],
      series |-> [a \in all |-> IF a = Cash THEN [m \in months |-> rf \div 12] ELSE market.series[a]]]

(***************************************************************************)
(* A book's path: the months all its names share.                          *)
(***************************************************************************)
Active(w) == {a \in DOMAIN w : w[a] > 0}
MonthlySeries(w, series) ==
  IF Active(w) = {} THEN <<>>
  ELSE [m \in {k \in UNION {DOMAIN series[a] : a \in Active(w)} : \A a \in Active(w) : k \in DOMAIN series[a]} |->
          Plus([a \in Active(w) |-> w[a] * series[a][m]]) \div Whole]
NetOfFee(path, fee) == [m \in DOMAIN path |-> path[m] - fee \div 12]

PortfolioVol(w, market) ==
  LET part(i) == (w[i] * market.stats[i].vol) \div Whole
      var == MapThenSumSet(LAMBDA p : (part(p[1]) * part(p[2]) * market.rho[p]) \div Unit, (DOMAIN w) \X (DOMAIN w))
  IN Root(Max({0, var}))
ExpectedReturn(w, stats) == MapThenSumSet(LAMBDA a : w[a] * stats[a].mu, DOMAIN w) \div Whole

Capped(ratio) == Max({-RatioMax, Min({RatioMax, ratio})})
Sortino(returns, mar) ==
  LET short == {i \in DOMAIN returns : returns[i] < mar \div 12}
      dd == Root((12 * MapThenSumSet(LAMBDA i : (returns[i] - mar \div 12) * (returns[i] - mar \div 12), short)) \div Len(returns))
  IN IF Len(returns) < MinTail \/ Cardinality(short) < 2 THEN 0
     ELSE IF dd = 0 THEN 0 ELSE Capped(((Cagr(returns) - mar) * Unit) \div dd)
\* Active return over its deviation, in the months the benchmark has too.
InformationRatio(path, benchmark) ==
  LET active == [m \in DOMAIN path \cap DOMAIN benchmark |-> path[m] - benchmark[m]]
      n == Cardinality(DOMAIN active)
  IN IF n < MinTail THEN 0
     ELSE IF AnnualVol(active) = 0 THEN 0
     ELSE Capped((12 * Plus(active) * Unit) \div (n * AnnualVol(active)))
SharpeOf(ret, rf, vol) == IF vol > 0 THEN ((ret - rf) * Unit) \div vol ELSE 0

StressResults(w, series) ==
  LET path == MonthlySeries(w, series)
      rets(k) == InOrder([m \in {x \in DOMAIN path : x \in StressWindows[k][1]..StressWindows[k][2]} |-> path[m]])
  IN [k \in DOMAIN StressWindows |->
        IF Len(rets(k)) < MinStress THEN [months |-> Len(rets(k)), ret |-> None, drawdown |-> None]
        ELSE [months |-> Len(rets(k)), ret |-> Last(CumulativeCurve(rets(k))) - Unit, drawdown |-> MaxDrawdown(rets(k))]]

(***************************************************************************)
(* Limits of a book: caps, tickets (least weights of a held name), floors  *)
(* (holdings that must stay), the number of names and the illiquid sleeve. *)
(***************************************************************************)
Funds(w) == DOMAIN w \ {Cash}
Normal(w) == IF Plus(w) <= 0 THEN None ELSE LET s == Plus(w) IN [a \in DOMAIN w |-> (w[a] * Whole) \div s]
CapOf(lim, a) == IF a \in DOMAIN lim.cap THEN lim.cap[a] ELSE Whole
TicketOf(lim, a) == IF a \in DOMAIN lim.ticket THEN lim.ticket[a] ELSE 0
FloorOf(lim, a) == IF a \in DOMAIN lim.floor THEN lim.floor[a] ELSE 0
Protected(lim) == {a \in DOMAIN lim.floor : lim.floor[a] > 0}

TicketInfeasible(lim, a) == a # Cash /\ TicketOf(lim, a) > CapOf(lim, a)
BelowTicket(w, lim) == {a \in Funds(w) : w[a] > 0 /\ w[a] < TicketOf(lim, a)}
FloorsHold(w, lim) == \A a \in Protected(lim) : a \in DOMAIN w /\ w[a] + Slack >= lim.floor[a]

\* Names are dropped; their mass goes to cash, else to the others.
Drop(w, names) ==
  LET mass == MapThenSumSet(LAMBDA a : w[a], names)
      kept == [a \in DOMAIN w |-> IF a \in names THEN 0 ELSE w[a]]
  IN IF mass = 0 THEN w
     ELSE IF Cash \in DOMAIN w THEN [kept EXCEPT ![Cash] = @ + mass]
     ELSE Normal(kept)

EnforceMinInvestments(w, lim) == Drop(w, BelowTicket(w, lim) \ Protected(lim))

\* What is above its cap goes to the funds below theirs, else to cash.
ProjectRound(w, lim) ==
  LET over == {a \in DOMAIN w : w[a] > CapOf(lim, a)}
      excess == Plus([a \in over |-> w[a] - CapOf(lim, a)])
      below == {a \in DOMAIN w : w[a] < CapOf(lim, a)}
      free == IF below \ {Cash} # {} THEN below \ {Cash} ELSE below
      room == Plus([a \in free |-> CapOf(lim, a) - w[a]])
  IN IF over = {} THEN w
     ELSE IF free = {} THEN None
     ELSE [a \in DOMAIN w |-> IF a \in over THEN CapOf(lim, a)
                              ELSE IF a \in free THEN w[a] + (excess * (CapOf(lim, a) - w[a])) \div room
                              ELSE w[a]]
ProjectMaxWeights(w, lim) ==
  LET round[k \in 0..20] == IF k = 0 THEN w ELSE Then(round[k - 1], LAMBDA v : ProjectRound(v, lim))
  IN IF \A a \in DOMAIN w : w[a] <= CapOf(lim, a) THEN w
     ELSE Then(round[20], LAMBDA v : IF ProjectRound(v, lim) = v THEN v ELSE Normal(v))

\* The room of the held funds, whatever is in the illiquid sleeve.
AnyRoom(w, lim) == [a \in {x \in Funds(w) : w[x] > 0 /\ w[x] < CapOf(lim, x)} |-> CapOf(lim, a) - w[a]]

\* Cash is put into held funds below their caps, within the illiquid sleeve.
FundCapRoom(w, lim) ==
  LET held == {a \in Funds(w) : w[a] > 0 /\ w[a] < CapOf(lim, a)}
      sleeve == Max({0, lim.sleeve - MapThenSumSet(LAMBDA a : w[a], lim.illiquid \cap DOMAIN w)})
      open(a) == CapOf(lim, a) - w[a]
      wanted == Plus([a \in held \cap lim.illiquid |-> open(a)])
  IN [a \in held |-> IF a \notin lim.illiquid \/ lim.sleeve >= Whole \/ wanted <= sleeve THEN open(a)
                     ELSE (open(a) * sleeve) \div wanted]
DrainInto(w, room) ==
  LET take == Min({w[Cash], Plus(room)})
  IN IF Plus(room) <= 0 THEN w
     ELSE [a \in DOMAIN w |-> IF a = Cash THEN w[a] - take
                              ELSE IF a \in DOMAIN room THEN w[a] + (take * room[a]) \div Plus(room) ELSE w[a]]
DrainCash(w, lim) ==
  IF Cash \notin DOMAIN w THEN w ELSE Once(FundCapRoom(w, lim), LAMBDA room : DrainInto(w, room))

\* The smallest names beyond the limit are dropped; holdings are not.
ApplyCardinality(w, lim) ==
  LET held == {a \in Funds(w) : w[a] > 0}
      droppable == ByKey(held \ Protected(lim), w)
      extra == Cardinality(held) - lim.names
  IN IF extra <= 0 THEN w
     ELSE IF extra > Len(droppable) THEN None
     ELSE Drop(w, {droppable[i] : i \in 1..extra})

ApplyIlliquidCap(w, lim) ==
  LET names == lim.illiquid \cap DOMAIN w
      now == MapThenSumSet(LAMBDA a : w[a], names)
      scaled == [a \in DOMAIN w |-> IF a \in names THEN (w[a] * lim.sleeve) \div now ELSE w[a]]
      liquid == DOMAIN w \ names
      mass == MapThenSumSet(LAMBDA a : w[a], liquid)
  IN IF names = {} \/ lim.sleeve >= Whole \/ now <= lim.sleeve THEN w
     ELSE IF \E a \in names : FloorOf(lim, a) > scaled[a] + Slack THEN None
     ELSE IF Cash \in DOMAIN w THEN [scaled EXCEPT ![Cash] = @ + now - lim.sleeve]
     ELSE IF liquid = {} THEN None
     ELSE Normal([a \in DOMAIN w |-> IF a \in liquid /\ mass > 0 THEN w[a] + ((now - lim.sleeve) * w[a]) \div mass
                                     ELSE scaled[a]])

FeasiblePass(w, lim) ==
  LET ticketed(v) == EnforceMinInvestments(DrainCash(v, lim), lim)
      kept(v) == IF FloorsHold(v, lim) THEN Normal(v) ELSE None
      fewer(v) == ApplyCardinality(v, lim)
      liquid(v) == ApplyIlliquidCap(v, lim)
      drained(v) == DrainCash(v, lim)
  IN Then(Then(Then(Then(Then(ProjectMaxWeights(w, lim), ticketed), kept), fewer), liquid), drained)

\* Passes are made until one changes nothing, at most 24; then tickets have
\* the last word.
TicketsLast(w, lim) ==
  LET again == Then(EnforceMinInvestments(w, lim), LAMBDA v : ProjectMaxWeights(v, lim))
      settled == IF BelowTicket(w, lim) \subseteq Protected(lim) THEN w
                 ELSE Then(again, LAMBDA v : IF BelowTicket(v, lim) \subseteq Protected(lim) THEN v ELSE None)
  IN Then(settled, LAMBDA v : IF FloorsHold(v, lim) THEN Normal(v) ELSE None)
FinalizeFeasible(w, lim) ==
  LET start == Drop(w, {a \in Funds(w) \ Protected(lim) : TicketInfeasible(lim, a)})
      pass[k \in 0..24] ==
        IF k = 0 THEN [now |-> start, was |-> None]
        ELSE LET p == pass[k - 1]
             IN IF p.now = p.was THEN p
                ELSE [now |-> Then(p.now, LAMBDA v : FeasiblePass(v, lim)), was |-> IF k = 1 THEN None ELSE p.now]
  IN Then(pass[24].now, LAMBDA v : TicketsLast(v, lim))

(***************************************************************************)
(* Sampling. A draw is a sequence of <<fund, mass>>: the names a sample    *)
(* picks, in random order, and their Dirichlet masses.                     *)
(***************************************************************************)
Chosen(ids, draw, lim) ==
  LET musts == Protected(lim)
      picks == Sift(draw, LAMBDA d : d[1] \notin musts /\ d[1] \in ids)
      slots == Max({0, lim.names - Cardinality(musts)})
      picked == {picks[i][1] : i \in 1..Min({slots, Len(picks)})}
      chosen == {a \in musts \cup picked : a \in musts \/ ~TicketInfeasible(lim, a)}
      spare == {a \in ids : a = Cash \/ a \in musts}
  IN IF chosen # {} THEN chosen ELSE IF spare # {} THEN spare ELSE ids

\* Masses of the draw, on top of the holdings, no lower than the floors.
SampleWeights(ids, draw, lim, fixed, free, soft) ==
  LET held(a) == IF a \in DOMAIN fixed THEN fixed[a] ELSE 0
      chosen == Chosen(ids, draw, lim)
      mass == [a \in chosen |-> IF \E i \in DOMAIN draw : draw[i][1] = a
                                THEN (CHOOSE d \in Range(draw) : d[1] = a)[2] ELSE 1]
      drawn(a) == IF a \in chosen THEN (free * mass[a]) \div Plus(mass) ELSE 0
      softly(a) == IF drawn(a) > 0 /\ a \in DOMAIN soft /\ soft[a] <= CapOf(lim, a) THEN soft[a] ELSE 0
      floors == [a \in ids |-> Max({FloorOf(lim, a), softly(a), held(a)})]
      above(base, least) == [a \in ids |-> Max({0, base[a] - least[a]})]
      raised(least, over) == IF Plus(over) = 0 THEN Normal(least)
                             ELSE [a \in ids |-> least[a] + (over[a] * (Whole - Plus(least))) \div Plus(over)]
  IN IF free = 0 THEN Normal([a \in ids |-> held(a)])
     ELSE Given(floors, LAMBDA least :
            IF Plus(least) > Whole THEN None
            ELSE Then(Normal([a \in ids |-> held(a) + drawn(a)]), LAMBDA base : raised(least, above(base, least))))

(***************************************************************************)
(* Points and the frontier.                                                *)
(***************************************************************************)
\* A long path ranks a book by what it realised, a short one by the estimates.
Scored(w, market, path, benchmark, rf, fee) ==
  LET returns == InOrder(path)
      long == Len(returns) >= MinPath
      realised == AnnualVol(path)
      ranked == long /\ realised > 0
      mu == ExpectedReturn(w, market.stats) - fee
      blend == Plus([a \in DOMAIN w |-> w[a] * market.stats[a].ret]) \div Whole
      ret == IF Len(returns) >= MinTail THEN Cagr(returns) ELSE blend
      vol == IF ranked THEN realised ELSE PortfolioVol(w, market)
  IN [weights |-> w, ret |-> ret, mu |-> mu, vol |-> vol, months |-> Len(returns),
      sharpe |-> SharpeOf(IF ranked THEN ret ELSE mu, rf, vol),
      sortino |-> IF long THEN Sortino(returns, rf) ELSE 0,
      ir |-> IF long THEN InformationRatio(path, benchmark) ELSE 0,
      drawdown |-> MaxDrawdown(returns)]
PointOf(w, market, benchmark, rf, fee) ==
  Once(NetOfFee(MonthlySeries(w, market.series), fee), LAMBDA path : Scored(w, market, path, benchmark, rf, fee))

ByVol(points) ==
  Once(ByKey(DOMAIN points, [i \in DOMAIN points |-> points[i].vol]),
       LAMBDA order : [i \in DOMAIN order |-> points[order[i]]])
\* The best point of each volatility bin, whatever a calmer one returns.
EveryBin(byVol) ==
  LET widest == Max({byVol[i].vol : i \in DOMAIN byVol})
      bin(i) == IF widest = 0 THEN 0 ELSE (byVol[i].vol * Bins) \div widest
      bests == {i \in DOMAIN byVol : \A k \in DOMAIN byVol : bin(k) = bin(i) => byVol[k].ret <= byVol[i].ret}
  IN IF byVol = <<>> THEN <<>> ELSE Then(Ordered(bests, <), LAMBDA o : [j \in DOMAIN o |-> byVol[o[j]]])

\* Of the best point of each volatility bin, those that return more than every
\* calmer one. The least volatile of equals is taken.
FrontierOf(byVol) ==
  LET widest == Max({byVol[i].vol : i \in DOMAIN byVol})
      bin(i) == IF widest = 0 THEN 0 ELSE (byVol[i].vol * Bins) \div widest
      best(i) == \A k \in DOMAIN byVol : bin(k) = bin(i) =>
                   \/ byVol[k].ret < byVol[i].ret
                   \/ byVol[k].ret = byVol[i].ret /\ k >= i
      bests == {i \in DOMAIN byVol : best(i)}
      rising == {i \in bests : \A k \in bests : k < i => byVol[k].ret < byVol[i].ret}
  IN IF byVol = <<>> THEN <<>> ELSE Once(Ordered(rising, <), LAMBDA o : [j \in DOMAIN o |-> byVol[o[j]]])

\* The first of the points with the largest score, and a book of nothing if
\* there is no point.
FirstBest(points, Score(_)) ==
  points[CHOOSE i \in DOMAIN points : /\ \A k \in DOMAIN points : Score(points[k]) <= Score(points[i])
                                      /\ \A k \in 1..(i - 1) : Score(points[k]) < Score(points[i])]
Picks(ids, byVol) ==
  LET empty == [weights |-> [a \in ids |-> 0], ret |-> 0, mu |-> 0, vol |-> 0, months |-> 0, sharpe |-> 0,
                sortino |-> 0, ir |-> 0, drawdown |-> 0]
  IN IF byVol = <<>> THEN [o \in {"sharpe", "sortino", "ir", "min_dd", "min_var"} |-> empty]
     ELSE [sharpe |-> FirstBest(byVol, LAMBDA p : p.sharpe), sortino |-> FirstBest(byVol, LAMBDA p : p.sortino),
           ir |-> FirstBest(byVol, LAMBDA p : p.ir), min_dd |-> FirstBest(byVol, LAMBDA p : p.drawdown),
           min_var |-> FirstBest(byVol, LAMBDA p : -p.vol)]

ComputeFrontier(ids, draws, market, lim, fixed, free, soft, benchmark, rf, fee) ==
  LET total == Plus(lim.floor)
      scaled == IF total > Whole THEN [lim EXCEPT !.floor = Normal(lim.floor)] ELSE lim
      book(d) == IF Cardinality(ids) = 1 THEN [a \in ids |-> Whole]
                 ELSE Then(SampleWeights(ids, d, scaled, fixed, free, soft), LAMBDA w : FinalizeFeasible(w, scaled))
      points(books) == [i \in DOMAIN books |-> PointOf(books[i], market, benchmark, rf, fee)]
      books == Sift([i \in DOMAIN draws |-> book(draws[i])], LAMBDA w : w # None)
  IN Once(ByVol(points(books)), LAMBDA p : [points |-> p, frontier |-> FrontierOf(p), picks |-> Picks(ids, p)])
=============================================================================
