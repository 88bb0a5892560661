--------------------------- MODULE LocationBudget ---------------------------
(***************************************************************************)
(* _try_reserve_locations: the worker threads that build wind and shear    *)
(* grids claim locations against a rolling minute, because Open-Meteo      *)
(* counts every location as a call. The clock is read before the lock is   *)
(* taken, so claims are not made in the order of their time stamps.        *)
(*                                                                         *)
(* The deque holds one entry for each location, which is the code's deque  *)
(* of <<time, count>> pairs written out: a pair leaves as a whole.         *)
(***************************************************************************)
EXTENDS Absent, Integers, Sequences, FiniteSets

CONSTANTS Threads,
          Sizes,   \* locations of a grid
          Budget,  \* _LOCATION_BUDGET
          Window,  \* _LOCATION_WINDOW_S, in ticks
          Lag      \* bound: ticks from the reading of the clock to the claim

ASSUME BudgetAssumption ==
  /\ Sizes \subseteq Nat \ {0}
  /\ Budget \in Nat /\ Window \in Nat /\ Lag \in Nat
  /\ None \notin Threads

VARIABLES
  clock,   \* time.monotonic()
  events,  \* _location_events: the time stamp of each location
  lock,    \* the thread that holds _location_lock, or None
  phase,   \* where each thread is
  mark,    \* the "now" each thread has read, 0 outside the call
  wants,   \* the n of each thread, 0 outside the call
  grants   \* history: each location granted, its time stamp and when it was granted
budgetVars == <<clock, events, lock, phase, mark, wants, grants>>

Phases == {"idle", "waiting", "expiring"}

BudgetInit ==
  /\ clock = 0 /\ events = <<>> /\ lock = None /\ grants = <<>>
  /\ phase = [t \in Threads |-> "idle"]
  /\ mark = [t \in Threads |-> 0] /\ wants = [t \in Threads |-> 0]

ReadClock(t) ==
  /\ phase[t] = "idle"
  /\ phase' = [phase EXCEPT ![t] = "waiting"]
  /\ mark' = [mark EXCEPT ![t] = clock]
  /\ \E n \in Sizes : wants' = [wants EXCEPT ![t] = n]
  /\ UNCHANGED <<clock, events, lock, grants>>

MayLock == lock = None
Acquire(t) ==
  /\ phase[t] = "waiting" /\ MayLock
  /\ lock' = t
  /\ phase' = [phase EXCEPT ![t] = "expiring"]
  /\ UNCHANGED <<clock, events, mark, wants, grants>>

\* Mutant of Old: entries leave a good while too early.
OldEarly(t, at) == mark[t] - at >= Window - 2
\* Mutant of Old: entries never leave.
OldNever(t, at) == FALSE
Old(t, at) == mark[t] - at >= Window
FrontIsOld(t) == events # <<>> /\ Old(t, events[1])

Expire(t) ==
  /\ phase[t] = "expiring" /\ FrontIsOld(t)
  /\ events' = Tail(events)
  /\ UNCHANGED <<clock, lock, phase, mark, wants, grants>>

Fits(t) == Len(events) + wants[t] <= Budget
Times(n, x) == [i \in 1..n |-> x]

Decide(t) ==
  /\ phase[t] = "expiring" /\ ~FrontIsOld(t)
  /\ lock' = None
  /\ phase' = [phase EXCEPT ![t] = "idle"]
  /\ mark' = [mark EXCEPT ![t] = 0] /\ wants' = [wants EXCEPT ![t] = 0]
  /\ IF Fits(t)
     THEN /\ events' = events \o Times(wants[t], mark[t])
          /\ grants' = grants \o Times(wants[t], [mark |-> mark[t], at |-> clock])
     ELSE UNCHANGED <<events, grants>>
  /\ UNCHANGED clock

\* Time passes; a claim takes at most Lag ticks.
Tick ==
  /\ \A t \in Threads : phase[t] # "idle" => clock - mark[t] < Lag
  /\ clock' = clock + 1
  /\ UNCHANGED <<events, lock, phase, mark, wants, grants>>

BudgetNext == Tick \/ \E t \in Threads : ReadClock(t) \/ Acquire(t) \/ Expire(t) \/ Decide(t)

BudgetSpec == BudgetInit /\ [][BudgetNext]_budgetVars

(***************************************************************************)
(* Properties                                                              *)
(***************************************************************************)
\* The locations granted less than so many ticks ago.
GrantedWithin(ticks) == {i \in DOMAIN grants : clock - grants[i].at < ticks}

\* The lock is held by the one thread that expires old entries, and time
\* stamps are readings of the clock.
BudgetTypeOK ==
  /\ clock \in Nat /\ events \in Seq(Nat) /\ lock \in Threads \cup {None}
  /\ phase \in [Threads -> Phases] /\ mark \in [Threads -> Nat] /\ wants \in [Threads -> Nat]
  /\ grants \in Seq([mark : Nat, at : Nat])
  /\ \A t \in Threads : phase[t] = "expiring" <=> lock = t

\* "Claim n locations against the rolling minute budget": whatever the order
\* in which threads get the lock, no minute, less the time a claim may take,
\* sees more locations granted than the budget.
BudgetHolds == Cardinality(GrantedWithin(Window - Lag)) <= Budget

\* A grid is refused only when what was granted in the last minute, and the
\* time a claim may take, leaves no room for it: the first grid after a quiet
\* minute is admitted.
RefusalsAreJustified ==
  [][\A t \in Threads :
       phase[t] = "expiring" /\ phase'[t] = "idle" /\ grants' = grants =>
         Cardinality(GrantedWithin(Window + Lag)) + wants[t] > Budget]_budgetVars
=============================================================================
