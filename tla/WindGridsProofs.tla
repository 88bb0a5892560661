-------------------------- MODULE WindGridsProofs --------------------------
(***************************************************************************)
(* Proofs about WindGrids for every set of threads, every table of boxes   *)
(* and every size of the two caches. The inductive invariant:              *)
(*   Typed     types, and the bound of the chunk cache                     *)
(*   Fresh     what a request with refresh=true holds was fetched for it   *)
(*   Alone     a request nothing overlapped finds its entry in the cache   *)
(***************************************************************************)
EXTENDS WindGrids, TLAPS, SequenceTheorems

Grids == UNION {[S -> Nat] : S \in SUBSET Nat}
Entries == [key : DOMAIN Boxes, at : Nat, grid : Grids]
ChunkKeys == (DOMAIN Boxes) \X Nat
Chunks == [key : ChunkKeys, at : Nat]
Jobs == [state : {"open", "ok", "failed", "limited"}, at : Nat]
Stages == {"lookup", "drop", "touch", "reserve", "wait", "store", "order"}
Active == [stage : Stages, box : DOMAIN Boxes, refresh : BOOLEAN, since : Nat,
           item : Grids, jobs : Seq(Jobs), overlapped : BOOLEAN]
Answers == [status : {200}, grid : Grids, limited : BOOLEAN]
           \cup [status : {500}, overlapped : BOOLEAN]
Answered == [stage : {"done"}, refresh : BOOLEAN, since : Nat, reply : Answers]

Typed ==
  /\ now \in Nat
  /\ cached \in Seq(Entries)
  /\ bulk \in Seq(Chunks) /\ Len(bulk) <= BulkMax
  /\ calls \in [Threads -> {None} \cup Active \cup Answered]
  /\ strays \subseteq ChunkKeys

(* A refresh reads neither cache: its chunks, and the grid made of them,   *)
(* are no older than the request.                                          *)
Recent(since, grid) == \A i \in DOMAIN grid : grid[i] >= since

FreshCall(c) ==
  c.refresh =>
    /\ c.since <= now
    /\ c.stage \notin {"lookup", "drop", "touch"}
    /\ \A i \in DOMAIN c.jobs : c.jobs[i].state = "ok" => c.jobs[i].at >= c.since
    /\ c.stage \in {"store", "order"} => Recent(c.since, c.item)

Fresh == \A t \in Threads : InHand(t) => FreshCall(calls[t])

(* Nothing but the request itself changes the grid cache while it is alone.*)
Alone ==
  \A t \in Threads : InHand(t) /\ ~calls[t].overlapped =>
    /\ \A u \in Threads \ {t} : ~InHand(u)
    /\ calls[t].stage \in {"touch", "order"} => Has(cached, calls[t].box)

IInv == Typed /\ Fresh /\ Alone /\ RefreshReadsThrough /\ RaisesOnlyWhenOverlapped

-----------------------------------------------------------------------------
(* The operations of an OrderedDict keep its type, and say what it holds.  *)

LEMMA GetProperties ==
  ASSUME NEW S, NEW d \in Seq(S), NEW k, Has(d, k)
  PROVE  Place(d, k) \in 1 .. Len(d) /\ d[Place(d, k)].key = k /\ Get(d, k) \in S
<1>1. DOMAIN d = 1 .. Len(d)
  OBVIOUS
<1>2. PICK i \in DOMAIN d : d[i].key = k
  BY DEF Has
<1>3. Place(d, k) \in DOMAIN d /\ d[Place(d, k)].key = k
  BY <1>2 DEF Place
<1>. QED
  BY <1>1, <1>3 DEF Get

LEMMA PopProperties ==
  ASSUME NEW S, NEW d \in Seq(S), NEW k
  PROVE  /\ Pop(d, k) \in Seq(S)
         /\ Len(Pop(d, k)) = IF Has(d, k) THEN Len(d) - 1 ELSE Len(d)
<1>1. CASE ~Has(d, k)
  BY <1>1 DEF Pop
<1>2. CASE Has(d, k)
  <2>. DEFINE p == Place(d, k)
              a == SubSeq(d, 1, p - 1)
              b == SubSeq(d, p + 1, Len(d))
  <2>1. p \in 1 .. Len(d) /\ Len(d) \in Nat
    BY <1>2, GetProperties
  <2>. HIDE DEF p
  <2>2. a \in Seq(S) /\ Len(a) = p - 1
    <3>1. \A j \in 1 .. p - 1 : d[j] \in S
      BY <2>1
    <3>. QED
      BY <2>1, <3>1, SubSeqProperties
  <2>3. b \in Seq(S) /\ Len(b) = Len(d) - p
    <3>1. \A j \in p + 1 .. Len(d) : d[j] \in S
      BY <2>1
    <3>2. b \in Seq(S) /\ Len(b) = IF p + 1 <= Len(d) THEN Len(d) - (p + 1) + 1 ELSE 0
      BY <2>1, <3>1, SubSeqProperties
    <3>. QED
      BY <2>1, <3>2
  <2>4. Pop(d, k) = a \o b
    BY <1>2 DEF Pop, p
  <2>. HIDE DEF a, b
  <2>5. Pop(d, k) \in Seq(S) /\ Len(Pop(d, k)) = Len(a) + Len(b)
    BY <2>2, <2>3, <2>4, ConcatProperties
  <2>. QED
    BY <1>2, <2>1, <2>2, <2>3, <2>5
<1>. QED
  BY <1>1, <1>2

LEMMA MoveToEndProperties ==
  ASSUME NEW S, NEW d \in Seq(S), NEW k, Has(d, k)
  PROVE  MoveToEnd(d, k) \in Seq(S) /\ Len(MoveToEnd(d, k)) = Len(d)
<1>1. Pop(d, k) \in Seq(S) /\ Len(Pop(d, k)) = Len(d) - 1 /\ Get(d, k) \in S
  BY PopProperties, GetProperties
<1>2. Len(d) \in Nat
  OBVIOUS
<1>. QED
  BY <1>1, <1>2 DEF MoveToEnd

LEMMA AssignProperties ==
  ASSUME NEW S, NEW d \in Seq(S), NEW e \in S
  PROVE  Assign(d, e) \in Seq(S) /\ Has(Assign(d, e), e.key)
<1>1. CASE Has(d, e.key)
  <2>. DEFINE f == [i \in DOMAIN d |-> IF d[i].key = e.key THEN e ELSE d[i]]
  <2>1. Assign(d, e) = f
    BY <1>1 DEF Assign
  <2>2. PICK j \in DOMAIN d : d[j].key = e.key
    BY <1>1 DEF Has
  <2>3. f \in Seq(S)
    OBVIOUS
  <2>4. j \in DOMAIN f /\ f[j] = e
    BY <2>2
  <2>. QED
    BY <2>1, <2>3, <2>4 DEF Has
<1>2. CASE ~Has(d, e.key)
  <2>1. Assign(d, e) = Append(d, e)
    BY <1>2 DEF Assign
  <2>2. /\ Append(d, e) \in Seq(S) /\ Len(d) + 1 \in DOMAIN Append(d, e)
        /\ Append(d, e)[Len(d) + 1] = e
    OBVIOUS
  <2>. QED
    BY <2>1, <2>2 DEF Has
<1>. QED
  BY <1>1, <1>2

LEMMA TrimProperties ==
  ASSUME NEW S, NEW d \in Seq(S), NEW most \in Nat
  PROVE  Trim(d, most) \in Seq(S) /\ Len(Trim(d, most)) <= most
<1>1. CASE Len(d) > most
  <2>. DEFINE m == Len(d) - most + 1
  <2>1. m \in Int /\ 1 <= m /\ Len(d) \in Nat
    BY <1>1
  <2>2. \A i \in m .. Len(d) : d[i] \in S
    BY <2>1
  <2>3. /\ SubSeq(d, m, Len(d)) \in Seq(S)
        /\ Len(SubSeq(d, m, Len(d))) = IF m <= Len(d) THEN Len(d) - m + 1 ELSE 0
    <3>. HIDE DEF m
    <3>. QED
      BY <2>1, <2>2, SubSeqProperties
  <2>4. Trim(d, most) = SubSeq(d, m, Len(d))
    BY <1>1 DEF Trim
  <2>. QED
    BY <2>1, <2>3, <2>4
<1>2. CASE ~(Len(d) > most)
  BY <1>2 DEF Trim
<1>. QED
  BY <1>1, <1>2

-----------------------------------------------------------------------------
(* What a step of one request leaves to show: its new record has a type,   *)
(* is fresh, finds its entry if nothing overlapped it, and, once answered, *)
(* keeps the two promises.                                                 *)

LEMMA InitIInv == Init => IInv
<1>. SUFFICES ASSUME Init PROVE IInv
  OBVIOUS
<1>1. BulkMax \in Nat \ {0}
  BY WindGridsAssumption
<1>2. Typed
  BY <1>1 DEF Init, Typed
<1>3. \A t \in Threads : calls[t] = None
  BY DEF Init
<1>. QED
  BY <1>2, <1>3 DEF IInv, Fresh, Alone, InHand, At, RefreshReadsThrough, RaisesOnlyWhenOverlapped

LEMMA StepOfRequest ==
  ASSUME IInv, NEW t \in Threads, InHand(t), NEW new,
         calls' = [calls EXCEPT ![t] = new],
         new \in Active \cup Answered,
         new \in Active => new.refresh = calls[t].refresh /\ new.overlapped = calls[t].overlapped,
         new \in Active => FreshCall(new),
         new \in Active /\ ~new.overlapped /\ new.stage \in {"touch", "order"} =>
           Has(cached, new.box)',
         new \in Answered /\ new.refresh /\ new.reply.status = 200 =>
           Recent(new.since, new.reply.grid),
         new \in Answered /\ new.reply.status = 500 =>
           calls[t].overlapped /\ new.reply.overlapped,
         UNCHANGED now, cached' \in Seq(Entries), bulk' \in Seq(Chunks), Len(bulk') <= BulkMax,
         strays' \subseteq ChunkKeys
  PROVE  IInv'
<1>1. /\ calls'[t] = new
      /\ \A u \in Threads \ {t} : calls'[u] = calls[u]
      /\ calls' \in [Threads -> {None} \cup Active \cup Answered]
  BY DEF IInv, Typed
<1>2. Typed'
  BY <1>1 DEF IInv, Typed
<1>3. InHand(t)' => new \in Active
  BY <1>1 DEF InHand, Answered
<1>4. \A u \in Threads \ {t} : InHand(u)' = InHand(u)
  BY <1>1 DEF InHand
<1>5. Fresh'
  BY <1>1, <1>3, <1>4 DEF IInv, Fresh, FreshCall
<1>6. Alone'
  <2>. SUFFICES ASSUME NEW u \in Threads, InHand(u)', ~calls'[u].overlapped
                PROVE  /\ \A v \in Threads \ {u} : ~InHand(v)'
                       /\ calls'[u].stage \in {"touch", "order"} => Has(cached, calls[u].box)'
    BY DEF Alone
  <2>1. u = t
    BY <1>1, <1>4 DEF IInv, Alone
  <2>. QED
    BY <1>1, <1>3, <1>4, <2>1 DEF IInv, Alone
<1>7. new \in Answered => new \notin Active
  BY DEF Answered, Active, Stages
<1>8. RefreshReadsThrough'
  BY <1>1, <1>7 DEF IInv, RefreshReadsThrough, At, Recent, Active, Stages
<1>9. RaisesOnlyWhenOverlapped'
  BY <1>1, <1>7 DEF IInv, RaisesOnlyWhenOverlapped, At, Active, Stages
<1>. QED
  BY <1>2, <1>5, <1>6, <1>8, <1>9 DEF IInv

LEMMA CallInHand ==
  ASSUME IInv, NEW t \in Threads, NEW stage \in Stages, At(t, stage)
  PROVE  InHand(t) /\ calls[t] \in Active /\ FreshCall(calls[t])
<1>1. stage # "done"
  BY DEF Stages
<1>2. InHand(t)
  BY <1>1 DEF InHand, At
<1>3. calls[t] \in Active
  BY <1>2 DEF IInv, Typed, InHand, Answered
<1>. QED
  BY <1>2, <1>3 DEF IInv, Fresh

(* The three ways a request's record changes.                              *)
LEMMA GoesProperties ==
  ASSUME NEW t \in Threads, NEW stage \in Stages, calls[t] \in Active, Goes(t, stage)
  PROVE  \E new \in Active :
           /\ calls' = [calls EXCEPT ![t] = new]
           /\ new = [calls[t] EXCEPT !.stage = stage]
  BY DEF Goes, Active

LEMMA HoldsProperties ==
  ASSUME NEW t \in Threads, NEW stage \in Stages, NEW item \in Grids,
         calls[t] \in Active, Holds(t, stage, item)
  PROVE  \E new \in Active :
           /\ calls' = [calls EXCEPT ![t] = new]
           /\ new.box = calls[t].box /\ new.refresh = calls[t].refresh
           /\ new.since = calls[t].since /\ new.overlapped = calls[t].overlapped
           /\ new.stage = stage /\ new.item = item /\ new.jobs = <<>>
<1>. DEFINE staged == [calls[t] EXCEPT !.stage = stage]
            holding == [staged EXCEPT !.item = item]
            new == [holding EXCEPT !.jobs = <<>>]
<1>1. calls' = [calls EXCEPT ![t] = new]
  BY DEF Holds
<1>2. new \in Active
  <2>1. staged \in Active
    BY DEF Active
  <2>. HIDE DEF staged
  <2>2. holding \in Active
    BY <2>1 DEF Active
  <2>. HIDE DEF holding
  <2>3. ASSUME NEW jobs \in Seq(Jobs) PROVE [holding EXCEPT !.jobs = jobs] \in Active
    BY <2>2 DEF Active
  <2>4. <<>> \in Seq(Jobs)
    OBVIOUS
  <2>. QED
    BY <2>3, <2>4, Zenon
<1>3. /\ new.box = calls[t].box /\ new.refresh = calls[t].refresh
      /\ new.since = calls[t].since /\ new.overlapped = calls[t].overlapped
      /\ new.stage = stage /\ new.item = item /\ new.jobs = <<>>
  BY DEF Active
<1>. HIDE DEF new
<1>. QED
  BY <1>1, <1>2, <1>3

LEMMA RepliesProperties ==
  ASSUME NEW t \in Threads, NEW reply \in Answers, calls[t] \in Active, Replies(t, reply)
  PROVE  \E new \in Answered :
           /\ calls' = [calls EXCEPT ![t] = new]
           /\ new.refresh = calls[t].refresh /\ new.since = calls[t].since /\ new.reply = reply
<1>. DEFINE new == [stage |-> "done", refresh |-> calls[t].refresh,
                    since |-> calls[t].since, reply |-> reply]
<1>1. calls' = [calls EXCEPT ![t] = new]
  BY DEF Replies
<1>2. new \in Answered
  BY DEF Active, Answered
<1>. WITNESS new \in Answered
<1>. QED
  BY <1>1

(* An answered request keeps its promises: its grid is recent, or another  *)
(* request was in hand.                                                    *)
LEMMA RepliesIInv ==
  ASSUME IInv, NEW t \in Threads, InHand(t), calls[t] \in Active, NEW reply \in Answers,
         Replies(t, reply),
         reply.status = 200 /\ calls[t].refresh => Recent(calls[t].since, reply.grid),
         reply.status = 500 => calls[t].overlapped /\ reply.overlapped,
         UNCHANGED now, cached' \in Seq(Entries), bulk' \in Seq(Chunks), Len(bulk') <= BulkMax,
         strays' \subseteq ChunkKeys
  PROVE  IInv'
<1>1. PICK new \in Answered :
        /\ calls' = [calls EXCEPT ![t] = new]
        /\ new.refresh = calls[t].refresh /\ new.since = calls[t].since /\ new.reply = reply
  BY RepliesProperties
<1>2. new \notin Active
  BY DEF Answered, Active, Stages
<1>3. new \in Active \cup Answered
  OBVIOUS
<1>4. /\ new.refresh /\ new.reply.status = 200 => Recent(new.since, new.reply.grid)
      /\ new.reply.status = 500 => calls[t].overlapped /\ new.reply.overlapped
  BY <1>1
<1>5. /\ new \in Active => new.refresh = calls[t].refresh /\ new.overlapped = calls[t].overlapped
      /\ new \in Active => FreshCall(new)
      /\ new \in Active /\ ~new.overlapped /\ new.stage \in {"touch", "order"} =>
           Has(cached, new.box)'
  BY <1>2
<1>. QED
  BY <1>1, <1>3, <1>4, <1>5, StepOfRequest, ZenonT(60)

LEMMA ErrorIsAnAnswer ==
  ASSUME NEW t \in Threads, calls[t] \in Active
  PROVE  Error(t) \in Answers /\ Error(t).status = 500 /\ Error(t).overlapped = calls[t].overlapped
  BY DEF Error, Answers, Active

LEMMA GridIsAnAnswer ==
  ASSUME NEW grid \in Grids, NEW limited \in BOOLEAN
  PROVE  /\ Grid(grid, limited) \in Answers
         /\ Grid(grid, limited).status # 500 /\ Grid(grid, limited).grid = grid
  BY DEF Grid, Answers

LEMMA EmptyGrid == <<>> \in Grids /\ \A since \in Nat : Recent(since, <<>>)
  BY DEF Grids, Recent

-----------------------------------------------------------------------------
(* The steps of a request.                                                 *)

LEMMA CallIInv ==
  ASSUME IInv, NEW t \in Threads, Call(t)
  PROVE  IInv'
<1>. DEFINE rivals == {u \in Threads \ {t} : InHand(u)}
<1>1. PICK box \in DOMAIN Boxes, refresh \in BOOLEAN :
        calls' = [u \in Threads |->
                    IF u = t
                    THEN [stage |-> IF refresh THEN "reserve" ELSE "lookup", box |-> box,
                          refresh |-> refresh, since |-> IF refresh THEN now ELSE 0,
                          item |-> <<>>, jobs |-> <<>>, overlapped |-> rivals # {}]
                    ELSE IF u \in rivals THEN [calls[u] EXCEPT !.overlapped = TRUE] ELSE calls[u]]
  BY DEF Call
<1>2. UNCHANGED <<now, cached, bulk, strays>> /\ ~InHand(t)
  BY DEF Call, InHand
<1>. DEFINE new == calls'[t]
<1>3. /\ new \in Active /\ new.stage \in {"reserve", "lookup"}
      /\ new.refresh => new.stage = "reserve" /\ new.since = now
      /\ new.jobs = <<>> /\ new.overlapped = (rivals # {})
  <2>1. now \in Nat
    BY DEF IInv, Typed
  <2>2. new = [stage |-> IF refresh THEN "reserve" ELSE "lookup", box |-> box,
               refresh |-> refresh, since |-> IF refresh THEN now ELSE 0,
               item |-> <<>>, jobs |-> <<>>, overlapped |-> rivals # {}]
    BY <1>1
  <2>. HIDE DEF new, rivals
  <2>3. (rivals # {}) \in BOOLEAN
    OBVIOUS
  <2>. QED
    BY <2>1, <2>2, <2>3, EmptyGrid DEF Active, Stages
<1>4. \A u \in Threads \ {t} : ~InHand(u) => calls'[u] = calls[u] /\ ~InHand(u)'
  BY <1>1 DEF InHand
<1>5. ASSUME NEW u \in Threads \ {t}, InHand(u)
      PROVE  calls[u] \in Active /\ calls'[u] = [calls[u] EXCEPT !.overlapped = TRUE]
  <2>1. calls[u] \in Active
    BY <1>5 DEF IInv, Typed, InHand, Answered
  <2>. QED
    BY <1>1, <1>5, <2>1
<1>. HIDE DEF new, rivals
<1>6. Typed'
  <2>1. \A u \in Threads : calls'[u] \in {None} \cup Active \cup Answered
    <3>. SUFFICES ASSUME NEW u \in Threads PROVE calls'[u] \in {None} \cup Active \cup Answered
      OBVIOUS
    <3>1. CASE u = t
      BY <1>3, <3>1 DEF new
    <3>2. CASE u # t /\ InHand(u)
      <4>1. calls[u] \in Active /\ calls'[u] = [calls[u] EXCEPT !.overlapped = TRUE]
        BY <1>5, <3>2
      <4>. QED
        BY <4>1 DEF Active
    <3>3. CASE u # t /\ ~InHand(u)
      BY <1>4, <3>3 DEF IInv, Typed
    <3>. QED
      BY <3>1, <3>2, <3>3
  <2>2. calls' \in [Threads -> {None} \cup Active \cup Answered]
    BY <1>1, <2>1
  <2>. QED
    BY <1>2, <2>2 DEF IInv, Typed
<1>7. Fresh'
  <2>. SUFFICES ASSUME NEW u \in Threads, InHand(u)' PROVE FreshCall(calls[u])'
    BY DEF Fresh
  <2>1. CASE u = t
    BY <1>2, <1>3, <2>1 DEF FreshCall, new, IInv, Typed
  <2>2. CASE u # t
    <3>1. InHand(u) /\ FreshCall(calls[u])
      BY <1>4, <2>2 DEF IInv, Fresh
    <3>. QED
      BY <1>2, <1>5, <2>2, <3>1 DEF FreshCall, Active
  <2>. QED
    BY <2>1, <2>2
<1>8. Alone'
  <2>. SUFFICES ASSUME NEW u \in Threads, InHand(u)', ~calls'[u].overlapped
                PROVE  /\ \A v \in Threads \ {u} : ~InHand(v)'
                       /\ calls'[u].stage \notin {"touch", "order"}
    BY DEF Alone
  <2>1. u = t
    BY <1>4, <1>5 DEF Active
  <2>2. rivals = {}
    BY <1>3, <2>1 DEF new
  <2>. QED
    BY <1>3, <1>4, <2>1, <2>2 DEF new, rivals
<1>9. \A u \in Threads : At(u, "done")' => calls'[u] = calls[u] /\ At(u, "done")
  <2>1. ~At(t, "done")'
    BY <1>3 DEF At, new
  <2>2. ASSUME NEW u \in Threads \ {t}, InHand(u) PROVE ~At(u, "done")'
    BY <1>5, <2>2 DEF At, Active, Stages
  <2>. QED
    BY <1>4, <2>1, <2>2 DEF At
<1>. QED
  BY <1>6, <1>7, <1>8, <1>9 DEF IInv, RefreshReadsThrough, RaisesOnlyWhenOverlapped

LEMMA LookupIInv ==
  ASSUME IInv, NEW t \in Threads, Lookup(t)
  PROVE  IInv'
<1>1. InHand(t) /\ calls[t] \in Active /\ FreshCall(calls[t]) /\ calls[t].stage = "lookup"
  BY CallInHand DEF Lookup, At, Stages
<1>2. ~calls[t].refresh
  BY <1>1 DEF FreshCall
<1>3. UNCHANGED <<now, cached, bulk, strays>>
  BY DEF Lookup
<1>4. /\ cached' \in Seq(Entries) /\ bulk' \in Seq(Chunks) /\ Len(bulk') <= BulkMax
      /\ strays' \subseteq ChunkKeys
  BY <1>3 DEF IInv, Typed
<1>5. ASSUME NEW stage \in {"reserve", "drop"}, Goes(t, stage)
      PROVE  IInv'
  <2>1. PICK new \in Active :
          calls' = [calls EXCEPT ![t] = new] /\ new = [calls[t] EXCEPT !.stage = stage]
    BY <1>1, <1>5, GoesProperties DEF Stages
  <2>2. /\ new.refresh = calls[t].refresh /\ new.overlapped = calls[t].overlapped
        /\ new.stage = stage
    BY <1>1, <2>1 DEF Active
  <2>3. new \notin Answered /\ FreshCall(new) /\ new.stage \notin {"touch", "order"}
    BY <1>2, <2>2 DEF Active, Answered, Stages, FreshCall
  <2>. QED
    BY <1>1, <1>3, <1>4, <2>1, <2>2, <2>3, StepOfRequest, ZenonT(60)
<1>6. ASSUME Has(cached, calls[t].box), Holds(t, "touch", Get(cached, calls[t].box).grid)
      PROVE  IInv'
  <2>1. PICK grid \in Grids : grid = Get(cached, calls[t].box).grid
    <3>1. Get(cached, calls[t].box) \in Entries
      BY <1>6, GetProperties DEF IInv, Typed
    <3>. QED
      BY <3>1 DEF Entries
  <2>2. PICK new \in Active :
          /\ calls' = [calls EXCEPT ![t] = new]
          /\ new.box = calls[t].box /\ new.refresh = calls[t].refresh
          /\ new.overlapped = calls[t].overlapped
    <3>1. Holds(t, "touch", grid) /\ "touch" \in Stages
      BY <1>6, <2>1 DEF Stages
    <3>. QED
      BY <1>1, <3>1, HoldsProperties
  <2>3. /\ new.refresh = calls[t].refresh /\ new.overlapped = calls[t].overlapped
        /\ new.box = calls[t].box
    BY <2>2
  <2>4. new \notin Answered /\ FreshCall(new)
    BY <1>2, <2>3 DEF Active, Answered, Stages, FreshCall
  <2>5. Has(cached, new.box)'
    BY <1>3, <1>6, <2>3 DEF Has
  <2>. QED
    BY <1>1, <1>3, <1>4, <2>2, <2>3, <2>4, <2>5, StepOfRequest, ZenonT(60)
<1>. QED
  BY <1>5, <1>6 DEF Lookup

LEMMA DropExpiredIInv ==
  ASSUME IInv, NEW t \in Threads, DropExpired(t)
  PROVE  IInv'
<1>1. InHand(t) /\ calls[t] \in Active /\ FreshCall(calls[t]) /\ calls[t].stage = "drop"
  BY CallInHand DEF DropExpired, At, Stages
<1>2. ~calls[t].refresh
  BY <1>1 DEF FreshCall
<1>3. UNCHANGED <<now, bulk, strays>> /\ cached' = Pop(cached, calls[t].box) /\ Goes(t, "reserve")
  BY DEF DropExpired, AfterDrop
<1>4. /\ cached' \in Seq(Entries) /\ bulk' \in Seq(Chunks) /\ Len(bulk') <= BulkMax
      /\ strays' \subseteq ChunkKeys
  BY <1>3, PopProperties DEF IInv, Typed
<1>5. PICK new \in Active :
        calls' = [calls EXCEPT ![t] = new] /\ new = [calls[t] EXCEPT !.stage = "reserve"]
  BY <1>1, <1>3, GoesProperties DEF Stages
<1>6. /\ new.refresh = calls[t].refresh /\ new.overlapped = calls[t].overlapped
      /\ new.stage = "reserve"
  BY <1>1, <1>5 DEF Active
<1>7. new \notin Answered /\ FreshCall(new) /\ new.stage \notin {"touch", "order"}
  BY <1>2, <1>6 DEF Active, Answered, Stages, FreshCall
<1>. QED
  BY <1>1, <1>3, <1>4, <1>5, <1>6, <1>7, StepOfRequest, ZenonT(60)

LEMMA TouchIInv ==
  ASSUME IInv, NEW t \in Threads, Touch(t)
  PROVE  IInv'
<1>1. InHand(t) /\ calls[t] \in Active /\ FreshCall(calls[t]) /\ calls[t].stage = "touch"
  BY CallInHand DEF Touch, At, Stages
<1>2. ~calls[t].refresh
  BY <1>1 DEF FreshCall
<1>3. UNCHANGED <<now, bulk, strays>>
  BY DEF Touch
<1>4. bulk' \in Seq(Chunks) /\ Len(bulk') <= BulkMax /\ strays' \subseteq ChunkKeys
  BY <1>3 DEF IInv, Typed
<1>5. CASE Has(cached, calls[t].box)
  <2>1. /\ cached' = MoveToEnd(cached, calls[t].box)
        /\ Replies(t, Grid(calls[t].item, FALSE))
    BY <1>5 DEF Touch
  <2>2. cached' \in Seq(Entries)
    BY <1>5, <2>1, MoveToEndProperties DEF IInv, Typed
  <2>3. calls[t].item \in Grids
    BY <1>1 DEF Active
  <2>4. Grid(calls[t].item, FALSE) \in Answers /\ Grid(calls[t].item, FALSE).status # 500
    BY <2>3, GridIsAnAnswer
  <2>. QED
    BY <1>1, <1>2, <1>3, <1>4, <2>1, <2>2, <2>4, RepliesIInv
<1>6. CASE ~Has(cached, calls[t].box)
  <2>1. cached' = cached /\ Replies(t, Error(t))
    BY <1>6 DEF Touch
  <2>2. cached' \in Seq(Entries)
    BY <2>1 DEF IInv, Typed
  <2>3. calls[t].overlapped
    BY <1>1, <1>6 DEF IInv, Alone
  <2>. QED
    BY <1>1, <1>2, <1>3, <1>4, <2>1, <2>2, <2>3, ErrorIsAnAnswer, RepliesIInv
<1>. QED
  BY <1>5, <1>6

LEMMA ReserveIInv ==
  ASSUME IInv, NEW t \in Threads, Reserve(t)
  PROVE  IInv'
<1>1. InHand(t) /\ calls[t] \in Active /\ FreshCall(calls[t])
  BY CallInHand DEF Reserve, Stages
<1>2. UNCHANGED <<now, cached, bulk, strays>>
  BY DEF Reserve
<1>3. /\ cached' \in Seq(Entries) /\ bulk' \in Seq(Chunks) /\ Len(bulk') <= BulkMax
      /\ strays' \subseteq ChunkKeys
  BY <1>2 DEF IInv, Typed
<1>. DEFINE open == [i \in 1 .. Boxes[calls[t].box] |-> [state |-> "open", at |-> 0]]
<1>4. CASE calls' = [calls EXCEPT ![t] = [calls[t] EXCEPT !.stage = "wait", !.jobs = open]]
  <2>1. open \in Seq(Jobs) /\ \A i \in DOMAIN open : open[i].state # "ok"
    <3>1. Boxes[calls[t].box] \in Nat
      BY <1>1, WindGridsAssumption DEF Active
    <3>2. [state |-> "open", at |-> 0] \in Jobs
      BY DEF Jobs
    <3>. QED
      BY <3>1, <3>2
  <2>. HIDE DEF open
  <2>2. PICK new : new = [calls[t] EXCEPT !.stage = "wait", !.jobs = open]
    OBVIOUS
  <2>3. /\ new \in Active /\ new.refresh = calls[t].refresh /\ new.since = calls[t].since
        /\ new.overlapped = calls[t].overlapped /\ new.stage = "wait" /\ new.jobs = open
    BY <1>1, <2>1, <2>2 DEF Active, Stages
  <2>4. new \notin Answered /\ FreshCall(new) /\ new.stage \notin {"touch", "order"}
    BY <1>1, <2>1, <2>3 DEF Answered, FreshCall
  <2>. QED
    BY <1>1, <1>2, <1>3, <1>4, <2>2, <2>3, <2>4, StepOfRequest, ZenonT(60)
<1>5. CASE Replies(t, Grid(<<>>, TRUE))
  <2>. DEFINE reply == Grid(<<>>, TRUE)
  <2>1. reply \in Answers /\ reply.status # 500 /\ reply.grid = <<>>
    BY EmptyGrid DEF Grid, Answers
  <2>2. Recent(calls[t].since, <<>>)
    BY <1>1, EmptyGrid DEF Active
  <2>3. Replies(t, reply)
    BY <1>5
  <2>. HIDE DEF reply
  <2>. QED
    BY <1>1, <1>2, <1>3, <2>1, <2>2, <2>3, RepliesIInv
<1>. QED
  BY <1>4, <1>5 DEF Reserve

(* A chunk is stored under its key, and the chunk cache stays in bounds.   *)
LEMMA StoredProperties ==
  ASSUME IInv, NEW key \in ChunkKeys, NEW at \in Nat
  PROVE  Stored(key, at) \in Seq(Chunks) /\ Len(Stored(key, at)) <= BulkMax
<1>1. [key |-> key, at |-> at] \in Chunks /\ BulkMax \in Nat
  BY WindGridsAssumption DEF Chunks
<1>2. Assign(bulk, [key |-> key, at |-> at]) \in Seq(Chunks)
  BY <1>1, AssignProperties DEF IInv, Typed
<1>. QED
  BY <1>1, <1>2, TrimProperties DEF Stored

LEMMA ChunkEndsIInv ==
  ASSUME IInv, NEW t \in Threads, At(t, "wait"), NEW i \in DOMAIN calls[t].jobs,
         NEW state \in {"ok", "failed", "limited"}, NEW at \in Nat, ChunkEnds(t, i, state, at),
         state = "ok" /\ calls[t].refresh => at = now,
         bulk' \in Seq(Chunks), Len(bulk') <= BulkMax
  PROVE  IInv'
<1>1. InHand(t) /\ calls[t] \in Active /\ FreshCall(calls[t])
  BY CallInHand DEF Stages
<1>2. UNCHANGED <<now, cached, strays>>
  BY DEF ChunkEnds
<1>3. cached' \in Seq(Entries) /\ strays' \subseteq ChunkKeys
  BY <1>2 DEF IInv, Typed
<1>. DEFINE jobs == [calls[t].jobs EXCEPT ![i] = [state |-> state, at |-> at]]
            rec == [calls[t] EXCEPT !.jobs = jobs]
<1>4. calls' = [calls EXCEPT ![t] = rec]
  BY DEF ChunkEnds
<1>5. /\ jobs \in Seq(Jobs) /\ DOMAIN jobs = DOMAIN calls[t].jobs
      /\ jobs[i].state = state /\ jobs[i].at = at
      /\ \A j \in DOMAIN jobs \ {i} : jobs[j] = calls[t].jobs[j]
  <2>1. calls[t].jobs \in Seq(Jobs)
    BY <1>1 DEF Active
  <2>2. [state |-> state, at |-> at] \in Jobs
    BY DEF Jobs
  <2>. QED
    BY <2>1, <2>2
<1>. HIDE DEF jobs
<1>6. PICK new : new = rec
  OBVIOUS
<1>7. /\ new \in Active /\ new.refresh = calls[t].refresh /\ new.since = calls[t].since
      /\ new.overlapped = calls[t].overlapped /\ new.stage = "wait" /\ new.jobs = jobs
  BY <1>1, <1>5, <1>6 DEF Active, At
<1>8. new \notin Answered
  BY <1>7 DEF Answered
<1>9. FreshCall(new)
  BY <1>1, <1>5, <1>7 DEF FreshCall, IInv, Typed
<1>10. new.stage \notin {"touch", "order"}
  BY <1>7
<1>. HIDE DEF rec
<1>. QED
  BY <1>1, <1>2, <1>3, <1>4, <1>6, <1>7, <1>8, <1>9, <1>10, StepOfRequest, ZenonT(60)

(* The key of a request's chunk.                                           *)
LEMMA KeyIsAKey ==
  ASSUME IInv, NEW t \in Threads, At(t, "wait"), NEW i \in DOMAIN calls[t].jobs
  PROVE  Key(t, i) \in ChunkKeys
<1>1. calls[t] \in Active
  BY CallInHand DEF Stages
<1>2. calls[t].box \in DOMAIN Boxes /\ calls[t].jobs \in Seq(Jobs)
  BY <1>1 DEF Active
<1>3. i \in Nat
  BY <1>2
<1>. QED
  BY <1>2, <1>3 DEF Key, ChunkKeys

LEMMA FetchIInv ==
  ASSUME IInv, NEW t \in Threads, Fetch(t)
  PROVE  IInv'
<1>1. At(t, "wait")
  BY DEF Fetch
<1>2. PICK i \in DOMAIN calls[t].jobs : ChunkHit(t, i) \/ ChunkFetched(t, i)
  BY DEF Fetch
<1>3. Key(t, i) \in ChunkKeys
  BY <1>1, KeyIsAKey
<1>4. bulk \in Seq(Chunks) /\ Len(bulk) <= BulkMax /\ now \in Nat
  BY DEF IInv, Typed
<1>5. CASE ChunkHit(t, i)
  <2>1. ~calls[t].refresh /\ Has(bulk, Key(t, i))
    BY <1>5 DEF ChunkHit, MayHit
  <2>2. PICK at \in Nat : at = Get(bulk, Key(t, i)).at
    <3>1. Get(bulk, Key(t, i)) \in Chunks
      BY <1>4, <2>1, GetProperties
    <3>. QED
      BY <3>1 DEF Chunks
  <2>3. ChunkEnds(t, i, "ok", at) /\ bulk' = MoveToEnd(bulk, Key(t, i))
    BY <1>5, <2>2 DEF ChunkHit
  <2>4. bulk' \in Seq(Chunks) /\ Len(bulk') <= BulkMax
    BY <1>4, <2>1, <2>3, MoveToEndProperties
  <2>. QED
    BY <1>1, <2>1, <2>3, <2>4, ChunkEndsIInv
<1>6. CASE ChunkFetched(t, i)
  <2>1. CASE ChunkEnds(t, i, "ok", now) /\ bulk' = Stored(Key(t, i), now)
    <3>1. PICK at \in Nat : at = now
      BY <1>4
    <3>2. bulk' \in Seq(Chunks) /\ Len(bulk') <= BulkMax
      BY <1>3, <2>1, <3>1, StoredProperties
    <3>3. ChunkEnds(t, i, "ok", at)
      BY <2>1, <3>1
    <3>. QED
      BY <1>1, <3>1, <3>2, <3>3, ChunkEndsIInv
  <2>2. ASSUME NEW state \in {"failed", "limited"}, ChunkEnds(t, i, state, 0), UNCHANGED bulk
        PROVE  IInv'
    BY <1>1, <1>4, <2>2, ChunkEndsIInv
  <2>. QED
    BY <1>6, <2>1, <2>2 DEF ChunkFetched
<1>. QED
  BY <1>2, <1>5, <1>6

LEMMA WaitReturnsIInv ==
  ASSUME IInv, NEW t \in Threads, WaitReturns(t)
  PROVE  IInv'
<1>1. InHand(t) /\ calls[t] \in Active /\ FreshCall(calls[t]) /\ At(t, "wait")
  BY CallInHand DEF WaitReturns, Stages
<1>. DEFINE jobs == calls[t].jobs
            Are(state) == {i \in DOMAIN jobs : jobs[i].state = state}
            grid == [i \in Are("ok") |-> jobs[i].at]
<1>2. /\ UNCHANGED <<now, cached, bulk>>
      /\ strays' = strays \cup {Key(t, i) : i \in Are("open")}
      /\ Holds(t, "store", grid) \/ Replies(t, Grid(grid, Are("limited") # {}))
  BY DEF WaitReturns
<1>3. jobs \in Seq(Jobs)
  BY <1>1 DEF Active
<1>4. grid \in Grids
  <2>1. Are("ok") \in SUBSET Nat
    BY <1>3
  <2>2. \A i \in Are("ok") : jobs[i].at \in Nat
    <3>1. \A i \in Are("ok") : jobs[i] \in Jobs
      BY <1>3
    <3>. QED
      BY <3>1 DEF Jobs
  <2>3. grid \in [Are("ok") -> Nat]
    BY <2>2
  <2>. QED
    BY <2>1, <2>3 DEF Grids
<1>5. calls[t].refresh => Recent(calls[t].since, grid)
  BY <1>1 DEF FreshCall, Recent
<1>6. /\ cached' \in Seq(Entries) /\ bulk' \in Seq(Chunks) /\ Len(bulk') <= BulkMax
      /\ strays' \subseteq ChunkKeys
  <2>1. \A i \in Are("open") : Key(t, i) \in ChunkKeys
    BY <1>1, KeyIsAKey
  <2>. QED
    BY <1>2, <2>1 DEF IInv, Typed
<1>7. PICK limited \in BOOLEAN : limited = (Are("limited") # {})
  OBVIOUS
<1>8. PICK item \in Grids : item = grid
  BY <1>4
<1>9. /\ Holds(t, "store", item) \/ Replies(t, Grid(item, limited))
      /\ calls[t].refresh => Recent(calls[t].since, item)
  BY <1>2, <1>5, <1>7, <1>8
<1>. HIDE DEF jobs, Are, grid
<1>10. CASE Holds(t, "store", item)
  <2>1. PICK new \in Active :
          /\ calls' = [calls EXCEPT ![t] = new]
          /\ new.refresh = calls[t].refresh /\ new.since = calls[t].since
          /\ new.overlapped = calls[t].overlapped
          /\ new.stage = "store" /\ new.item = item /\ new.jobs = <<>>
    BY <1>1, <1>10, HoldsProperties DEF Stages
  <2>2. new \notin Answered /\ new.stage \notin {"touch", "order"}
    BY <2>1 DEF Answered
  <2>3. FreshCall(new)
    BY <1>1, <1>9, <2>1 DEF FreshCall
  <2>. QED
    BY <1>1, <1>2, <1>6, <2>1, <2>2, <2>3, StepOfRequest, ZenonT(60)
<1>11. CASE Replies(t, Grid(item, limited))
  <2>. DEFINE reply == Grid(item, limited)
  <2>1. reply \in Answers /\ reply.status # 500 /\ reply.grid = item
    BY GridIsAnAnswer
  <2>2. Replies(t, reply)
    BY <1>11
  <2>. HIDE DEF reply
  <2>. QED
    BY <1>1, <1>2, <1>6, <1>9, <2>1, <2>2, RepliesIInv
<1>. QED
  BY <1>9, <1>10, <1>11

LEMMA StoreIInv ==
  ASSUME IInv, NEW t \in Threads, Store(t)
  PROVE  IInv'
<1>1. InHand(t) /\ calls[t] \in Active /\ FreshCall(calls[t]) /\ calls[t].stage = "store"
  BY CallInHand DEF Store, At, Stages
<1>. DEFINE entry == [key |-> calls[t].box, at |-> now, grid |-> calls[t].item]
<1>2. /\ UNCHANGED <<now, bulk, strays>>
      /\ cached' = Assign(cached, entry) /\ Goes(t, "order")
  BY DEF Store
<1>3. entry \in Entries
  BY <1>1 DEF Entries, Active, IInv, Typed
<1>4. PICK box : box = calls[t].box /\ box = entry.key
  OBVIOUS
<1>. HIDE DEF entry
<1>5. /\ cached' \in Seq(Entries) /\ \E i \in DOMAIN cached' : cached'[i].key = box
      /\ bulk' \in Seq(Chunks) /\ Len(bulk') <= BulkMax /\ strays' \subseteq ChunkKeys
  <2>1. Assign(cached, entry) \in Seq(Entries) /\ Has(Assign(cached, entry), box)
    BY <1>3, <1>4, AssignProperties DEF IInv, Typed
  <2>. QED
    BY <1>2, <2>1 DEF IInv, Typed, Has
<1>6. PICK new \in Active :
        calls' = [calls EXCEPT ![t] = new] /\ new = [calls[t] EXCEPT !.stage = "order"]
  BY <1>1, <1>2, GoesProperties DEF Stages
<1>7. /\ new.refresh = calls[t].refresh /\ new.overlapped = calls[t].overlapped
      /\ new.stage = "order" /\ new.since = calls[t].since /\ new.item = calls[t].item
      /\ new.jobs = calls[t].jobs /\ new.box = calls[t].box
  BY <1>1, <1>6 DEF Active
<1>8. new \notin Answered /\ FreshCall(new)
  BY <1>1, <1>7 DEF Answered, FreshCall
<1>9. Has(cached, new.box)'
  BY <1>4, <1>5, <1>7 DEF Has
<1>. QED
  BY <1>1, <1>2, <1>5, <1>6, <1>7, <1>8, <1>9, StepOfRequest, ZenonT(60)

LEMMA OrderIInv ==
  ASSUME IInv, NEW t \in Threads, Order(t)
  PROVE  IInv'
<1>1. InHand(t) /\ calls[t] \in Active /\ FreshCall(calls[t]) /\ calls[t].stage = "order"
  BY CallInHand DEF Order, At, Stages
<1>2. UNCHANGED <<now, bulk, strays>>
  BY DEF Order
<1>3. bulk' \in Seq(Chunks) /\ Len(bulk') <= BulkMax /\ strays' \subseteq ChunkKeys
  BY <1>2 DEF IInv, Typed
<1>4. calls[t].refresh => Recent(calls[t].since, calls[t].item)
  BY <1>1 DEF FreshCall
<1>5. CASE Has(cached, calls[t].box)
  <2>1. /\ cached' = Trim(MoveToEnd(cached, calls[t].box), GridMax)
        /\ Replies(t, Grid(calls[t].item, FALSE))
    BY <1>5 DEF Order
  <2>2. cached' \in Seq(Entries)
    <3>1. MoveToEnd(cached, calls[t].box) \in Seq(Entries) /\ GridMax \in Nat
      BY <1>5, MoveToEndProperties, WindGridsAssumption DEF IInv, Typed
    <3>. QED
      BY <2>1, <3>1, TrimProperties
  <2>. DEFINE reply == Grid(calls[t].item, FALSE)
  <2>3. calls[t].item \in Grids
    BY <1>1 DEF Active
  <2>4. reply \in Answers /\ reply.status # 500 /\ reply.grid = calls[t].item
    BY <2>3, GridIsAnAnswer
  <2>5. Replies(t, reply)
    BY <2>1
  <2>. HIDE DEF reply
  <2>. QED
    BY <1>1, <1>2, <1>3, <1>4, <2>2, <2>4, <2>5, RepliesIInv
<1>6. CASE ~Has(cached, calls[t].box)
  <2>1. cached' = cached /\ Replies(t, Error(t))
    BY <1>6 DEF Order
  <2>2. cached' \in Seq(Entries)
    BY <2>1 DEF IInv, Typed
  <2>3. calls[t].overlapped
    BY <1>1, <1>6 DEF IInv, Alone
  <2>4. /\ Error(t) \in Answers /\ Error(t).status # 200
        /\ Error(t).overlapped = calls[t].overlapped
    BY <1>1, ErrorIsAnAnswer
  <2>. QED
    BY <1>1, <1>2, <1>3, <2>1, <2>2, <2>3, <2>4, RepliesIInv
<1>. QED
  BY <1>5, <1>6

-----------------------------------------------------------------------------
(* The other steps: a client leaves, a chunk nobody waits for ends, three  *)
(* minutes pass, or nothing happens.                                       *)

LEMMA LeaveIInv ==
  ASSUME IInv, NEW t \in Threads, Leave(t)
  PROVE  IInv'
<1>1. /\ ~InHand(t) /\ calls' = [calls EXCEPT ![t] = None]
      /\ UNCHANGED <<now, cached, bulk, strays>>
  BY DEF Leave, At, InHand
<1>2. /\ calls' \in [Threads -> {None} \cup Active \cup Answered] /\ calls'[t] = None
      /\ \A u \in Threads \ {t} : calls'[u] = calls[u]
  BY <1>1 DEF IInv, Typed
<1>3. \A u \in Threads : InHand(u)' => InHand(u) /\ calls'[u] = calls[u]
  BY <1>2 DEF InHand
<1>4. Typed' /\ Fresh'
  BY <1>1, <1>2, <1>3 DEF IInv, Typed, Fresh, FreshCall
<1>5. Alone'
  BY <1>1, <1>2, <1>3 DEF IInv, Alone, Has
<1>6. RefreshReadsThrough' /\ RaisesOnlyWhenOverlapped'
  BY <1>2 DEF IInv, RefreshReadsThrough, RaisesOnlyWhenOverlapped, At
<1>. QED
  BY <1>4, <1>5, <1>6 DEF IInv

LEMMA OtherStepsIInv ==
  ASSUME IInv, Tick \/ (\E key \in strays : StrayEnds(key)) \/ UNCHANGED vars
  PROVE  IInv'
<1>1. calls' = calls /\ cached' = cached
  BY DEF Tick, StrayEnds, vars
<1>2. now' \in Nat /\ now' >= now
  BY WindGridsAssumption DEF IInv, Typed, Tick, StrayEnds, vars
<1>3. bulk' \in Seq(Chunks) /\ Len(bulk') <= BulkMax /\ strays' \subseteq ChunkKeys
  <2>1. ASSUME NEW key \in strays, StrayEnds(key)
        PROVE  bulk' \in Seq(Chunks) /\ Len(bulk') <= BulkMax /\ strays' \subseteq ChunkKeys
    <3>1. key \in ChunkKeys /\ now \in Nat /\ bulk \in Seq(Chunks) /\ Len(bulk) <= BulkMax
      BY DEF IInv, Typed
    <3>2. PICK at \in Nat : at = now
      BY <3>1
    <3>3. Stored(key, at) \in Seq(Chunks) /\ Len(Stored(key, at)) <= BulkMax
      BY <3>1, StoredProperties
    <3>4. bulk' \in {bulk, Stored(key, at)}
      BY <2>1, <3>2 DEF StrayEnds
    <3>. QED
      BY <2>1, <3>1, <3>3, <3>4 DEF StrayEnds, IInv, Typed
  <2>. QED
    BY <2>1 DEF IInv, Typed, Tick, vars
<1>4. Typed'
  BY <1>1, <1>2, <1>3 DEF IInv, Typed
<1>5. \A t \in Threads : InHand(t)' <=> InHand(t)
  BY <1>1 DEF InHand
<1>6. Fresh'
  <2>. SUFFICES ASSUME NEW t \in Threads, InHand(t)' PROVE FreshCall(calls[t])'
    BY DEF Fresh
  <2>1. calls[t] \in Active /\ FreshCall(calls[t])
    BY <1>5 DEF IInv, Typed, Fresh, InHand, Answered
  <2>2. calls[t].since \in Nat /\ now \in Nat
    BY <2>1 DEF Active, IInv, Typed
  <2>. QED
    BY <1>1, <1>2, <2>1, <2>2 DEF FreshCall
<1>7. Alone'
  BY <1>1, <1>5 DEF IInv, Alone, Has
<1>8. RefreshReadsThrough' /\ RaisesOnlyWhenOverlapped'
  BY <1>1 DEF IInv, RefreshReadsThrough, RaisesOnlyWhenOverlapped, At
<1>. QED
  BY <1>4, <1>6, <1>7, <1>8 DEF IInv

-----------------------------------------------------------------------------
LEMMA NextIInv == IInv /\ [Next]_vars => IInv'
<1>. SUFFICES ASSUME IInv, [Next]_vars PROVE IInv'
  OBVIOUS
<1>1. ASSUME NEW t \in Threads, Call(t) \/ Request(t) \/ Fetch(t) \/ Leave(t)
      PROVE  IInv'
  BY <1>1, CallIInv, LookupIInv, DropExpiredIInv, TouchIInv, ReserveIInv, WaitReturnsIInv,
     StoreIInv, OrderIInv, FetchIInv, LeaveIInv DEF Request
<1>. QED
  BY <1>1, OtherStepsIInv DEF Next

(* The types of the caches and of the requests in hand, and the bound of   *)
(* the chunk cache.                                                        *)
THEOREM TypeCorrect == Spec => []Typed
<1>1. IInv => Typed
  BY DEF IInv
<1>. QED
  BY <1>1, InitIInv, NextIInv, PTL DEF Spec

(* A request with refresh=true is answered from neither cache: whatever    *)
(* the other requests store meanwhile, every chunk of its answer was       *)
(* fetched after it arrived.                                               *)
THEOREM RefreshIsFresh == Spec => []RefreshReadsThrough
<1>1. IInv => RefreshReadsThrough
  BY DEF IInv
<1>. QED
  BY <1>1, InitIInv, NextIInv, PTL DEF Spec

(* A grid request raises only when another request overlapped it: alone,   *)
(* nothing can drop the entry it found, or just stored, before it moves it *)
(* to the end.                                                             *)
THEOREM RaisesNeedARival == Spec => []RaisesOnlyWhenOverlapped
<1>1. IInv => RaisesOnlyWhenOverlapped
  BY DEF IInv
<1>. QED
  BY <1>1, InitIInv, NextIInv, PTL DEF Spec
=============================================================================
