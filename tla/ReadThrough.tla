----------------------------- MODULE ReadThrough -----------------------------
(***************************************************************************)
(* What a read-through fact cache promises its callers, with no cache in   *)
(* it: a read of a dataset answers with some version of that dataset that  *)
(* is at least as new as any version already handed out when the read      *)
(* began, and no newer than the source; or it fails.  FactCache implements *)
(* this specification.                                                     *)
(***************************************************************************)
EXTENDS Integers

CONSTANTS Callers,     (* threads that read                                *)
          Keys,        (* dataset ids                                      *)
          MaxVersion   (* bound: how often one dataset may change          *)

VARIABLES source,    (* source[k]: current version of dataset k            *)
          returned,  (* returned[k]: newest version of k handed out so far *)
          reading,   (* reading[c]: c has a read in progress               *)
          key,       (* key[c]: the dataset of c's current or last read    *)
          floor,     (* floor[c]: returned[key[c]] when that read began    *)
          answer     (* answer[c]: outcome of c's last finished read       *)

vars == <<source, returned, reading, key, floor, answer>>

NoAnswer == [kind |-> "none", version |-> 0]
Value(v) == [kind |-> "value", version |-> v]
Error    == [kind |-> "error", version |-> 0]
Timeout  == [kind |-> "timeout", version |-> 0]

Newer(a, b) == IF a > b THEN a ELSE b

Init ==
  /\ source = [k \in Keys |-> 0]
  /\ returned = [k \in Keys |-> 0]
  /\ reading = [c \in Callers |-> FALSE]
  /\ key \in [Callers -> Keys]
  /\ floor = [c \in Callers |-> 0]
  /\ answer = [c \in Callers |-> NoAnswer]

(* The owner of dataset k publishes a new version (an ERT re-run).         *)
Change(k) ==
  /\ source[k] < MaxVersion
  /\ source' = [source EXCEPT ![k] = @ + 1]
  /\ UNCHANGED <<returned, reading, key, floor, answer>>

Begin(c, k) ==
  /\ ~reading[c]
  /\ reading' = [reading EXCEPT ![c] = TRUE]
  /\ key' = [key EXCEPT ![c] = k]
  /\ floor' = [floor EXCEPT ![c] = returned[k]]
  /\ answer' = [answer EXCEPT ![c] = NoAnswer]
  /\ UNCHANGED <<source, returned>>

Finish(c, outcome) ==
  /\ reading[c]
  /\ reading' = [reading EXCEPT ![c] = FALSE]
  /\ answer' = [answer EXCEPT ![c] = outcome]
  /\ UNCHANGED <<source, key, floor>>

Return(c) ==
  \E v \in floor[c] .. source[key[c]] :
    /\ Finish(c, Value(v))
    /\ returned' = [returned EXCEPT ![key[c]] = Newer(@, v)]

Fail(c) ==
  /\ \E outcome \in {Error, Timeout} : Finish(c, outcome)
  /\ UNCHANGED returned

Next ==
  \/ \E k \in Keys : Change(k)
  \/ \E c \in Callers, k \in Keys : Begin(c, k)
  \/ \E c \in Callers : Return(c) \/ Fail(c)

Spec == Init /\ [][Next]_vars
==============================================================================
