------------------------------ MODULE Endpoint ------------------------------
(***************************************************************************)
(* A request handler that computes its answer from what it is given: one   *)
(* call is open at a time, and the answer stands until the client has it.  *)
(* The modules of the endpoints add an action for each.                    *)
(***************************************************************************)
EXTENDS HttpErrors

VARIABLES call,  \* what the client asked, and what the handler was given
          reply  \* what it was answered

vars == <<call, reply>>

Init == call = None /\ reply = None

Answered == call # None /\ call' = None /\ reply' = None

Of(op) == call # None /\ call.op = op
=============================================================================
