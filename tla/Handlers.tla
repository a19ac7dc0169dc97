------------------------------ MODULE Handlers ------------------------------
(***************************************************************************)
(* A request between its steps.  Every model of concurrent requests keeps  *)
(* a function from requests to records whose pc names the next step: a     *)
(* committed transaction or one call to another system.                    *)
(***************************************************************************)
Idle == [pc |-> "idle"]

At(handlers, r, pc) == handlers[r].pc = pc

(* The request goes on as h; the others stand still. *)
Goes(handlers, r, h) == [handlers EXCEPT ![r] = h]

GoesTo(handlers, r, pc) == [handlers EXCEPT ![r].pc = pc]
=============================================================================
