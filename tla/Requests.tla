------------------------------ MODULE Requests ------------------------------
(***************************************************************************)
(* The requests a page of the console has on its way. The page goes on     *)
(* while it waits, answers come in any order, and what an answer does was  *)
(* fixed when the request was made. A request can get lost before the      *)
(* backend acts on it, or its answer after.                                *)
(***************************************************************************)
EXTENDS Naturals, FiniteSets

CONSTANTS
  Slots,   \* bound: requests on their way at a time
  None     \* no value

VARIABLE calls   \* calls[s]: the request in slot s

Free == [kind |-> "free", arg |-> None, state |-> "none", data |-> None]

Asked(kind, arg) == [Free EXCEPT !.kind = kind, !.arg = arg, !.state = "asked"]

NoCalls == [s \in Slots |-> Free]

Waits(s, kind) == calls[s].kind = kind /\ calls[s].state = "asked"

\* The backend has acted on the request and answers it with data.
Answer(s, data) ==
  calls' = [calls EXCEPT ![s].state = "answered", ![s].data = data]

Settles(s, kind) == calls[s].kind = kind /\ calls[s].state \in {"answered", "failed"}
Succeeded(s) == calls[s].state = "answered"

\* The request is lost on its way, or its answer is.
Lose(s) ==
  /\ calls[s].state \in {"asked", "answered"}
  /\ calls' = [calls EXCEPT ![s].state = "failed", ![s].data = None]

Turn(s, call) == calls' = [calls EXCEPT ![s] = call]

\* A request is made in a slot that is free.
IsFree(s) == calls[s] = Free
Make(kind, arg) == \E s \in Slots : IsFree(s) /\ Turn(s, Asked(kind, arg))

OnTheirWay(kinds) == {s \in Slots : calls[s].kind \in kinds}
Flying(kinds) == OnTheirWay(kinds) # {}
AtRest == calls = NoCalls
=============================================================================
