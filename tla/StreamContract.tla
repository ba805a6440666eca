--------------------------- MODULE StreamContract ---------------------------
(***************************************************************************)
(* What a gradual RPC promises its client, with no thread and no channel:  *)
(* the responses arrive in object order, none missing and none twice; the  *)
(* stream ends with OK only when it is complete, with an error only when   *)
(* the beatmap could not be loaded, and then with no response before it.   *)
(* The client may hang up, and the connection be lost, at any moment.      *)
(***************************************************************************)
EXTENDS Integers, Sequences

CONSTANTS Call, Response(_, _)  \* Response(call, k): the k-th response to a call

VARIABLES call, received, ended

contractVars == <<call, received, ended>>

Init ==
    /\ call \in Call
    /\ received = <<>>
    /\ ended = "open"

Receive ==
    /\ ended = "open"
    /\ call.loads
    /\ Len(received) < call.total
    /\ received' = Append(received, Response(call, Len(received) + 1))
    /\ UNCHANGED <<call, ended>>

EndWith(status) ==
    /\ ended = "open"
    /\ ended' = status
    /\ UNCHANGED <<call, received>>

Complete == EndWith("OK") /\ call.loads /\ Len(received) = call.total

Fail == EndWith("FAILED") /\ ~call.loads

HangUp == EndWith("CANCELLED")

Lose == EndWith("LOST")

Next == Receive \/ Complete \/ Fail \/ HangUp \/ Lose

Safety == Init /\ [][Next]_contractVars

=============================================================================
