--------------------------- MODULE MutationService ---------------------------
(***************************************************************************)
(* What a mutation request promises to whoever sends it, and no more: its  *)
(* operations are open until the database carries them out, at most once   *)
(* each, or they are given up; there is one response; and what is open     *)
(* only becomes less.  After the response an operation may still be        *)
(* carried out, but only one that is still open.                           *)
(***************************************************************************)
EXTENDS Integers

CONSTANT MaxOps     \* bound on the number of operations of a request

VARIABLES
    n,          \* the number of operations
    open,       \* the operations that may yet be carried out
    effects,    \* how many times each was carried out
    response

vars == <<n, open, effects, response>>

Ops == 1 .. n
NoResponse == <<"none", 0>>

Init ==
    /\ n \in 0 .. MaxOps
    /\ open = Ops
    /\ effects = [i \in Ops |-> 0]
    /\ response = NoResponse

CarryOut(i) ==
    /\ i \in open
    /\ open' = open \ {i}
    /\ effects' = [effects EXCEPT ![i] = @ + 1]
    /\ UNCHANGED <<n, response>>

GiveUp ==
    /\ open' \in SUBSET open
    /\ UNCHANGED <<n, effects, response>>

\* A response closes what has not been begun
Respond(r) ==
    /\ response = NoResponse
    /\ response' = r
    /\ open' \in SUBSET open
    /\ UNCHANGED <<n, effects>>

\* Refused: as if it had never been sent
Refuse == open = Ops /\ Respond(<<"invalid", 0>>) /\ open' = {}

\* All operations were carried out
Succeed == open = {} /\ (\A i \in Ops : effects[i] = 1) /\ Respond(<<"ok", 0>>)

\* An operation failed: what the others came to is not told
Fail == \E i \in Ops : Respond(<<"failed", i>>)

\* Whoever sent the request has gone
Abandon == Respond(<<"gone", 0>>)

Next == (\E i \in open : CarryOut(i)) \/ GiveUp \/ Refuse \/ Succeed \/ Fail \/ Abandon

\* A request is answered in the end
Spec == Init /\ [][Next]_vars /\ WF_vars(Refuse \/ Succeed \/ Fail \/ Abandon)
=============================================================================
