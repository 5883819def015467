------------------------------ MODULE Mutation ------------------------------
(***************************************************************************)
(* One mutation request (mongodb-connector/src/mutation.rs): the request   *)
(* is planned and its procedures looked up without awaiting anything, then *)
(* the operations run concurrently as futures under one try_join_all, in   *)
(* one task, until all have succeeded or the join reports a failure.       *)
(*                                                                         *)
(* The task stops polling when the join has a result, or when the client   *)
(* goes away; a command on the wire by then is executed all the same.      *)
(***************************************************************************)
EXTENDS Integers

CONSTANTS
    MaxOps,     \* bound on the number of operations of a request
    SmallLimit  \* up to this many, try_join_all polls its futures itself: 30

ASSUME MaxAssumption   == MaxOps \in Nat
ASSUME LimitAssumption == SmallLimit \in Nat

\* What a reader of the request can tell of an operation: whether it plans
\* (a known procedure, well-typed arguments and fields) and whether its
\* arguments can be interpolated into the command of the native mutation.
Kinds == {"fine", "unplannable", "uninterpolable"}

VARIABLES
    n,          \* the number of operations of the request
    request,    \* the kind of each operation
    client,     \* the state of the future of each operation
    net,        \* the commands on their way to the database
    answer,     \* what the database said to each command
    effects,    \* how many times the database carried out each operation
    response    \* what the connector answered

vars == <<n, request, client, net, answer, effects, response>>

Ops == 1 .. n

\* unplanned: the request has not been looked at     waiting: never polled
\* started:   run_command has no connection yet      sent:    on the wire
\* replied:   the reply is there, not polled yet     broken:  an error is there
\* ok, err:   the future has completed
Clients == {"unplanned", "waiting", "started", "sent", "replied", "broken", "ok", "err"}

NoResponse  == <<"none", 0>>
Invalid     == <<"invalid", 0>>     \* the plan or the look-up failed
Gone        == <<"gone", 0>>        \* nobody waits for the response any more
Success     == <<"ok", 0>>
Failure(i)  == <<"failed", i>>
Responses   == {NoResponse, Invalid, Gone, Success} \cup {Failure(i) : i \in Ops}

Answered == response # NoResponse

TypeOK ==
    /\ n \in 0 .. MaxOps
    /\ request \in [Ops -> Kinds]
    /\ client \in [Ops -> Clients]
    /\ net \subseteq Ops
    /\ answer \in [Ops -> {"none", "ok", "error"}]
    /\ effects \in [Ops -> Nat]
    /\ response \in Responses

Init ==
    /\ n \in 0 .. MaxOps
    /\ request \in [Ops -> Kinds]
    /\ client = [i \in Ops |-> "unplanned"]
    /\ net = {}
    /\ answer = [i \in Ops |-> "none"]
    /\ effects = [i \in Ops |-> 0]
    /\ response = NoResponse

------------------------------------------------------------------------------
\* The connector.

\* Mutant of Joined: failures counted from zero
JoinedFromZero(c) ==
    IF \E i \in Ops : c[i] = "err" THEN Failure((CHOOSE i \in Ops : c[i] = "err") - 1)
    ELSE IF \A i \in Ops : c[i] = "ok" THEN Success
    ELSE NoResponse

\* What the join returns once its futures are in the states c. The small join
\* returns the failure it meets; the large one hands out results in order.
Joined(c) ==
    LET front  == {i \in Ops : c[i] # "ok" /\ \A j \in Ops : j < i => c[j] = "ok"}
        failed == {i \in Ops : c[i] = "err" /\ (n <= SmallLimit \/ i \in front)}
    IN  IF failed # {} THEN Failure(CHOOSE i \in failed : TRUE)
        ELSE IF \A i \in Ops : c[i] = "ok" THEN Success
        ELSE NoResponse

Planned == \A i \in Ops : client[i] # "unplanned"

\* Mutant of Plan: the operations that do not plan fail one by one
PlanPartly ==
    /\ ~Answered
    /\ \A i \in Ops : client[i] = "unplanned"
    /\ client' = [i \in Ops |-> IF request[i] = "unplannable" THEN "broken" ELSE "waiting"]
    /\ response' = Joined(client')
    /\ UNCHANGED <<n, request, net, answer, effects>>

\* plan_for_mutation_request and look_up_procedures: any unknown procedure or
\* ill-typed argument refuses the whole request. The procedures of the plan and
\* the native mutations of the look-up have the same names.
Plan ==
    /\ ~Answered
    /\ \A i \in Ops : client[i] = "unplanned"
    /\ IF \E i \in Ops : request[i] = "unplannable"
       THEN response' = Invalid /\ UNCHANGED client
       ELSE /\ client' = [i \in Ops |-> "waiting"]
            /\ response' = Joined(client')
    /\ UNCHANGED <<n, request, net, answer, effects>>

\* A poll of one future that ends in the state s: the join sees it at once
Poll(i, s) ==
    /\ ~Answered
    /\ client' = [client EXCEPT ![i] = s]
    /\ response' = Joined(client')
    /\ UNCHANGED <<n, request, net, answer, effects>>

\* Mutant of FirstPoll: the futures are polled in any order
FirstPollAnyOrder(i) ==
    /\ client[i] = "waiting"
    /\ Poll(i, IF request[i] = "uninterpolable" THEN "err" ELSE "started")

\* The first poll, in the order of the operations: Procedure::execute
\* interpolates the arguments before it calls run_command
FirstPoll(i) ==
    /\ client[i] = "waiting"
    /\ \A j \in Ops : j < i => client[j] # "waiting"
    /\ Poll(i, IF request[i] = "uninterpolable" THEN "err" ELSE "started")

\* Mutant of Send: each operation is a task of its own, which nobody stops
SendDetached(i) ==
    /\ client[i] = "started"
    /\ client' = [client EXCEPT ![i] = "sent"]
    /\ net' = net \cup {i}
    /\ UNCHANGED <<n, request, answer, effects, response>>

\* The command is written to a connection of the pool
Send(i) ==
    /\ ~Answered
    /\ client[i] = "started"
    /\ client' = [client EXCEPT ![i] = "sent"]
    /\ net' = net \cup {i}
    /\ UNCHANGED <<n, request, answer, effects, response>>

\* execute_procedure goes on with the reply: the result is rewritten to the
\* requested fields and converted to JSON, which may fail
Finish(i) ==
    /\ client[i] = "replied"
    /\ \E s \in {"ok", "err"} : Poll(i, s)

\* Mutants of FinishBroken: the command is run again; the error becomes an empty result
FinishByRetrying(i) ==
    /\ client[i] = "broken"
    /\ Poll(i, "started")
FinishIgnoringError(i) ==
    /\ client[i] = "broken"
    /\ Poll(i, "ok")

\* run_command returned an error
FinishBroken(i) ==
    /\ client[i] = "broken"
    /\ Poll(i, "err")

\* The HTTP client disconnects: the future of the request is dropped
ClientGoesAway ==
    /\ ~Answered
    /\ response' = Gone
    /\ UNCHANGED <<n, request, client, net, answer, effects>>

------------------------------------------------------------------------------
\* The database and the network, as the connector meets them.

Execute(i) ==
    /\ i \in net
    /\ net' = net \ {i}
    /\ \/ answer' = [answer EXCEPT ![i] = "ok"] /\ effects' = [effects EXCEPT ![i] = @ + 1]
       \/ answer' = [answer EXCEPT ![i] = "error"] /\ UNCHANGED effects
    /\ UNCHANGED <<n, request, client, response>>

Reply(i) ==
    /\ client[i] = "sent"
    /\ answer[i] # "none"
    /\ client' = [client EXCEPT ![i] = IF answer[i] = "ok" THEN "replied" ELSE "broken"]
    /\ UNCHANGED <<n, request, net, answer, effects, response>>

\* No server is found, or the connection breaks: the command may be lost,
\* still to be executed, or executed. run_command does not retry.
ConnectionBreaks(i) ==
    /\ client[i] \in {"started", "sent"}
    /\ client' = [client EXCEPT ![i] = "broken"]
    /\ net' \in {net, net \ {i}}
    /\ UNCHANGED <<n, request, answer, effects, response>>

Step(i) == FirstPoll(i) \/ Send(i) \/ Finish(i) \/ FinishBroken(i)

Next ==
    \/ Plan
    \/ \E i \in Ops : Step(i)
    \/ \E i \in Ops : Execute(i) \/ Reply(i) \/ ConnectionBreaks(i)
    \/ ClientGoesAway

\* The task is polled whenever it can make progress, a connection of the pool is
\* found in the end, and the database answers what reaches it.
Fairness ==
    /\ WF_vars(Plan)
    /\ \A i \in 1 .. MaxOps : /\ WF_vars(i \in Ops /\ Step(i))
                             /\ WF_vars(i \in Ops /\ Execute(i))
                             /\ WF_vars(i \in Ops /\ Reply(i))

Spec == Init /\ [][Next]_vars /\ Fairness

------------------------------------------------------------------------------
\* The properties.

\* A request with an operation that does not plan, wherever it stands in the
\* list, runs none of its operations: the request is checked as a whole before
\* the first command is sent (handle_mutation_request, look_up_procedures).
InvalidRequestsRunNothing ==
    (\E i \in Ops : request[i] = "unplannable")
        => net = {} /\ \A i \in Ops : effects[i] = 0

\* No operation is carried out twice, whatever breaks and whenever the join is
\* dropped: nothing in the connector sends a command again.
AtMostOnce == \A i \in Ops : effects[i] <= 1

\* A response with results tells the truth: every operation was carried out once.
SuccessMeansAllDone ==
    response = Success => \A i \in Ops : effects[i] = 1

\* A failure that names an operation whose arguments did not interpolate comes
\* before the operations after it are polled: in a small join they never run.
InterpolationStopsTheRest ==
    \A i \in Ops : response = Failure(i) /\ request[i] = "uninterpolable" /\ n <= SmallLimit
        => \A j \in Ops : j > i => client[j] = "waiting" /\ j \notin net /\ effects[j] = 0

\* A join of more futures than the limit reports failures in the order of the
\* operations: all the operations before the reported one were carried out.
LargeJoinFailsInOrder ==
    \A i \in Ops : response = Failure(i) /\ n > SmallLimit
        => \A j \in Ops : j < i => effects[j] = 1

\* Once the client has its response, or has gone, no command is sent any more:
\* what still runs in the database was on the wire by then.
NothingSentAfterwards == [][Answered => net' \subseteq net]_vars

\* Every request is answered in the end, whichever operations fail.
EventuallyAnswered == <>Answered

------------------------------------------------------------------------------
\* The operations that may yet be carried out: on their way to the database, or
\* in a future that is still polled and has not sent its command
Open == net \cup {i \in Ops : ~Answered /\ client[i] \in {"unplanned", "waiting", "started"}}

Service == INSTANCE MutationService WITH open <- Open

\* handle_mutation_request keeps what MutationService promises: an operation whose
\* command was executed, was lost or failed is never open again, a success means that
\* nothing was left to do, a refusal that nothing was begun, and the request is
\* answered in the end.
ImplementsService == Service!Spec

==============================================================================
