--------------------------- MODULE MutationProofs ---------------------------
(***************************************************************************)
(* The safety of a mutation request, for any number of operations and both *)
(* forms of the join. The invariant says how far a command can have got    *)
(* for each state of its future, and what a result of the join implies.    *)
(***************************************************************************)
EXTENDS Mutation, TLAPS

\* A command that was not sent is nowhere, and one on the wire is not answered
CommandsOnTheirWay ==
    \A i \in Ops :
        /\ client[i] \in {"unplanned", "waiting", "started"}
             => i \notin net /\ answer[i] = "none"
        /\ i \in net => answer[i] = "none"

\* The database answers "ok" exactly when it has carried out the operation, once
AnswersAreEffects ==
    \A i \in Ops : effects[i] = IF answer[i] = "ok" THEN 1 ELSE 0

\* A future has a result only if the database said so
ResultsAreAnswers ==
    \A i \in Ops : client[i] \in {"replied", "ok"} => answer[i] = "ok"

\* Either every operation is planned or none is, and an invalid request is never
PlannedAsAWhole ==
    /\ \A i, j \in Ops : client[i] = "unplanned" => client[j] = "unplanned"
    /\ \A i, j \in Ops : request[i] = "unplannable" => client[j] = "unplanned"

\* First polls follow the order of the operations, and an operation whose
\* arguments do not interpolate has no other
FirstPollsInOrder ==
    /\ \A i, j \in Ops : j > i /\ client[i] = "waiting" => client[j] = "waiting"
    /\ \A i \in Ops : request[i] = "uninterpolable"
                        => client[i] \in {"unplanned", "waiting", "err"}

\* What the join has returned, in terms of its futures
JoinIsSound ==
    /\ response = Success => \A i \in Ops : client[i] = "ok"
    /\ \A i \in Ops : response = Failure(i) => client[i] = "err"
    /\ n <= SmallLimit =>
         /\ response = NoResponse => \A i \in Ops : client[i] # "err"
         /\ \A i, j \in Ops : client[i] = "err" /\ request[i] = "uninterpolable" /\ j > i
                                 => client[j] = "waiting"
    /\ n > SmallLimit =>
         \A i, j \in Ops : response = Failure(i) /\ j < i => client[j] = "ok"

IInv ==
    /\ TypeOK
    /\ CommandsOnTheirWay
    /\ AnswersAreEffects
    /\ ResultsAreAnswers
    /\ PlannedAsAWhole
    /\ FirstPollsInOrder
    /\ JoinIsSound

------------------------------------------------------------------------------
\* What a result of the join says of the futures it was computed from
LEMMA JoinedSound ==
    ASSUME NEW c \in [Ops -> Clients], n \in 0 .. MaxOps
    PROVE  /\ Joined(c) \in {NoResponse, Success} \cup {Failure(i) : i \in Ops}
           /\ Joined(c) = Success => \A i \in Ops : c[i] = "ok"
           /\ \A i \in Ops : Joined(c) = Failure(i) => c[i] = "err"
           /\ n <= SmallLimit /\ Joined(c) = NoResponse => \A i \in Ops : c[i] # "err"
           /\ \A i, j \in Ops : n > SmallLimit /\ Joined(c) = Failure(i) /\ j < i
                                   => c[j] = "ok"
<1> DEFINE front  == {i \in Ops : c[i] # "ok" /\ \A j \in Ops : j < i => c[j] = "ok"}
           failed == {i \in Ops : c[i] = "err" /\ (n <= SmallLimit \/ i \in front)}
<1> USE DEF Ops
<1>1. CASE failed # {}
  <2>1. PICK k \in failed : Joined(c) = Failure(k)
    BY <1>1 DEF Joined
  <2>2. \A i \in Ops : Joined(c) = Failure(i) => i = k
    BY <2>1 DEF Failure
  <2>3. Joined(c) # Success /\ Joined(c) # NoResponse
    BY <2>1 DEF Failure, Success, NoResponse
  <2>4. n > SmallLimit => k \in front
    BY <2>1, MaxAssumption, LimitAssumption
  <2> QED
    BY <2>1, <2>2, <2>3, <2>4
<1>2. CASE failed = {}
  <2>1. Joined(c) = IF \A i \in Ops : c[i] = "ok" THEN Success ELSE NoResponse
    BY <1>2 DEF Joined
  <2>2. \A i \in Ops : Joined(c) # Failure(i)
    BY <2>1 DEF Failure, Success, NoResponse
  <2>3. Success # NoResponse
    BY DEF Success, NoResponse
  <2> QED
    BY <1>2, <2>1, <2>2, <2>3
<1> QED
  BY <1>1, <1>2

\* The responses are told apart by their first component
LEMMA ResponsesDistinct ==
    /\ Success # NoResponse /\ Gone # NoResponse /\ Invalid # NoResponse
    /\ Success # Gone /\ Success # Invalid
    /\ \A i \in Ops : Failure(i) \notin {NoResponse, Success, Gone, Invalid}
BY DEF Success, NoResponse, Gone, Invalid, Failure

LEMMA InitInvariant == Init => IInv
BY ResponsesDistinct DEF Init, IInv, TypeOK, CommandsOnTheirWay, AnswersAreEffects, ResultsAreAnswers,
       PlannedAsAWhole, FirstPollsInOrder, JoinIsSound, Clients, Kinds, Responses, Answered, Ops

\* A poll of a future: what it does to the invariant depends on the state it
\* leaves, which is one the database and the request allow
LEMMA PollInvariant ==
    ASSUME IInv, NEW i \in Ops, NEW s \in {"started", "ok", "err"}, Poll(i, s),
           client[i] \in {"waiting", "replied", "broken"},
           client[i] = "waiting" => \A j \in Ops : j < i => client[j] # "waiting",
           client[i] = "waiting" => s = IF request[i] = "uninterpolable" THEN "err" ELSE "started",
           client[i] # "waiting" => s # "started",
           s = "ok" => client[i] = "replied"
    PROVE  IInv'
<1> USE DEF IInv
<1>0. Ops' = Ops /\ n' = n /\ n \in 0 .. MaxOps
  BY DEF Poll, Ops, TypeOK
<1>1. TypeOK'
  <2>1. client' \in [Ops -> Clients]
    BY DEF Poll, TypeOK, Clients
  <2>2. response' \in Responses
    BY <1>0, <2>1, JoinedSound DEF Poll, Responses
  <2>3. response' \in Responses'
    BY <1>0, <2>2 DEF Responses, NoResponse, Invalid, Gone, Success, Failure
  <2> QED
    BY <1>0, <2>1, <2>3 DEF Poll, TypeOK
<1>2. /\ client' = [client EXCEPT ![i] = s]
      /\ response' = Joined(client')
      /\ response = NoResponse
      /\ UNCHANGED <<n, request, net, answer, effects>>
  BY DEF Poll, Answered
<1>3. client' \in [Ops -> Clients] /\ client \in [Ops -> Clients]
  BY <1>0, <1>1 DEF TypeOK
<1>4. CommandsOnTheirWay' /\ AnswersAreEffects' /\ ResultsAreAnswers'
  BY <1>0, <1>2, <1>3 DEF CommandsOnTheirWay, AnswersAreEffects, ResultsAreAnswers
<1>5. PlannedAsAWhole'
  BY <1>0, <1>2, <1>3 DEF PlannedAsAWhole
<1>6. FirstPollsInOrder'
  <2>1. ASSUME NEW k \in Ops, NEW j \in Ops, j > k, client'[k] = "waiting"
        PROVE  client'[j] = "waiting"
    <3>1. k # i /\ client[k] = "waiting"
      BY <1>0, <1>2, <1>3, <2>1
    <3>2. client[j] = "waiting"
      BY <3>1, <2>1 DEF FirstPollsInOrder
    <3>3. j # i
      BY <3>1, <3>2, <2>1
    <3> QED
      BY <3>2, <3>3, <1>2, <1>3
  <2>2. ASSUME NEW k \in Ops, request[k] = "uninterpolable"
        PROVE  client'[k] \in {"unplanned", "waiting", "err"}
    BY <1>0, <2>2, <1>2, <1>3 DEF FirstPollsInOrder
  <2> QED
    BY <1>0, <2>1, <2>2, <1>2 DEF FirstPollsInOrder
<1>7. JoinIsSound'
  <2>1. ASSUME n <= SmallLimit, NEW k \in Ops, NEW j \in Ops,
               client'[k] = "err", request[k] = "uninterpolable", j > k
        PROVE  client'[j] = "waiting"
    <3>1. k = i
      BY <1>0, <2>1, <1>2, <1>3 DEF JoinIsSound
    <3>2. client[k] = "waiting"
      BY <2>1, <3>1 DEF FirstPollsInOrder
    <3>3. client[j] = "waiting" /\ j # i
      BY <2>1, <3>1, <3>2 DEF FirstPollsInOrder
    <3> QED
      BY <3>3, <1>2, <1>3
  <2>2. /\ response' = Success => \A k \in Ops : client'[k] = "ok"
        /\ \A k \in Ops : response' = Failure(k) => client'[k] = "err"
        /\ n <= SmallLimit /\ response' = NoResponse => \A k \in Ops : client'[k] # "err"
        /\ \A k, j \in Ops : n > SmallLimit /\ response' = Failure(k) /\ j < k
                                => client'[j] = "ok"
    BY <1>0, <1>2, <1>3, JoinedSound
  <2>3. (n <= SmallLimit =>
            \A k, j \in Ops : client[k] = "err" /\ request[k] = "uninterpolable" /\ j > k
                                 => client[j] = "waiting")'
    BY <1>0, <1>2, <2>1
  <2> QED
    BY <1>0, <2>2, <2>3 DEF JoinIsSound, Success, NoResponse, Failure
<1> QED
  BY <1>1, <1>4, <1>5, <1>6, <1>7

\* No step of the connector, of the database or of the client breaks it
LEMMA StepInvariant == IInv /\ [Next]_vars => IInv'
<1> SUFFICES ASSUME IInv, [Next]_vars PROVE IInv'
  OBVIOUS
<1>0. n \in 0 .. MaxOps /\ (n' = n => Ops' = Ops /\ Responses' = Responses)
  BY DEF IInv, TypeOK, Ops, Responses, NoResponse, Invalid, Gone, Success, Failure
<1>1. CASE Plan
  <2>1. CASE \E i \in Ops : request[i] = "unplannable"
    <3>1. response' = Invalid /\ response = NoResponse
          /\ UNCHANGED <<n, request, client, net, answer, effects>>
      BY <1>1, <2>1 DEF Plan, Answered
    <3> QED
      BY <1>0, <3>1, ResponsesDistinct DEF IInv, TypeOK, CommandsOnTheirWay, AnswersAreEffects,
         ResultsAreAnswers, PlannedAsAWhole, FirstPollsInOrder, JoinIsSound, Responses
  <2>2. CASE ~ \E i \in Ops : request[i] = "unplannable"
    <3>1. /\ client' = [i \in Ops |-> "waiting"] /\ response' = Joined(client')
          /\ UNCHANGED <<n, request, net, answer, effects>>
          /\ \A i \in Ops : client[i] = "unplanned"
      BY <1>1, <2>2 DEF Plan
    <3>2. client' \in [Ops -> Clients]
      BY <3>1 DEF Clients
    <3>3. TypeOK' /\ JoinIsSound'
      BY <1>0, <3>1, <3>2, JoinedSound, ResponsesDistinct DEF IInv, TypeOK, JoinIsSound, Responses
    <3>4. CommandsOnTheirWay' /\ AnswersAreEffects' /\ ResultsAreAnswers'
      BY <1>0, <3>1 DEF IInv, CommandsOnTheirWay, AnswersAreEffects, ResultsAreAnswers
    <3>5. PlannedAsAWhole' /\ FirstPollsInOrder'
      BY <1>0, <3>1, <2>2 DEF IInv, PlannedAsAWhole, FirstPollsInOrder
    <3> QED
      BY <3>3, <3>4, <3>5 DEF IInv
  <2> QED
    BY <2>1, <2>2
<1>2. ASSUME NEW i \in Ops, FirstPoll(i) PROVE IInv'
  BY <1>2, PollInvariant DEF FirstPoll
<1>3. ASSUME NEW i \in Ops, Send(i) PROVE IInv'
  <2>1. client[i] = "started" /\ client' = [client EXCEPT ![i] = "sent"] /\ net' = net \cup {i}
        /\ UNCHANGED <<n, request, answer, effects, response>> /\ response = NoResponse
    BY <1>3 DEF Send, Answered
  <2>2. TypeOK'
    BY <1>0, <2>1 DEF IInv, TypeOK, Clients
  <2>3. CommandsOnTheirWay' /\ AnswersAreEffects' /\ ResultsAreAnswers'
    BY <1>0, <2>1 DEF IInv, TypeOK, CommandsOnTheirWay, AnswersAreEffects, ResultsAreAnswers
  <2>4. PlannedAsAWhole' /\ FirstPollsInOrder'
    BY <1>0, <2>1 DEF IInv, TypeOK, PlannedAsAWhole, FirstPollsInOrder
  <2>5. JoinIsSound'
    BY <1>0, <2>1, ResponsesDistinct DEF IInv, TypeOK, JoinIsSound
  <2> QED
    BY <2>2, <2>3, <2>4, <2>5 DEF IInv
<1>4. ASSUME NEW i \in Ops, Finish(i) PROVE IInv'
  BY <1>4, PollInvariant DEF Finish
<1>5. ASSUME NEW i \in Ops, FinishBroken(i) PROVE IInv'
  BY <1>5, PollInvariant DEF FinishBroken
<1>6. ASSUME NEW i \in Ops, Execute(i) PROVE IInv'
  <2>1. /\ i \in net /\ net' = net \ {i} /\ UNCHANGED <<n, request, client, response>>
        /\ \/ answer' = [answer EXCEPT ![i] = "ok"] /\ effects' = [effects EXCEPT ![i] = @ + 1]
           \/ answer' = [answer EXCEPT ![i] = "error"] /\ UNCHANGED effects
        /\ answer[i] = "none" /\ effects[i] = 0
    BY <1>6 DEF Execute, IInv, CommandsOnTheirWay, AnswersAreEffects
  <2>2. TypeOK'
    BY <1>0, <2>1 DEF IInv, TypeOK
  <2>3. CommandsOnTheirWay' /\ AnswersAreEffects' /\ ResultsAreAnswers'
    BY <1>0, <2>1 DEF IInv, TypeOK, CommandsOnTheirWay, AnswersAreEffects, ResultsAreAnswers
  <2>4. PlannedAsAWhole' /\ FirstPollsInOrder' /\ JoinIsSound'
    BY <1>0, <2>1 DEF IInv, PlannedAsAWhole, FirstPollsInOrder, JoinIsSound
  <2> QED
    BY <2>2, <2>3, <2>4 DEF IInv
<1>7. ASSUME NEW i \in Ops, Reply(i) \/ ConnectionBreaks(i) PROVE IInv'
  <2>1. PICK s \in {"replied", "broken"} :
          /\ client[i] \in {"started", "sent"}
          /\ s = "replied" => answer[i] = "ok"
          /\ client' = [client EXCEPT ![i] = s]
          /\ net' \in {net, net \ {i}}
          /\ UNCHANGED <<n, request, answer, effects, response>>
    BY <1>7, Zenon DEF Reply, ConnectionBreaks
  <2>2. TypeOK'
    BY <1>0, <2>1 DEF IInv, TypeOK, Clients
  <2>3. CommandsOnTheirWay' /\ AnswersAreEffects' /\ ResultsAreAnswers'
    BY <1>0, <2>1 DEF IInv, TypeOK, CommandsOnTheirWay, AnswersAreEffects, ResultsAreAnswers
  <2>4. PlannedAsAWhole' /\ FirstPollsInOrder' /\ JoinIsSound'
    BY <1>0, <2>1 DEF IInv, TypeOK, PlannedAsAWhole, FirstPollsInOrder, JoinIsSound
  <2> QED
    BY <2>2, <2>3, <2>4 DEF IInv
<1>8. CASE ClientGoesAway
  <2>1. response' = Gone /\ UNCHANGED <<n, request, client, net, answer, effects>>
        /\ response = NoResponse
    BY <1>8 DEF ClientGoesAway, Answered
  <2> QED
    BY <1>0, <2>1, ResponsesDistinct DEF IInv, TypeOK, CommandsOnTheirWay, AnswersAreEffects,
       ResultsAreAnswers, PlannedAsAWhole, FirstPollsInOrder, JoinIsSound, Responses
<1>9. CASE UNCHANGED vars
  BY <1>0, <1>9 DEF vars, IInv, TypeOK, CommandsOnTheirWay, AnswersAreEffects, ResultsAreAnswers,
     PlannedAsAWhole, FirstPollsInOrder, JoinIsSound
<1> QED
  BY <1>1, <1>2, <1>3, <1>4, <1>5, <1>6, <1>7, <1>8, <1>9 DEF Next, Step

\* The inductive invariant holds of every behaviour of the request.
THEOREM Invariance == Spec => []IInv
<1> QED
  BY InitInvariant, StepInvariant, PTL DEF Spec

------------------------------------------------------------------------------
\* The variables of handle_mutation_request keep their types.
THEOREM TypeCorrect == Spec => []TypeOK
<1>1. IInv => TypeOK
  BY DEF IInv
<1> QED
  BY <1>1, Invariance, PTL

\* A request that does not plan as a whole runs none of its operations.
THEOREM InvalidRunsNothing == Spec => []InvalidRequestsRunNothing
<1>1. IInv => InvalidRequestsRunNothing
  BY DEF IInv, TypeOK, InvalidRequestsRunNothing, PlannedAsAWhole, CommandsOnTheirWay, AnswersAreEffects
<1> QED
  BY <1>1, Invariance, PTL

\* No operation is carried out twice, for any number of operations.
THEOREM NoneTwice == Spec => []AtMostOnce
<1>1. IInv => AtMostOnce
  BY DEF IInv, AtMostOnce, AnswersAreEffects
<1> QED
  BY <1>1, Invariance, PTL

\* Results are returned only when every operation was carried out.
THEOREM SuccessIsSound == Spec => []SuccessMeansAllDone
<1>1. IInv => SuccessMeansAllDone
  BY DEF IInv, SuccessMeansAllDone, AnswersAreEffects, ResultsAreAnswers, JoinIsSound
<1> QED
  BY <1>1, Invariance, PTL

\* In a small join, what follows an operation that does not interpolate never runs.
THEOREM InterpolationStops == Spec => []InterpolationStopsTheRest
<1>1. IInv => InterpolationStopsTheRest
  <2> SUFFICES ASSUME IInv, NEW i \in Ops, response = Failure(i), request[i] = "uninterpolable",
                      n <= SmallLimit, NEW j \in Ops, j > i
               PROVE  client[j] = "waiting" /\ j \notin net /\ effects[j] = 0
    BY DEF InterpolationStopsTheRest
  <2>1. client[j] = "waiting"
    BY DEF IInv, JoinIsSound
  <2> QED
    BY <2>1 DEF IInv, CommandsOnTheirWay, AnswersAreEffects
<1> QED
  BY <1>1, Invariance, PTL

\* In a large join, everything before the reported failure was carried out.
THEOREM FailsInOrder == Spec => []LargeJoinFailsInOrder
<1>1. IInv => LargeJoinFailsInOrder
  BY DEF IInv, LargeJoinFailsInOrder, JoinIsSound, ResultsAreAnswers, AnswersAreEffects
<1> QED
  BY <1>1, Invariance, PTL

\* After the response, or without a client, no further command is sent.
THEOREM NothingSent == Spec => NothingSentAfterwards
<1>1. [Next]_vars => [Answered => net' \subseteq net]_vars
  <2> SUFFICES ASSUME Next, Answered PROVE net' \subseteq net
    BY DEF vars
  <2> QED
    BY DEF Next, Step, Plan, FirstPoll, Poll, Send, Finish, FinishBroken, Execute, Reply,
       ConnectionBreaks, ClientGoesAway
<1> QED
  BY <1>1, PTL DEF Spec, NothingSentAfterwards

------------------------------------------------------------------------------
\* The initial states of a request are initial states of the service
LEMMA InitRefines == Init => Service!Init
BY DEF Init, Service!Init, Service!Ops, Service!NoResponse, Open, Ops, NoResponse, Answered

\* A poll closes what it fails, and answers with what the join returns
LEMMA PollRefines ==
    ASSUME IInv, IInv', NEW i \in Ops, NEW s \in {"started", "ok", "err"}, Poll(i, s),
           client[i] \in {"waiting", "replied", "broken"},
           client[i] # "waiting" => s # "started",
           s = "ok" => client[i] = "replied"
    PROVE  Service!Next \/ UNCHANGED Service!vars
<1>1. /\ response = NoResponse /\ client' = [client EXCEPT ![i] = s] /\ response' = Joined(client')
      /\ UNCHANGED <<n, request, net, answer, effects>>
  BY DEF Poll, Answered
<1>2. n \in 0 .. MaxOps /\ client \in [Ops -> Clients] /\ client' \in [Ops -> Clients] /\ Ops' = Ops
  BY <1>1 DEF IInv, TypeOK, Clients, Ops
<1>3. Open' \subseteq Open
  BY <1>1, <1>2 DEF Open, Answered
<1>4. CASE response' = NoResponse
  BY <1>1, <1>3, <1>4 DEF Service!Next, Service!GiveUp
<1>5. CASE response' = Success
  <2>1. \A j \in Ops : client'[j] = "ok"
    BY <1>1, <1>2, <1>5, JoinedSound
  <2>2. \A j \in Ops : client[j] \in {"ok", "replied"} /\ effects[j] = 1
    BY <1>1, <1>2, <2>1 DEF IInv, ResultsAreAnswers, AnswersAreEffects
  <2>3. Open = {}
    BY <1>2, <2>2 DEF Open, IInv, TypeOK, ResultsAreAnswers, CommandsOnTheirWay
  <2>4. Service!Succeed
    BY <1>1, <1>3, <1>5, <2>2, <2>3
       DEF Service!Succeed, Service!Respond, Service!Ops, Service!NoResponse, Ops, NoResponse, Success
  <2> QED
    BY <2>4 DEF Service!Next
<1>6. CASE \E j \in Ops : response' = Failure(j)
  <2>1. Service!Fail
    BY <1>1, <1>3, <1>6
       DEF Service!Fail, Service!Respond, Service!Ops, Service!NoResponse, Ops, NoResponse, Failure
  <2> QED
    BY <2>1 DEF Service!Next
<1>7. response' = NoResponse \/ response' = Success \/ \E j \in Ops : response' = Failure(j)
  <2>1. Joined(client') \in {NoResponse, Success} \cup {Failure(j) : j \in Ops}
    BY <1>2, JoinedSound
  <2> QED
    BY <1>1, <2>1, Zenon
<1> QED
  BY <1>4, <1>5, <1>6, <1>7

\* Every step of a request is one of the service, or changes nothing of it
LEMMA StepRefines == IInv /\ IInv' /\ [Next]_vars => [Service!Next]_(Service!vars)
<1> SUFFICES ASSUME IInv, IInv', [Next]_vars PROVE Service!Next \/ UNCHANGED Service!vars
  OBVIOUS
<1>0. n \in 0 .. MaxOps /\ net \subseteq Ops /\ (n' = n => Ops' = Ops)
  BY DEF IInv, TypeOK, Ops
<1>1. CASE Plan
  <2>0. /\ response = NoResponse /\ \A i \in Ops : client[i] = "unplanned"
        /\ UNCHANGED <<n, request, net, answer, effects>>
    BY <1>1 DEF Plan, Answered
  <2>1. Open = Ops /\ net = {}
    BY <1>0, <2>0 DEF Open, Answered, IInv, CommandsOnTheirWay
  <2>2. CASE \E i \in Ops : request[i] = "unplannable"
    <3>1. response' = Invalid /\ UNCHANGED client
      BY <1>1, <2>2 DEF Plan
    <3>2. Open' = {}
      BY <2>0, <2>1, <3>1, ResponsesDistinct DEF Open, Answered
    <3>3. Service!Refuse
      BY <2>0, <2>1, <3>1, <3>2
         DEF Service!Refuse, Service!Respond, Service!Ops, Service!NoResponse, Ops, NoResponse, Invalid
    <3> QED
      BY <3>3 DEF Service!Next
  <2>3. CASE ~ \E i \in Ops : request[i] = "unplannable"
    <3>1. client' = [i \in Ops |-> "waiting"] /\ response' = Joined(client')
      BY <1>1, <2>3 DEF Plan
    <3>2. client' \in [Ops -> Clients]
      BY <3>1 DEF Clients
    <3>3. response' = NoResponse \/ (response' = Success /\ Ops = {})
      BY <1>0, <3>1, <3>2, JoinedSound
    <3>4. Open' \subseteq Open
      BY <1>0, <2>0, <2>1 DEF Open
    <3>5. CASE response' = NoResponse
      BY <2>0, <3>4, <3>5 DEF Service!Next, Service!GiveUp
    <3>6. CASE response' = Success /\ Ops = {}
      <4>1. Service!Succeed
        BY <2>0, <2>1, <3>4, <3>6
           DEF Service!Succeed, Service!Respond, Service!Ops, Service!NoResponse, Ops, NoResponse, Success
      <4> QED
        BY <4>1 DEF Service!Next
    <3> QED
      BY <3>3, <3>5, <3>6
  <2> QED
    BY <2>2, <2>3
<1>2. ASSUME NEW i \in Ops, FirstPoll(i) PROVE Service!Next \/ UNCHANGED Service!vars
  BY <1>2, PollRefines DEF FirstPoll
<1>3. ASSUME NEW i \in Ops, Finish(i) PROVE Service!Next \/ UNCHANGED Service!vars
  BY <1>3, PollRefines DEF Finish
<1>4. ASSUME NEW i \in Ops, FinishBroken(i) PROVE Service!Next \/ UNCHANGED Service!vars
  BY <1>4, PollRefines DEF FinishBroken
<1>5. ASSUME NEW i \in Ops, Send(i) PROVE Service!Next \/ UNCHANGED Service!vars
  <2>1. Open' \subseteq Open
    BY <1>0, <1>5 DEF Send, Open, Answered, IInv, TypeOK
  <2> QED
    BY <1>5, <2>1 DEF Send, Service!Next, Service!GiveUp
<1>6. ASSUME NEW i \in Ops, Execute(i) PROVE Service!Next \/ UNCHANGED Service!vars
  <2>1. i \in net /\ net' = net \ {i} /\ UNCHANGED <<n, client, response>>
    BY <1>6 DEF Execute
  <2>2. i \in Open /\ Open' = Open \ {i}
    BY <1>0, <2>1 DEF Open, Answered, IInv, CommandsOnTheirWay
  <2>3. effects' = effects \/ effects' = [effects EXCEPT ![i] = @ + 1]
    BY <1>6 DEF Execute
  <2>4. CASE effects' = effects
    BY <2>1, <2>2, <2>4 DEF Service!Next, Service!GiveUp
  <2>5. CASE effects' = [effects EXCEPT ![i] = @ + 1]
    BY <2>1, <2>2, <2>5 DEF Service!Next, Service!CarryOut
  <2> QED
    BY <2>3, <2>4, <2>5
<1>7. ASSUME NEW i \in Ops, Reply(i) \/ ConnectionBreaks(i)
      PROVE  Service!Next \/ UNCHANGED Service!vars
  <2>1. UNCHANGED <<n, effects, response>>
    BY <1>7 DEF Reply, ConnectionBreaks
  <2>2. Open' \subseteq Open
    BY <1>0, <1>7 DEF Reply, ConnectionBreaks, Open, Answered, IInv, TypeOK
  <2> QED
    BY <2>1, <2>2 DEF Service!Next, Service!GiveUp
<1>8. CASE ClientGoesAway
  <2>1. Open' \subseteq Open /\ response = NoResponse /\ response' = Gone /\ UNCHANGED <<n, effects>>
    BY <1>0, <1>8, ResponsesDistinct DEF ClientGoesAway, Open, Answered
  <2>2. Service!Abandon
    BY <2>1 DEF Service!Abandon, Service!Respond, Service!NoResponse, NoResponse, Gone
  <2> QED
    BY <2>2 DEF Service!Next
<1>9. CASE UNCHANGED vars
  BY <1>0, <1>9 DEF vars, Service!vars, Open, Answered
<1> QED
  BY <1>1, <1>2, <1>3, <1>4, <1>5, <1>6, <1>7, <1>8, <1>9 DEF Next, Step

\* The handler of mutations keeps the safety of the service: operations are carried out
\* at most once, and only while they are open; a success leaves none open, a refusal
\* finds all of them open, and after the response none becomes open again.
THEOREM ServiceIsKept == Spec => Service!Init /\ [][Service!Next]_(Service!vars)
<1> QED
  BY InitRefines, StepRefines, Invariance, PTL DEF Spec
==============================================================================
