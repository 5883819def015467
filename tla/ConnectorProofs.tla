-------------------------- MODULE ConnectorProofs --------------------------
(***************************************************************************)
(* The pool and the freshness of resolved configurations, for any number   *)
(* of requests, collections and connections, and any shapes of queries.    *)
(***************************************************************************)
EXTENDS Connector, FiniteSetTheorems, SequenceTheorems, TLAPS

\* The queue holds waiting requests, each once
QueueSound ==
    /\ \A i \in 1 .. Len(queue) : req[queue[i]].pc = "waiting"
    /\ \A i, j \in 1 .. Len(queue) : queue[i] = queue[j] => i = j

\* A process that is down serves nothing, one that runs does so in the mode it was told
ModeSound ==
    /\ mode = "down" => \A r \in Requests : req[r].pc \in {"new", "done"}
    /\ mode = "json" => \A r \in Requests : req[r].pc \notin {"waiting", "reading"}
    /\ mode # "down" => mode = env.mode

\* What is stored now is among what was stored since a request came
CurrentSound ==
    \A r \in Requests : req[r].pc \in {"waiting", "reading"} =>
        \A c \in Collections : stored[c] \in current[r][c]

\* The names still to read and those already merged are those of the query
NamesSound ==
    \A r \in Requests :
        /\ req[r].pc \in {"new", "waiting"} => req[r].config = Empty
        /\ mode = "postgres" =>
            /\ req[r].pc = "waiting" => req[r].names = CollectedNames(req[r].shape)
            /\ req[r].pc \in {"reading", "planning"}
                 => CollectedNames(req[r].shape)
                        \subseteq req[r].names \cup DOMAIN req[r].config.collections
            /\ req[r].pc = "planning" => req[r].names = {}

IInv ==
    /\ TypeOK
    /\ QueueSound
    /\ ModeSound
    /\ CurrentSound
    /\ NamesSound
    /\ ConnectionsAreReturned
    /\ SchemasAreFresh
    /\ KnownCollectionsPlan

Request == [pc : Pcs, shape : Shapes, names : SUBSET Collections,
            config : Configurations, result : Results]

------------------------------------------------------------------------------
\* Partial functions are functions, and the empty configuration is one of them
LEMMA PartialFunctions ==
    ASSUME NEW S, NEW T
    PROVE  /\ <<>> \in Partial(S, T)
           /\ \A f : f \in Partial(S, T) <=> f \in [DOMAIN f -> T] /\ DOMAIN f \subseteq S
<1>1. <<>> \in [{} -> T] /\ {} \in SUBSET S
  OBVIOUS
<1>2. <<>> \in Partial(S, T)
  BY <1>1 DEF Partial
<1>3. ASSUME NEW f PROVE f \in Partial(S, T) <=> f \in [DOMAIN f -> T] /\ DOMAIN f \subseteq S
  <2>1. ASSUME f \in Partial(S, T) PROVE f \in [DOMAIN f -> T] /\ DOMAIN f \subseteq S
    <3>1. PICK D \in SUBSET S : f \in [D -> T]
      BY <2>1 DEF Partial
    <3> QED
      BY <3>1
  <2>2. ASSUME f \in [DOMAIN f -> T], DOMAIN f \subseteq S PROVE f \in Partial(S, T)
    BY <2>2 DEF Partial
  <2> QED
    BY <2>1, <2>2
<1> QED
  BY <1>2, <1>3

\* Merging a schema into a configuration adds its collection and keeps the others
LEMMA MergedConfiguration ==
    ASSUME NEW config \in Configurations, NEW c \in Collections, NEW s \in Schemas
    PROVE  /\ With(config, c, s) \in Configurations
           /\ DOMAIN With(config, c, s).collections = DOMAIN config.collections \cup {c}
           /\ With(config, c, s).collections[c] = s
           /\ \A d \in DOMAIN config.collections :
                  d # c => With(config, c, s).collections[d] = config.collections[d]
<1> DEFINE new == With(config, c, s)
<1>1. /\ config.collections \in [DOMAIN config.collections -> Schemas]
      /\ DOMAIN config.collections \subseteq Collections
      /\ config.types \in [DOMAIN config.types -> Definitions]
      /\ DOMAIN config.types \subseteq TypeNames
  BY PartialFunctions DEF Configurations
<1>2. s \in [DOMAIN s -> Definitions] /\ DOMAIN s \subseteq TypeNames
  BY SchemasAssumption, PartialFunctions
<1>3. new.collections = [d \in {c} \cup DOMAIN config.collections |->
                            IF d = c THEN s ELSE config.collections[d]]
  BY DEF With, Extend
<1>4. new.types = [n \in DOMAIN s \cup DOMAIN config.types |->
                            IF n \in DOMAIN s THEN s[n] ELSE config.types[n]]
  BY DEF With, Extend
<1>5. new.collections \in Partial(Collections, Schemas)
  <2>1. new.collections \in [DOMAIN new.collections -> Schemas]
    BY <1>1, <1>3
  <2>2. DOMAIN new.collections \subseteq Collections
    BY <1>1, <1>3
  <2> QED
    BY <2>1, <2>2, PartialFunctions
<1>6. new.types \in Partial(TypeNames, Definitions)
  <2>1. new.types \in [DOMAIN new.types -> Definitions]
    BY <1>1, <1>2, <1>4
  <2>2. DOMAIN new.types \subseteq TypeNames
    BY <1>1, <1>2, <1>4
  <2> QED
    BY <2>1, <2>2, PartialFunctions
<1>7. new = [collections |-> new.collections, types |-> new.types]
  BY DEF With
<1> HIDE DEF new
<1>8. new \in Configurations
  BY <1>5, <1>6, <1>7 DEF Configurations
<1> QED
  BY <1>3, <1>8 DEF new

LEMMA EmptyConfiguration == Empty \in Configurations /\ DOMAIN Empty.collections = {}
<1>1. DOMAIN <<>> = {}
  OBVIOUS
<1> QED
  BY <1>1, PartialFunctions DEF Empty, Configurations

\* The pool: a finite set of requests that grows and shrinks by one
LEMMA PoolBound ==
    ASSUME NEW S \in SUBSET Requests, NEW r \in Requests, Cardinality(S) <= MaxSize
    PROVE  /\ Cardinality(S \ {r}) <= MaxSize
           /\ Cardinality(S) < MaxSize => Cardinality(S \cup {r}) <= MaxSize
           /\ Cardinality({}) <= MaxSize
<1>1. IsFiniteSet(S) /\ IsFiniteSet(S \ {r})
  BY RequestsAssumption, FS_Subset
<1>2. Cardinality(S) \in Nat /\ Cardinality(S \ {r}) \in Nat
  BY <1>1, FS_CardinalityType
<1>3. Cardinality(S \ {r}) <= Cardinality(S)
  BY <1>1, FS_Subset
<1>4. Cardinality(S \cup {r}) = IF r \in S THEN Cardinality(S) ELSE Cardinality(S) + 1
  BY <1>1, FS_AddElement
<1> QED
  BY <1>1, <1>2, <1>3, <1>4, SizeAssumption, FS_EmptySet

------------------------------------------------------------------------------
LEMMA InitInvariant == Init => IInv
<1> SUFFICES ASSUME Init PROVE IInv
  OBVIOUS
<1>1. PICK shapes \in [Requests -> Shapes] : req = [r \in Requests |-> NewRequest(shapes[r])]
  BY DEF Init
<1>2. TypeOK
  <2>1. req \in [Requests -> Request]
    BY <1>1, EmptyConfiguration DEF NewRequest, Request, Pcs, Results
  <2>2. queue \in Seq(Requests) /\ static \in Configurations
    BY EmptyConfiguration DEF Init
  <2> QED
    BY <2>1, <2>2 DEF Init, TypeOK, Request
<1>3. \A r \in Requests : req[r].pc = "new" /\ req[r].config = Empty /\ req[r].result = "none"
  BY <1>1 DEF NewRequest
<1>4. QueueSound
  BY DEF Init, QueueSound
<1>5. ModeSound /\ CurrentSound /\ NamesSound /\ SchemasAreFresh /\ KnownCollectionsPlan
  BY <1>3 DEF Init, ModeSound, CurrentSound, NamesSound, SchemasAreFresh, KnownCollectionsPlan
<1>6. ConnectionsAreReturned
  <2>1. held = {} /\ Cardinality(held) = 0
    BY FS_EmptySet DEF Init
  <2> QED
    BY <2>1, <1>3, SizeAssumption DEF ConnectionsAreReturned
<1> QED
  BY <1>2, <1>4, <1>5, <1>6 DEF IInv

\* The queue stays sound while a request that is not in it changes
LEMMA QueueKept ==
    ASSUME TypeOK, QueueSound, queue' = queue, NEW r \in Requests, req[r].pc # "waiting",
           \A q \in Requests : q # r => req'[q] = req[q]
    PROVE  QueueSound'
<1>1. ASSUME NEW i \in 1 .. Len(queue)
      PROVE  queue[i] \in Requests /\ req[queue[i]].pc = "waiting"
  BY DEF TypeOK, QueueSound
<1>2. ASSUME NEW i \in 1 .. Len(queue) PROVE req'[queue[i]].pc = "waiting"
  BY <1>1
<1> QED
  BY <1>2 DEF QueueSound

\* A request that ends: it leaves the pool, and was not in the queue
LEMMA RespondInvariant ==
    ASSUME IInv, NEW r \in Requests, NEW result \in Results, Respond(r, result),
           req[r].pc \in {"reading", "planning"},
           result = "unknown collection" /\ mode = "postgres"
               => ~ (req[r].shape.unrelated \subseteq CollectedNames(req[r].shape))
    PROVE  IInv'
<1> DEFINE state == [req[r] EXCEPT !.pc = "done", !.result = result]
<1> USE DEF IInv
<1>1. /\ req' = [req EXCEPT ![r] = state] /\ held' = held \ {r}
      /\ UNCHANGED <<env, stored, changes, mode, static, queue, current>>
  BY DEF Respond, Set
<1>2. req \in [Requests -> Request] /\ state \in Request
  BY DEF TypeOK, Request, Pcs
<1>3. req'[r].pc = "done" /\ req'[r].result = result /\ req'[r].shape = req[r].shape
  BY <1>1, <1>2 DEF Request
<1>4. \A q \in Requests : q # r => req'[q] = req[q]
  BY <1>1, <1>2
<1> HIDE DEF state
<1>5. TypeOK'
  <2>1. req' \in [Requests -> Request]
    BY <1>1, <1>2
  <2> QED
    BY <2>1, <1>1 DEF TypeOK, Request
<1>6. QueueSound'
  BY <1>1, <1>4, QueueKept
<1>7. ModeSound' /\ CurrentSound'
  BY <1>1, <1>3, <1>4 DEF ModeSound, CurrentSound
<1>8. NamesSound' /\ SchemasAreFresh'
  BY <1>1, <1>3, <1>4 DEF NamesSound, SchemasAreFresh
<1>9. ConnectionsAreReturned'
  <2>1. held' = {q \in Requests : req'[q].pc = "reading"}
    BY <1>1, <1>3, <1>4 DEF ConnectionsAreReturned
  <2>2. Cardinality(held') <= MaxSize
    BY <1>1, PoolBound DEF ConnectionsAreReturned, TypeOK
  <2> QED
    BY <2>1, <2>2 DEF ConnectionsAreReturned
<1>10. KnownCollectionsPlan'
  <2>1. mode = env.mode
    BY DEF ModeSound
  <2> QED
    BY <2>1, <1>1, <1>3, <1>4 DEF KnownCollectionsPlan
<1> QED
  BY <1>5, <1>6, <1>7, <1>8, <1>9, <1>10

\* A request that moves on without a response and without the queue
LEMMA MoveInvariant ==
    ASSUME IInv, NEW r \in Requests, NEW state \in Request, Set(r, state),
           UNCHANGED <<env, stored, changes, mode, static, queue, current>>,
           mode = "postgres",
           req[r].pc = "reading", state.pc \in {"reading", "planning"},
           held' = IF state.pc = "reading" THEN held ELSE held \ {r},
           state.result = req[r].result, state.shape = req[r].shape,
           CollectedNames(state.shape) \subseteq state.names \cup DOMAIN state.config.collections,
           state.pc = "planning" => state.names = {},
           \A c \in DOMAIN state.config.collections :
               state.config.collections[c] \in current[r][c] \ {Deleted}
    PROVE  IInv'
<1> USE DEF IInv
<1>1. req' = [req EXCEPT ![r] = state] /\ req \in [Requests -> Request]
  BY DEF Set, TypeOK, Request
<1>2. req'[r] = state /\ \A q \in Requests : q # r => req'[q] = req[q]
  BY <1>1
<1>3. TypeOK'
  <2>1. held' \subseteq Requests
    BY DEF TypeOK
  <2>2. req' \in [Requests -> Request]
    BY <1>1
  <2> QED
    BY <2>1, <2>2 DEF TypeOK, Request
<1>4. QueueSound'
  BY <1>2, QueueKept
<1>5. ModeSound' /\ CurrentSound'
  BY <1>2 DEF ModeSound, CurrentSound
<1>6. NamesSound'
  BY <1>2 DEF NamesSound
<1>8. SchemasAreFresh'
  BY <1>2 DEF SchemasAreFresh
<1>9. KnownCollectionsPlan'
  BY <1>2 DEF KnownCollectionsPlan
<1>7. ConnectionsAreReturned'
  <2>1. held' = {q \in Requests : req'[q].pc = "reading"}
    BY <1>2 DEF ConnectionsAreReturned
  <2>2. Cardinality(held') <= MaxSize
    BY PoolBound DEF ConnectionsAreReturned, TypeOK
  <2> QED
    BY <2>1, <2>2 DEF ConnectionsAreReturned
<1> QED
  BY <1>3, <1>4, <1>5, <1>6, <1>7, <1>8, <1>9

LEMMA ReadInvariant ==
    ASSUME IInv, NEW r \in Requests, ReadSchema(r) PROVE IInv'
<1> USE DEF IInv
<1>1. PICK c \in Collections :
        /\ stored[c] # Deleted
        /\ Set(r, [req[r] EXCEPT !.names  = @ \ {c}, !.config = With(@, c, stored[c])])
  BY DEF ReadSchema
<1> DEFINE state == [req[r] EXCEPT !.names  = @ \ {c}, !.config = With(@, c, stored[c])]
<1>2. req[r] \in Request /\ stored[c] \in Schemas /\ req[r].pc = "reading"
  BY <1>1 DEF TypeOK, Request, ReadSchema
<1>3. req[r].config \in Configurations
  BY <1>2 DEF Request
<1>4. /\ With(req[r].config, c, stored[c]) \in Configurations
      /\ DOMAIN With(req[r].config, c, stored[c]).collections
            = DOMAIN req[r].config.collections \cup {c}
      /\ With(req[r].config, c, stored[c]).collections[c] = stored[c]
      /\ \A d \in DOMAIN req[r].config.collections :
            d # c => With(req[r].config, c, stored[c]).collections[d] = req[r].config.collections[d]
  BY <1>2, <1>3, MergedConfiguration
<1>5. /\ state \in Request /\ state.pc = "reading" /\ state.result = req[r].result
      /\ state.shape = req[r].shape /\ state.names = req[r].names \ {c}
      /\ state.config = With(req[r].config, c, stored[c])
  BY <1>2, <1>4 DEF Request
<1>6. mode = "postgres"
  BY <1>2 DEF ModeSound, TypeOK
<1>7. CollectedNames(state.shape) \subseteq state.names \cup DOMAIN state.config.collections
  BY <1>2, <1>4, <1>5, <1>6 DEF NamesSound
<1>8. ASSUME NEW d \in DOMAIN state.config.collections
      PROVE  state.config.collections[d] \in current[r][d] \ {Deleted}
  <2>1. CASE d = c
    BY <2>1, <1>1, <1>2, <1>4, <1>5 DEF CurrentSound
  <2>2. CASE d # c
    BY <2>2, <1>2, <1>4, <1>5, <1>6 DEF SchemasAreFresh
  <2> QED
    BY <2>1, <2>2
<1>9. UNCHANGED <<env, stored, changes, mode, static, queue, held, current>>
  BY DEF ReadSchema
<1>10. Set(r, state)
  BY <1>1
<1> HIDE DEF state
<1> QED
  BY <1>2, <1>5, <1>6, <1>7, <1>8, <1>9, <1>10, MoveInvariant

LEMMA ResolvedInvariant ==
    ASSUME IInv, NEW r \in Requests, Resolved(r) PROVE IInv'
<1> USE DEF IInv
<1> DEFINE state == [req[r] EXCEPT !.pc = "planning"]
<1>1. req[r] \in Request /\ req[r].pc = "reading" /\ req[r].names = {}
  BY DEF TypeOK, Request, Resolved
<1>2. /\ state \in Request /\ state.pc = "planning" /\ state.result = req[r].result
      /\ state.shape = req[r].shape /\ state.names = {} /\ state.config = req[r].config
  BY <1>1 DEF Request, Pcs
<1>3. mode = "postgres"
  BY <1>1 DEF ModeSound, TypeOK
<1>4. CollectedNames(state.shape) \subseteq state.names \cup DOMAIN state.config.collections
  BY <1>1, <1>2, <1>3 DEF NamesSound
<1>5. \A c \in DOMAIN state.config.collections :
          state.config.collections[c] \in current[r][c] \ {Deleted}
  BY <1>1, <1>2, <1>3 DEF SchemasAreFresh
<1>6. /\ Set(r, state) /\ held' = held \ {r}
      /\ UNCHANGED <<env, stored, changes, mode, static, queue, current>>
  BY DEF Resolved
<1> HIDE DEF state
<1> QED
  BY <1>1, <1>2, <1>3, <1>4, <1>5, <1>6, MoveInvariant

LEMMA PlanInvariant ==
    ASSUME IInv, NEW r \in Requests, Plan(r) PROVE IInv'
<1> USE DEF IInv
<1> DEFINE known  == PlannedNames(req[r].shape) \subseteq DOMAIN req[r].config.collections
           result == IF known THEN "ok" ELSE "unknown collection"
<1>1. req[r].pc = "planning" /\ Respond(r, result) /\ result \in Results
  BY DEF Plan, Results
<1>2. ASSUME result = "unknown collection", mode = "postgres"
      PROVE  ~ (req[r].shape.unrelated \subseteq CollectedNames(req[r].shape))
  <2>1. CollectedNames(req[r].shape) \subseteq DOMAIN req[r].config.collections
    BY <1>1, <1>2 DEF NamesSound
  <2>2. ~ known
    BY <1>2
  <2> QED
    BY <2>1, <2>2 DEF PlannedNames, CollectedNames
<1> HIDE DEF result
<1> QED
  BY <1>1, <1>2, RespondInvariant

\* The head of the queue leaves it
LEMMA HeadLeaves ==
    ASSUME IInv, queue # <<>>
    PROVE  /\ Head(queue) \in Requests /\ Tail(queue) \in Seq(Requests)
           /\ req[Head(queue)].pc = "waiting"
           /\ \A i \in 1 .. Len(Tail(queue)) :
                 /\ Tail(queue)[i] \in Requests
                 /\ req[Tail(queue)[i]].pc = "waiting"
                 /\ Tail(queue)[i] # Head(queue)
           /\ \A i, j \in 1 .. Len(Tail(queue)) : Tail(queue)[i] = Tail(queue)[j] => i = j
<1>1. queue \in Seq(Requests) /\ Len(queue) \in Nat /\ Len(queue) >= 1
  BY DEF IInv, TypeOK
<1>2. /\ Head(queue) = queue[1] /\ Tail(queue) \in Seq(Requests)
      /\ Len(Tail(queue)) = Len(queue) - 1
      /\ \A i \in 1 .. Len(Tail(queue)) : Tail(queue)[i] = queue[i + 1]
  BY <1>1, HeadTailProperties
<1> QED
  BY <1>1, <1>2 DEF IInv, QueueSound

LEMMA AcquireInvariant ==
    ASSUME IInv, NEW r \in Requests, Acquire(r) \/ AcquireFails(r) PROVE IInv'
<1> USE DEF IInv
<1>1. PICK state \in Request :
        /\ queue # <<>> /\ r = Head(queue) /\ queue' = Tail(queue)
        /\ Cardinality(held) < MaxSize
        /\ req' = [req EXCEPT ![r] = state]
        /\ state.shape = req[r].shape /\ state.names = req[r].names /\ state.config = req[r].config
        /\ \/ state.pc = "reading" /\ held' = held \cup {r} /\ state.result = req[r].result
           \/ state.pc = "done" /\ held' = held /\ state.result = "failed"
        /\ UNCHANGED <<env, stored, changes, mode, static, current>>
  <2>1. req[r] \in Request
    BY DEF TypeOK, Request
  <2>2. CASE Acquire(r)
    <3>1. [req[r] EXCEPT !.pc = "reading"] \in Request
      BY <2>1 DEF Request, Pcs
    <3> QED
      BY <2>1, <2>2, <3>1 DEF Acquire, Set, Request
  <2>3. CASE AcquireFails(r)
    <3>1. [req[r] EXCEPT !.pc = "done", !.result = "failed"] \in Request
      BY <2>1 DEF Request, Pcs, Results
    <3> QED
      BY <2>1, <2>3, <3>1 DEF AcquireFails, Set, Request
  <2> QED
    BY <2>2, <2>3
<1>2. req \in [Requests -> Request]
  BY DEF TypeOK, Request
<1>3. req'[r] = state /\ \A q \in Requests : q # r => req'[q] = req[q]
  BY <1>1, <1>2
<1>4. req[r].pc = "waiting"
  BY <1>1, HeadLeaves
<1>5. mode = "postgres"
  BY <1>4 DEF ModeSound, TypeOK
<1>6. TypeOK'
  <2>1. req' \in [Requests -> Request]
    BY <1>1, <1>2
  <2>2. queue' \in Seq(Requests) /\ held' \subseteq Requests
    BY <1>1, HeadLeaves DEF TypeOK
  <2> QED
    BY <1>1, <2>1, <2>2 DEF TypeOK, Request
<1>7. QueueSound'
  BY <1>1, <1>3, HeadLeaves DEF QueueSound
<1>8. ModeSound' /\ CurrentSound'
  BY <1>1, <1>3, <1>4, <1>5 DEF ModeSound, CurrentSound
<1>9. NamesSound' /\ SchemasAreFresh'
  BY <1>1, <1>3, <1>4, EmptyConfiguration DEF NamesSound, SchemasAreFresh
<1>10. KnownCollectionsPlan'
  BY <1>1, <1>3 DEF KnownCollectionsPlan
<1>11. ConnectionsAreReturned'
  <2>1. held' = {q \in Requests : req'[q].pc = "reading"}
    BY <1>1, <1>3, <1>4 DEF ConnectionsAreReturned
  <2>2. Cardinality(held') <= MaxSize
    BY <1>1, PoolBound DEF ConnectionsAreReturned, TypeOK
  <2> QED
    BY <2>1, <2>2 DEF ConnectionsAreReturned
<1> QED
  BY <1>6, <1>7, <1>8, <1>9, <1>10, <1>11

LEMMA ReceiveInvariant ==
    ASSUME IInv, NEW r \in Requests, Receive(r) PROVE IInv'
<1> USE DEF IInv
<1>1. PICK state \in Request :
        /\ req[r].pc = "new" /\ mode # "down"
        /\ req' = [req EXCEPT ![r] = state]
        /\ state.shape = req[r].shape /\ state.result = req[r].result
        /\ \/ /\ mode = "json" /\ state.pc = "planning" /\ queue' = queue
           \/ /\ mode = "postgres" /\ state.pc = "waiting" /\ queue' = Append(queue, r)
              /\ state.names = CollectedNames(state.shape) /\ state.config = req[r].config
        /\ current' = [current EXCEPT ![r] = [c \in Collections |-> {stored[c]}]]
        /\ UNCHANGED <<env, stored, changes, mode, static, held>>
  <2>1. req[r] \in Request /\ static \in Configurations
    BY DEF TypeOK, Request
  <2>2. CollectedNames(req[r].shape) \subseteq Collections
    <3>1. IsShape(req[r].shape)
      BY <2>1, ShapesAssumption DEF Request
    <3> QED
      BY <3>1 DEF IsShape, CollectedNames
  <2>3. CASE mode = "json"
    <3>1. [req[r] EXCEPT !.pc = "planning", !.config = static] \in Request
      BY <2>1 DEF Request, Pcs
    <3> QED
      BY <2>1, <2>3, <3>1 DEF Receive, Set, Request
  <2>4. CASE mode = "postgres"
    <3>1. [req[r] EXCEPT !.pc = "waiting", !.names = CollectedNames(req[r].shape)] \in Request
      BY <2>1, <2>2 DEF Request, Pcs
    <3> QED
      BY <2>1, <2>4, <3>1 DEF Receive, Set, Request
  <2> QED
    BY <2>3, <2>4 DEF Receive, TypeOK
<1>2. req \in [Requests -> Request] /\ queue \in Seq(Requests)
  BY DEF TypeOK, Request
<1>3. req'[r] = state /\ \A q \in Requests : q # r => req'[q] = req[q]
  BY <1>1, <1>2
<1>4. /\ current' \in [Requests -> [Collections -> SUBSET (Schemas \cup {Deleted})]]
      /\ \A c \in Collections : stored[c] \in current'[r][c]
      /\ \A q \in Requests : q # r => current'[q] = current[q]
  <2>1. [c \in Collections |-> {stored[c]}] \in [Collections -> SUBSET (Schemas \cup {Deleted})]
    BY DEF TypeOK
  <2> QED
    BY <2>1, <1>1 DEF TypeOK
<1>5. TypeOK'
  <2>1. req' \in [Requests -> Request]
    BY <1>1, <1>2
  <2>2. queue' \in Seq(Requests)
    BY <1>1, <1>2, AppendProperties
  <2> QED
    BY <1>1, <1>4, <2>1, <2>2 DEF TypeOK, Request
<1>6. QueueSound'
  <2>1. CASE queue' = queue
    BY <1>1, <1>3, <2>1, QueueKept
  <2>2. CASE queue' = Append(queue, r) /\ state.pc = "waiting"
    <3>1. ASSUME NEW i \in 1 .. Len(queue)
          PROVE  queue[i] \in Requests /\ req[queue[i]].pc = "waiting" /\ queue[i] # r
      BY <1>1 DEF TypeOK, QueueSound
    <3>2. /\ Len(queue') = Len(queue) + 1 /\ queue'[Len(queue) + 1] = r
          /\ \A i \in 1 .. Len(queue) : queue'[i] = queue[i]
      BY <1>2, <2>2, AppendProperties
    <3>3. Len(queue) \in Nat
      BY <1>2
    <3>4. \A i \in 1 .. Len(queue') : i \in 1 .. Len(queue) \/ i = Len(queue) + 1
      BY <3>2, <3>3
    <3>5. \A i \in 1 .. Len(queue') : req'[queue'[i]].pc = "waiting"
      BY <1>3, <2>2, <3>1, <3>2, <3>4
    <3>6. \A i, j \in 1 .. Len(queue') : queue'[i] = queue'[j] => i = j
      BY <3>1, <3>2, <3>4 DEF QueueSound
    <3> QED
      BY <3>5, <3>6 DEF QueueSound
  <2> QED
    BY <1>1, <2>1, <2>2
<1>7. ModeSound' /\ CurrentSound'
  BY <1>1, <1>3, <1>4 DEF ModeSound, CurrentSound
<1>8. NamesSound'
  BY <1>1, <1>3 DEF NamesSound
<1>9. SchemasAreFresh'
  BY <1>1, <1>3, <1>4 DEF SchemasAreFresh
<1>10. KnownCollectionsPlan'
  BY <1>1, <1>3 DEF KnownCollectionsPlan
<1>11. ConnectionsAreReturned'
  BY <1>1, <1>3 DEF ConnectionsAreReturned
<1> QED
  BY <1>5, <1>6, <1>7, <1>8, <1>9, <1>10, <1>11

LEMMA GoneInvariant ==
    ASSUME IInv, NEW r \in Requests, ClientGoesAway(r) PROVE IInv'
<1> USE DEF IInv
<1>1. PICK state \in Request :
        /\ req' = [req EXCEPT ![r] = state]
        /\ state.pc = "done" /\ state.result = "gone"
        /\ held' = held \ {r}
        /\ \/ req[r].pc # "waiting" /\ queue' = queue
           \/ \E k \in 1 .. Len(queue) :
                /\ queue[k] = r
                /\ queue' = [j \in 1 .. Len(queue) - 1 |->
                                IF j < k THEN queue[j] ELSE queue[j + 1]]
        /\ UNCHANGED <<env, stored, changes, mode, static, current>>
  <2>1. req[r] \in Request
    BY DEF TypeOK, Request
  <2>2. [req[r] EXCEPT !.pc = "done", !.result = "gone"] \in Request
    BY <2>1 DEF Request, Pcs, Results
  <2> QED
    BY <2>1, <2>2 DEF ClientGoesAway, Set, Request
<1>2. req \in [Requests -> Request] /\ queue \in Seq(Requests)
  BY DEF TypeOK, Request
<1>3. req'[r] = state /\ \A q \in Requests : q # r => req'[q] = req[q]
  BY <1>1, <1>2
<1>4. QueueSound' /\ queue' \in Seq(Requests)
  <2>1. CASE req[r].pc # "waiting" /\ queue' = queue
    BY <1>2, <1>3, <2>1, QueueKept
  <2>2. ASSUME NEW k \in 1 .. Len(queue), queue[k] = r,
               queue' = [j \in 1 .. Len(queue) - 1 |->
                            IF j < k THEN queue[j] ELSE queue[j + 1]]
        PROVE  QueueSound' /\ queue' \in Seq(Requests)
    <3> DEFINE at(j) == IF j < k THEN j ELSE j + 1
    <3>1. Len(queue) \in Nat /\ Len(queue) - 1 \in Nat /\ k \in Nat
      BY <1>2
    <3>2. ASSUME NEW j \in 1 .. Len(queue) - 1
          PROVE  at(j) \in 1 .. Len(queue) /\ at(j) # k /\ queue'[j] = queue[at(j)]
      BY <2>2, <3>1
    <3>3. ASSUME NEW i \in 1 .. Len(queue), i # k
          PROVE  queue[i] \in Requests /\ req[queue[i]].pc = "waiting" /\ queue[i] # r
      BY <1>2, <2>2, <3>3 DEF QueueSound
    <3>4. \A i, j \in 1 .. Len(queue) - 1 : at(i) = at(j) => i = j
      BY <3>1
    <3>5. queue' \in [1 .. Len(queue) - 1 -> Requests]
      BY <2>2, <3>2, <3>3
    <3>6. queue' \in Seq(Requests) /\ Len(queue') = Len(queue) - 1
      <4> DEFINE n == Len(queue) - 1
      <4>1. n \in Nat /\ queue' \in [1 .. n -> Requests]
        BY <3>1, <3>5
      <4> HIDE DEF n
      <4>2. queue' \in Seq(Requests) /\ Len(queue') = n
        BY <4>1
      <4> QED
        BY <4>2 DEF n
    <3> HIDE DEF at
    <3>7. \A j \in 1 .. Len(queue') : req'[queue'[j]].pc = "waiting"
      BY <1>3, <3>2, <3>3, <3>6
    <3>8. ASSUME NEW i \in 1 .. Len(queue'), NEW j \in 1 .. Len(queue'), queue'[i] = queue'[j]
          PROVE  i = j
      <4>1. i \in 1 .. Len(queue) - 1 /\ j \in 1 .. Len(queue) - 1
        BY <3>6
      <4>2. /\ at(i) \in 1 .. Len(queue) /\ at(j) \in 1 .. Len(queue)
            /\ queue[at(i)] = queue[at(j)]
        BY <3>2, <3>8, <4>1
      <4>3. at(i) = at(j)
        BY <4>2 DEF QueueSound
      <4> QED
        BY <3>4, <4>1, <4>3
    <3> QED
      BY <3>6, <3>7, <3>8 DEF QueueSound
  <2> QED
    BY <1>1, <2>1, <2>2
<1>5. TypeOK'
  <2>1. req' \in [Requests -> Request] /\ held' \subseteq Requests
    BY <1>1, <1>2 DEF TypeOK
  <2> QED
    BY <1>1, <1>4, <2>1 DEF TypeOK, Request
<1>6. ModeSound' /\ CurrentSound'
  BY <1>1, <1>3 DEF ModeSound, CurrentSound
<1>7. NamesSound'
  BY <1>1, <1>3 DEF NamesSound
<1>8. SchemasAreFresh'
  BY <1>1, <1>3 DEF SchemasAreFresh
<1>9. KnownCollectionsPlan'
  BY <1>1, <1>3 DEF KnownCollectionsPlan
<1>10. ConnectionsAreReturned'
  <2>1. held' = {q \in Requests : req'[q].pc = "reading"}
    BY <1>1, <1>3 DEF ConnectionsAreReturned
  <2>2. Cardinality(held') <= MaxSize
    BY <1>1, PoolBound DEF ConnectionsAreReturned, TypeOK
  <2> QED
    BY <2>1, <2>2 DEF ConnectionsAreReturned
<1> QED
  BY <1>4, <1>5, <1>6, <1>7, <1>8, <1>9, <1>10

LEMMA ChangeInvariant ==
    ASSUME IInv, NEW c \in Collections, NEW s \in Schemas \cup {Deleted}, SchemaChanges(c, s)
    PROVE  IInv'
<1> USE DEF IInv
<1>1. /\ stored' = [stored EXCEPT ![c] = s] /\ changes' = changes + 1
      /\ current' = [r \in Requests |->
                        IF req[r].pc \in {"waiting", "reading"}
                        THEN [current[r] EXCEPT ![c] = @ \cup {s}] ELSE current[r]]
      /\ UNCHANGED <<env, mode, static, queue, held, req>>
  BY DEF SchemaChanges
<1>2. /\ current' \in [Requests -> [Collections -> SUBSET (Schemas \cup {Deleted})]]
      /\ \A r \in Requests, d \in Collections : current[r][d] \subseteq current'[r][d]
      /\ \A r \in Requests : req[r].pc \in {"waiting", "reading"} => s \in current'[r][c]
  BY <1>1 DEF TypeOK
<1>3. TypeOK'
  BY <1>1, <1>2 DEF TypeOK
<1>4. QueueSound' /\ ModeSound' /\ NamesSound' /\ ConnectionsAreReturned' /\ KnownCollectionsPlan'
  BY <1>1 DEF QueueSound, ModeSound, NamesSound, ConnectionsAreReturned, KnownCollectionsPlan
<1>5. CurrentSound'
  BY <1>1, <1>2 DEF CurrentSound, TypeOK
<1>6. SchemasAreFresh'
  <2>1. ASSUME NEW r \in Requests PROVE DOMAIN req[r].config.collections \subseteq Collections
    <3>1. req[r].config.collections \in Partial(Collections, Schemas)
      BY DEF TypeOK, Configurations
    <3> QED
      BY <3>1, PartialFunctions
  <2> QED
    BY <1>1, <1>2, <2>1 DEF SchemasAreFresh
<1> QED
  BY <1>3, <1>4, <1>5, <1>6

LEMMA StartInvariant == IInv /\ (StartStatic \/ StartPostgres) => IInv'
<1> SUFFICES ASSUME IInv, StartStatic \/ StartPostgres PROVE IInv'
  OBVIOUS
<1> USE DEF IInv
<1>1. /\ mode = "down" /\ mode' = env.mode /\ mode' \in {"json", "postgres"}
      /\ static' \in Configurations
      /\ UNCHANGED <<env, stored, changes, queue, held, req, current>>
  BY DEF StartStatic, StartPostgres, TypeOK
<1>2. TypeOK'
  BY <1>1 DEF TypeOK
<1>3. \A r \in Requests : req[r].pc \in {"new", "done"}
  BY <1>1 DEF ModeSound
<1>4. QueueSound' /\ ModeSound' /\ CurrentSound' /\ ConnectionsAreReturned' /\ KnownCollectionsPlan'
  BY <1>1, <1>3 DEF QueueSound, ModeSound, CurrentSound, ConnectionsAreReturned, KnownCollectionsPlan
<1>5. NamesSound' /\ SchemasAreFresh'
  BY <1>1, <1>3 DEF NamesSound, SchemasAreFresh
<1> QED
  BY <1>2, <1>4, <1>5

LEMMA CrashInvariant == IInv /\ Crash => IInv'
<1> SUFFICES ASSUME IInv, Crash PROVE IInv'
  OBVIOUS
<1> USE DEF IInv
<1>1. /\ mode' = "down" /\ static' = Empty /\ queue' = <<>> /\ held' = {}
      /\ req' = [r \in Requests |->
                    IF req[r].pc \in {"new", "done"} THEN req[r]
                    ELSE [req[r] EXCEPT !.pc = "done", !.result = "gone"]]
      /\ UNCHANGED <<env, stored, changes, current>>
  BY DEF Crash
<1>2. ASSUME NEW r \in Requests
      PROVE  /\ req'[r] \in Request /\ req'[r].pc \in {"new", "done"}
             /\ req'[r].pc = "new" => req'[r] = req[r]
             /\ req'[r].shape = req[r].shape
             /\ req'[r].result \in {req[r].result, "gone"}
  <2>1. req[r] \in Request
    BY DEF TypeOK, Request
  <2>2. CASE req[r].pc \in {"new", "done"}
    BY <1>1, <2>1, <2>2
  <2>3. CASE req[r].pc \notin {"new", "done"}
    <3>1. req'[r] = [req[r] EXCEPT !.pc = "done", !.result = "gone"]
      BY <1>1, <2>3
    <3> QED
      BY <2>1, <3>1 DEF Request, Pcs, Results
  <2> QED
    BY <2>2, <2>3
<1>3. TypeOK'
  <2>1. req' \in [Requests -> Request]
    BY <1>1, <1>2
  <2>2. queue' \in Seq(Requests) /\ held' \subseteq Requests /\ static' \in Configurations
    <3>1. <<>> \in Seq(Requests) /\ {} \subseteq Requests
      OBVIOUS
    <3> QED
      BY <1>1, <3>1, EmptyConfiguration
  <2> QED
    BY <1>1, <2>1, <2>2 DEF TypeOK, Request
<1>4. QueueSound'
  <2>1. Len(queue') = 0
    BY <1>1
  <2> QED
    BY <2>1 DEF QueueSound
<1>5. ModeSound' /\ CurrentSound' /\ SchemasAreFresh'
  BY <1>1, <1>2 DEF ModeSound, CurrentSound, SchemasAreFresh
<1>6. NamesSound'
  BY <1>1, <1>2 DEF NamesSound
<1>7. KnownCollectionsPlan'
  <2>1. ASSUME NEW r \in Requests, env.mode = "postgres", req'[r].result = "unknown collection"
        PROVE  ~ (req'[r].shape.unrelated \subseteq CollectedNames(req'[r].shape))
    <3>1. req[r].result = "unknown collection" /\ req'[r].shape = req[r].shape
      BY <1>2, <2>1
    <3> QED
      BY <2>1, <3>1 DEF KnownCollectionsPlan
  <2> QED
    BY <1>1, <2>1 DEF KnownCollectionsPlan
<1>8. ConnectionsAreReturned'
  <2>1. held' = {q \in Requests : req'[q].pc = "reading"}
    BY <1>1, <1>2
  <2>2. Cardinality(held') <= MaxSize
    <3>1. Cardinality({}) = 0
      BY FS_EmptySet
    <3>2. held' = {}
      BY <1>1
    <3>3. Cardinality(held') = 0
      BY <3>1, <3>2, Zenon
    <3>4. 0 <= MaxSize
      BY SizeAssumption
    <3> QED
      BY <3>3, <3>4
  <2> QED
    BY <2>1, <2>2 DEF ConnectionsAreReturned
<1> QED
  BY <1>3, <1>4, <1>5, <1>6, <1>7, <1>8

\* No step of the connector, of its clients or of the store breaks the invariant
LEMMA StepInvariant == IInv /\ [Next]_vars => IInv'
<1> SUFFICES ASSUME IInv, [Next]_vars PROVE IInv'
  OBVIOUS
<1>1. CASE StartStatic \/ StartPostgres
  BY <1>1, StartInvariant
<1>2. CASE Crash
  BY <1>2, CrashInvariant
<1>3. ASSUME NEW r \in Requests, Receive(r) PROVE IInv'
  BY <1>3, ReceiveInvariant
<1>4. ASSUME NEW r \in Requests, Acquire(r) \/ AcquireFails(r) PROVE IInv'
  BY <1>4, AcquireInvariant
<1>5. ASSUME NEW r \in Requests, ReadSchema(r) PROVE IInv'
  BY <1>5, ReadInvariant
<1>6. ASSUME NEW r \in Requests, ReadFindsNone(r) \/ ReadFails(r) PROVE IInv'
  <2>1. req[r].pc = "reading" /\ Respond(r, "failed")
    BY <1>6 DEF ReadFindsNone, ReadFails
  <2>2. "failed" \in Results /\ "failed" # "unknown collection"
    BY DEF Results
  <2> QED
    BY <2>1, <2>2, RespondInvariant
<1>7. ASSUME NEW r \in Requests, Resolved(r) PROVE IInv'
  BY <1>7, ResolvedInvariant
<1>8. ASSUME NEW r \in Requests, Plan(r) PROVE IInv'
  BY <1>8, PlanInvariant
<1>9. ASSUME NEW r \in Requests, ClientGoesAway(r) PROVE IInv'
  BY <1>9, GoneInvariant
<1>10. ASSUME NEW c \in Collections, NEW s \in Schemas \cup {Deleted}, SchemaChanges(c, s)
       PROVE  IInv'
  BY <1>10, ChangeInvariant
<1>11. CASE UNCHANGED vars
  <2>1. UNCHANGED <<env, stored, changes, mode, static, queue, held, req, current>>
    BY <1>11 DEF vars
  <2>2. TypeOK' /\ QueueSound' /\ ModeSound' /\ CurrentSound'
    BY <2>1 DEF IInv, TypeOK, QueueSound, ModeSound, CurrentSound
  <2>3. NamesSound' /\ ConnectionsAreReturned' /\ SchemasAreFresh' /\ KnownCollectionsPlan'
    BY <2>1 DEF IInv, NamesSound, ConnectionsAreReturned, SchemasAreFresh, KnownCollectionsPlan
  <2> QED
    BY <2>2, <2>3 DEF IInv
<1> QED
  BY <1>1, <1>2, <1>3, <1>4, <1>5, <1>6, <1>7, <1>8, <1>9, <1>10, <1>11 DEF Next, Step

\* The inductive invariant holds in every behaviour of the connector.
THEOREM Invariance == Spec => []IInv
<1> QED
  BY InitInvariant, StepInvariant, PTL DEF Spec

------------------------------------------------------------------------------
\* The variables of the connector and of its requests keep their types.
THEOREM TypeCorrect == Spec => []TypeOK
<1>1. IInv => TypeOK
  BY DEF IInv
<1> QED
  BY <1>1, Invariance, PTL

\* The pool of the config store is never exceeded and no connection is kept by a
\* request that has ended, for any size of the pool and number of requests.
THEOREM PoolIsSound == Spec => []ConnectionsAreReturned
<1>1. IInv => ConnectionsAreReturned
  BY DEF IInv
<1> QED
  BY <1>1, Invariance, PTL

\* In postgres mode no query is planned with a schema that the store had only
\* before the query came, however the store changes meanwhile.
THEOREM Freshness == Spec => []SchemasAreFresh
<1>1. IInv => SchemasAreFresh
  BY DEF IInv
<1> QED
  BY <1>1, Invariance, PTL

\* In postgres mode only an unrelated collection can be unknown to the planner.
THEOREM KnownCollections == Spec => []KnownCollectionsPlan
<1>1. IInv => KnownCollectionsPlan
  BY DEF IInv
<1> QED
  BY <1>1, Invariance, PTL

------------------------------------------------------------------------------
\* The object types of a configuration are a function of its schemas.

\* While a request reads, what it has read comes before what it is to read, so that the next
\* schema is the last of those read; a configuration is folded from whatever was read.
Ordered(config, names) ==
    \A i, j \in DOMAIN Order :
        Order[i] \in DOMAIN config.collections /\ Order[j] \in names => i < j
TypesSound ==
    /\ AreFolded(static)
    /\ \A r \in Requests :
        /\ req[r].pc \in {"reading", "planning"} => AreFolded(req[r].config)
        /\ req[r].pc = "reading" => Ordered(req[r].config, req[r].names)

\* Before anything is read there is nothing to fold.
LEMMA FoldedEmpty == AreFolded(Empty) /\ \A names : Ordered(Empty, names)
<1>1. DOMAIN Empty.collections = {} /\ DOMAIN Empty.types = {}
  BY DEF Empty
<1> QED
  BY <1>1 DEF AreFolded, Ordered

\* The next schema in order is folded on top of those before it.
LEMMA FoldedStep ==
    ASSUME NEW config, AreFolded(config), NEW names, Ordered(config, names),
           NEW c \in Collections, IsNext(c, names), NEW s
    PROVE  /\ AreFolded(With(config, c, s))
           /\ Ordered(With(config, c, s), names \ {c})
<1> DEFINE new == With(config, c, s)
           Defines(i, n) == Order[i] \in DOMAIN config.collections /\ n \in DOMAIN config.collections[Order[i]]
           DefinesNew(i, n) == Order[i] \in DOMAIN new.collections /\ n \in DOMAIN new.collections[Order[i]]
<1>1. /\ DOMAIN new.collections = DOMAIN config.collections \cup {c}
      /\ new.collections[c] = s
      /\ \A d \in DOMAIN config.collections : d # c => new.collections[d] = config.collections[d]
  BY DEF With, Extend
<1>2. /\ DOMAIN new.types = DOMAIN config.types \cup DOMAIN s
      /\ \A n \in DOMAIN new.types : new.types[n] = IF n \in DOMAIN s THEN s[n] ELSE config.types[n]
  BY DEF With, Extend
<1> HIDE DEF new
<1>3. PICK k \in DOMAIN Order : /\ Order[k] = c /\ c \in names
                               /\ \A j \in DOMAIN Order : Order[j] \in names => k <= j
  BY DEF IsNext
<1>4. DOMAIN Order \subseteq Nat
  BY OrderAssumption
<1>5. \A i \in DOMAIN Order : Order[i] \in DOMAIN config.collections => i < k
  BY <1>3 DEF Ordered
<1>6. \A i \in DOMAIN Order : Order[i] = c => i = k
  BY <1>3, OrderAssumption
<1>7. c \notin DOMAIN config.collections
  BY <1>3, <1>4, <1>5
<1>8. \A n : n \in DOMAIN config.types <=> \E d \in DOMAIN config.collections : n \in DOMAIN config.collections[d]
  BY DEF AreFolded
<1>9. DOMAIN new.types = UNION {DOMAIN new.collections[d] : d \in DOMAIN new.collections}
  <2>1. ASSUME NEW n
        PROVE  n \in DOMAIN new.types <=> \E d \in DOMAIN new.collections : n \in DOMAIN new.collections[d]
    BY <1>1, <1>2, <1>7, <1>8
  <2> QED
    BY <2>1
<1>10. ASSUME NEW n \in DOMAIN new.types
       PROVE  \E i \in DOMAIN Order :
                /\ DefinesNew(i, n) /\ \A j \in DOMAIN Order : DefinesNew(j, n) => j <= i
                /\ new.types[n] = new.collections[Order[i]][n]
  <2>1. CASE n \in DOMAIN s
    <3>1. DefinesNew(k, n) /\ new.types[n] = new.collections[Order[k]][n]
      BY <2>1, <1>1, <1>2, <1>3
    <3>2. ASSUME NEW j \in DOMAIN Order, DefinesNew(j, n) PROVE j <= k
      <4>1. Order[j] \in DOMAIN config.collections \/ Order[j] = c
        BY <3>2, <1>1
      <4> QED
        BY <4>1, <1>4, <1>5, <1>6
    <3> QED
      BY <3>1, <3>2
  <2>2. CASE n \notin DOMAIN s
    <3>1. n \in DOMAIN config.types /\ new.types[n] = config.types[n]
      BY <2>2, <1>2
    <3>2. PICK i \in DOMAIN Order : /\ Defines(i, n) /\ \A j \in DOMAIN Order : Defines(j, n) => j <= i
                                   /\ config.types[n] = config.collections[Order[i]][n]
      BY <3>1 DEF AreFolded
    <3>3. DefinesNew(i, n) /\ new.types[n] = new.collections[Order[i]][n]
      BY <3>1, <3>2, <1>1, <1>7
    <3>4. ASSUME NEW j \in DOMAIN Order, DefinesNew(j, n) PROVE j <= i
      <4>1. Order[j] # c
        BY <3>4, <2>2, <1>1
      <4>2. Defines(j, n)
        BY <4>1, <3>4, <1>1
      <4> QED
        BY <4>2, <3>2
    <3> QED
      BY <3>3, <3>4
  <2> QED
    BY <2>1, <2>2
<1>11. AreFolded(new)
  BY <1>9, <1>10 DEF AreFolded
<1>12. Ordered(new, names \ {c})
  <2> SUFFICES ASSUME NEW i \in DOMAIN Order, NEW j \in DOMAIN Order,
                      Order[i] \in DOMAIN new.collections, Order[j] \in names \ {c}
               PROVE  i < j
    BY DEF Ordered
  <2>1. CASE Order[i] \in DOMAIN config.collections
    BY <2>1 DEF Ordered
  <2>2. CASE Order[i] = c
    <3>1. i = k /\ k <= j /\ j # k
      BY <2>2, <1>3, <1>6
    <3> QED
      BY <3>1, <1>4
  <2> QED
    BY <2>1, <2>2, <1>1
<1> QED
  BY <1>11, <1>12 DEF new

\* Two configurations folded from the same schemas have the same object types.
LEMMA FoldedUnique ==
    ASSUME NEW f \in Configurations, NEW g \in Configurations, AreFolded(f), AreFolded(g),
           f.collections = g.collections
    PROVE  f.types = g.types
<1>1. f.types \in [DOMAIN f.types -> Definitions] /\ g.types \in [DOMAIN g.types -> Definitions]
  BY PartialFunctions DEF Configurations
<1>2. DOMAIN f.types = DOMAIN g.types
  BY DEF AreFolded
<1>3. ASSUME NEW n \in DOMAIN f.types PROVE f.types[n] = g.types[n]
  <2> DEFINE Defines(i) == Order[i] \in DOMAIN f.collections /\ n \in DOMAIN f.collections[Order[i]]
  <2>1. PICK i \in DOMAIN Order : /\ Defines(i) /\ \A j \in DOMAIN Order : Defines(j) => j <= i
                                 /\ f.types[n] = f.collections[Order[i]][n]
    BY DEF AreFolded
  <2>2. PICK k \in DOMAIN Order : /\ Defines(k) /\ \A j \in DOMAIN Order : Defines(j) => j <= k
                                 /\ g.types[n] = f.collections[Order[k]][n]
    BY <1>2 DEF AreFolded
  <2>3. i = k
    <3>1. i \in Nat /\ k \in Nat
      BY OrderAssumption
    <3> QED
      BY <2>1, <2>2, <3>1
  <2> QED
    BY <2>1, <2>2, <2>3
<1> QED
  BY <1>1, <1>2, <1>3

\* At first nothing is folded.
LEMMA InitTypes == Init => TypesSound
<1> SUFFICES ASSUME Init PROVE TypesSound
  OBVIOUS
<1>1. PICK shapes \in [Requests -> Shapes] : req = [r \in Requests |-> NewRequest(shapes[r])]
  BY DEF Init
<1>2. \A r \in Requests : req[r].pc = "new"
  BY <1>1 DEF NewRequest
<1> QED
  BY <1>2, FoldedEmpty DEF Init, TypesSound

\* A request that changes by itself
LEMMA SetTypes ==
    ASSUME IInv, TypesSound, static' = static, NEW r \in Requests, NEW state, Set(r, state),
           state.pc \in {"reading", "planning"} => AreFolded(state.config),
           state.pc = "reading" => Ordered(state.config, state.names)
    PROVE  TypesSound'
<1>1. req' = [req EXCEPT ![r] = state] /\ DOMAIN req = Requests
  BY DEF Set, IInv, TypeOK
<1>2. req'[r] = state /\ \A q \in Requests : q # r => req'[q] = req[q]
  BY <1>1
<1> QED
  BY <1>2 DEF TypesSound

\* A request that has been read, waits or ends has nothing new to fold; one that comes in json
\* mode has what was folded at startup.
LEMMA StepTypes == IInv /\ TypesSound /\ [Next]_vars => TypesSound'
<1> SUFFICES ASSUME IInv, TypesSound, [Next]_vars PROVE TypesSound'
  OBVIOUS
<1>1. ASSUME NEW r \in Requests
      PROVE  /\ req[r] \in Request
             /\ \A pc : [req[r] EXCEPT !.pc = pc].pc = pc
             /\ \A pc, result : [req[r] EXCEPT !.pc = pc, !.result = result].pc = pc
  BY DEF IInv, TypeOK, Request
<1>2. CASE StartStatic \/ StartPostgres
  BY <1>2, FoldedEmpty DEF StartStatic, StartPostgres, IsLoaded, TypesSound
<1>3. CASE Crash
  <2>1. ASSUME NEW r \in Requests PROVE req'[r].pc \in {"new", "done"}
    BY <1>1, <1>3 DEF Crash
  <2> QED
    BY <1>3, <2>1, FoldedEmpty DEF Crash, TypesSound
<1>4. ASSUME NEW r \in Requests, Receive(r) PROVE TypesSound'
  <2>1. CASE mode = "json"
    <3> DEFINE state == [req[r] EXCEPT !.pc = "planning", !.config = static]
    <3>1. state.pc = "planning" /\ state.config = static /\ Set(r, state) /\ static' = static
      BY <1>1, <1>4, <2>1 DEF Receive, Request
    <3> HIDE DEF state
    <3> QED
      BY <3>1, SetTypes DEF TypesSound
  <2>2. CASE mode # "json"
    <3> DEFINE state == [req[r] EXCEPT !.pc = "waiting", !.names = CollectedNames(req[r].shape)]
    <3>1. state.pc = "waiting" /\ Set(r, state) /\ static' = static
      BY <1>1, <1>4, <2>2 DEF Receive, Request
    <3> HIDE DEF state
    <3> QED
      BY <3>1, SetTypes
  <2> QED
    BY <2>1, <2>2
<1>5. ASSUME NEW r \in Requests, Acquire(r) PROVE TypesSound'
  <2> DEFINE state == [req[r] EXCEPT !.pc = "reading"]
  <2>1. Set(r, state) /\ static' = static /\ req[r].pc = "waiting"
    BY <1>5, HeadLeaves DEF Acquire
  <2>2. state.pc = "reading" /\ state.config = Empty
    BY <1>1, <2>1 DEF Request, IInv, NamesSound
  <2> HIDE DEF state
  <2> QED
    BY <2>1, <2>2, FoldedEmpty, SetTypes
<1>6. ASSUME NEW r \in Requests, ReadSchema(r) PROVE TypesSound'
  <2>1. PICK c \in Collections :
            /\ IsNext(c, req[r].names)
            /\ Set(r, [req[r] EXCEPT !.names  = @ \ {c}, !.config = With(@, c, stored[c])])
    BY <1>6 DEF ReadSchema
  <2> DEFINE state == [req[r] EXCEPT !.names  = @ \ {c}, !.config = With(@, c, stored[c])]
  <2>2. req[r].pc = "reading" /\ static' = static
    BY <1>6 DEF ReadSchema
  <2>3. /\ Set(r, state) /\ state.names = req[r].names \ {c}
        /\ state.config = With(req[r].config, c, stored[c])
    BY <1>1, <2>1 DEF Request
  <2>4. AreFolded(req[r].config) /\ Ordered(req[r].config, req[r].names)
    BY <2>2 DEF TypesSound
  <2> HIDE DEF state
  <2>5. AreFolded(state.config) /\ Ordered(state.config, state.names)
    BY <2>1, <2>3, <2>4, FoldedStep
  <2> QED
    BY <2>2, <2>3, <2>5, SetTypes
<1>7. ASSUME NEW r \in Requests, Resolved(r) PROVE TypesSound'
  <2> DEFINE state == [req[r] EXCEPT !.pc = "planning"]
  <2>1. /\ Set(r, state) /\ static' = static
        /\ state.pc = "planning" /\ state.config = req[r].config /\ req[r].pc = "reading"
    BY <1>1, <1>7 DEF Resolved, Request
  <2> HIDE DEF state
  <2> QED
    BY <2>1, SetTypes DEF TypesSound
<1>8. ASSUME NEW r \in Requests,
             ReadFindsNone(r) \/ ReadFails(r) \/ Plan(r) \/ AcquireFails(r) \/ ClientGoesAway(r)
      PROVE  TypesSound'
  <2>1. PICK result : Set(r, [req[r] EXCEPT !.pc = "done", !.result = result]) /\ static' = static
    BY <1>8 DEF ReadFindsNone, ReadFails, Plan, Respond, AcquireFails, ClientGoesAway
  <2> DEFINE state == [req[r] EXCEPT !.pc = "done", !.result = result]
  <2>2. state.pc = "done" /\ Set(r, state)
    BY <1>1, <2>1
  <2> HIDE DEF state
  <2> QED
    BY <2>1, <2>2, SetTypes
<1>9. ASSUME NEW c \in Collections, NEW s \in Schemas \cup {Deleted}, SchemaChanges(c, s)
      PROVE  TypesSound'
  BY <1>9 DEF SchemaChanges, TypesSound
<1>10. CASE UNCHANGED vars
  BY <1>10 DEF vars, TypesSound
<1> QED
  BY <1>2, <1>3, <1>4, <1>5, <1>6, <1>7, <1>8, <1>9, <1>10 DEF Next, Step

\* Whatever is planned with the same schemas is planned with the same object types, for any
\* schemas that define types in common and any order in which queries name the collections.
THEOREM SameSchemas == Spec => []SameSchemasSameTypes
<1>1. IInv /\ TypesSound => SameSchemasSameTypes
  <2> SUFFICES ASSUME IInv, TypesSound, NEW r \in Requests, NEW s \in Requests,
                      req[r].pc = "planning", req[s].pc = "planning",
                      req[r].config.collections = req[s].config.collections
               PROVE  req[r].config.types = req[s].config.types
    BY DEF SameSchemasSameTypes
  <2>1. req[r].config \in Configurations /\ req[s].config \in Configurations
    BY DEF IInv, TypeOK
  <2>2. AreFolded(req[r].config) /\ AreFolded(req[s].config)
    BY DEF TypesSound
  <2> QED
    BY <2>1, <2>2, FoldedUnique
<1>2. Spec => []TypesSound
  BY InitTypes, StepTypes, Invariance, PTL DEF Spec
<1> QED
  BY <1>1, <1>2, Invariance, PTL
==============================================================================
