----------------------------- MODULE Connector -----------------------------
(***************************************************************************)
(* How the connector gets the configuration that a query is planned with   *)
(* (mongodb-connector/src/mongo_connector.rs): loaded once at startup from *)
(* files, or read for each request from the tables of a config store in    *)
(* Postgres (configuration-store/src/postgres_store.rs), through a pool of *)
(* connections, while those tables change.                                 *)
(*                                                                         *)
(* The schema of a collection is a function from the names of its object   *)
(* types to their definitions; it stands for the collection's entry too.   *)
(***************************************************************************)
EXTENDS Naturals, FiniteSets, Sequences

CONSTANTS
    Collections,    \* the names of collections
    Order,          \* these names in the order of a BTreeSet
    TypeNames,      \* the names of object types
    Definitions,    \* what an object type may be defined as
    Schemas,        \* the schemas a collection may have, functions
    Deleted,        \* a collection without a schema: no row, or is_deleted
    Requests,       \* the queries of clients
    Shapes,         \* what a query may refer to, see IsShape
    Environments,   \* what the process may be started with, see IsEnvironment
    MaxSize,        \* the size of the pool, 4 in the code
    MaxChanges      \* bound on the changes of the stored schemas

\* main:      the collection of the query, or a leaf of a relational query
\* targets:   the targets of its relationships, or the other leaves
\* unrelated: the collections of its "exists in unrelated collection"
IsShape(s) == /\ DOMAIN s = {"main", "targets", "unrelated"}
              /\ s.main \in Collections
              /\ s.targets \subseteq Collections /\ s.unrelated \subseteq Collections

\* mode:     HASURA_CONFIGURATION_MODE        databaseUri: MONGODB_DATABASE_URI is set
\* id:       HASURA_CONFIGURATION_CONNECTOR_ID is set
\* metadata: the connection_uri in the config store; "variable" if it names one that is set
IsEnvironment(e) == e \in [mode : {"json", "postgres"}, databaseUri : BOOLEAN, id : BOOLEAN,
                           metadata : {"none", "value", "variable", "unset"}]

ASSUME OrderAssumption  == /\ Order \in Seq(Collections) /\ Collections = {Order[i] : i \in DOMAIN Order}
                           /\ \A i, j \in DOMAIN Order : Order[i] = Order[j] => i = j
ASSUME ShapesAssumption == \A s \in Shapes : IsShape(s)
ASSUME EnvAssumption    == \A e \in Environments : IsEnvironment(e)
ASSUME SizeAssumption   == MaxSize \in Nat \ {0}
ASSUME BoundAssumption  == MaxChanges \in Nat
ASSUME RequestsAssumption == IsFiniteSet(Requests)


Partial(S, T) == UNION {[D -> T] : D \in SUBSET S}

ASSUME SchemasAssumption == Schemas \subseteq Partial(TypeNames, Definitions)
ASSUME DeletedAssumption == Deleted \notin Schemas

\* Configuration: the schemas by collection, and all their object types together
Empty == [collections |-> <<>>, types |-> <<>>]
Configurations == [collections : Partial(Collections, Schemas), types : Partial(TypeNames, Definitions)]

\* BTreeMap::extend: what comes later wins
Extend(f, g) == [x \in DOMAIN f \cup DOMAIN g |-> IF x \in DOMAIN g THEN g[x] ELSE f[x]]

\* Mutant of With: the collections are extended by what the object types should be
WithSwapped(config, c, schema) ==
    [collections |-> Extend(config.collections, [n \in DOMAIN schema |-> schema]),
     types       |-> Extend(config.types, schema)]

\* ... of the collections and of the object types
With(config, c, schema) ==
    [collections |-> Extend(config.collections, [d \in {c} |-> schema]),
     types       |-> Extend(config.types, schema)]

\* Mutant of IsNext: the names are a set without an order
IsAnyNext(c, names) == c \in names

\* The names are read in their order
IsNext(c, names) ==
    \E i \in DOMAIN Order : /\ Order[i] = c /\ c \in names
                           /\ \A j \in DOMAIN Order : Order[j] \in names => i <= j

VARIABLES
    env,        \* what the process is started with
    stored,     \* the schema of each collection, in the files or in config_tables
    changes,    \* how many times these have changed
    mode,       \* "down", or the mode of the running connector
    static,     \* the configuration loaded at startup, in json mode
    queue,      \* the requests that wait for a connection of the pool, in order
    held,       \* the requests that have one
    req,        \* the state of each request
    current     \* history: the schemas each collection has had since the request came

vars == <<env, stored, changes, mode, static, queue, held, req, current>>

\* pc: where the handler of the request is; names: the collections still to read;
\* config: the configuration as far as it is known; result: the response
NewRequest(shape) ==
    [pc |-> "new", shape |-> shape, names |-> {}, config |-> Empty, result |-> "none"]

Pcs     == {"new", "waiting", "reading", "planning", "done"}
Results == {"none", "ok", "unknown collection", "failed", "gone"}

\* Mutant of CollectedNames: the targets of relationships are left out
MainNameOnly(shape) == {shape.main}

\* collect_query_collection_names and collect_relational_collection_names
CollectedNames(shape) == {shape.main} \cup shape.targets

\* The collections that plan_for_query_request looks up in the configuration
PlannedNames(shape) == {shape.main} \cup shape.targets \cup shape.unrelated

TypeOK ==
    /\ env \in Environments
    /\ stored \in [Collections -> Schemas \cup {Deleted}]
    /\ changes \in Nat
    /\ mode \in {"down", "json", "postgres"}
    /\ static \in Configurations
    /\ queue \in Seq(Requests)
    /\ held \subseteq Requests
    /\ req \in [Requests -> [pc : Pcs, shape : Shapes, names : SUBSET Collections,
                             config : Configurations, result : Results]]
    /\ current \in [Requests -> [Collections -> SUBSET (Schemas \cup {Deleted})]]

Init ==
    /\ env \in Environments
    /\ stored \in [Collections -> Schemas]
    /\ changes = 0
    /\ mode = "down"
    /\ static = Empty
    /\ queue = <<>>
    /\ held = {}
    /\ \E shapes \in [Requests -> Shapes] : req = [r \in Requests |-> NewRequest(shapes[r])]
    /\ current = [r \in Requests |-> [c \in Collections |-> {}]]

------------------------------------------------------------------------------
\* Startup: parse_configuration and try_init_state. When either fails the
\* process ends, which is to stay "down".

\* The object types are those of the schemas folded in the order of their names: the last
\* schema that defines a type says what it is.
AreFolded(config) ==
    LET Defines(i, n) == Order[i] \in DOMAIN config.collections /\ n \in DOMAIN config.collections[Order[i]]
    IN  /\ DOMAIN config.types = UNION {DOMAIN config.collections[c] : c \in DOMAIN config.collections}
        /\ \A n \in DOMAIN config.types : \E i \in DOMAIN Order :
              /\ Defines(i, n) /\ \A j \in DOMAIN Order : Defines(j, n) => j <= i
              /\ config.types[n] = config.collections[Order[i]][n]

\* read_directory: the schemas of all the files
IsLoaded(config) ==
    /\ config.collections = [c \in {d \in Collections : stored[d] # Deleted} |-> stored[c]]
    /\ AreFolded(config)

\* resolve_from_values, and in json mode the whole configuration
StartStatic ==
    /\ mode = "down"
    /\ env.mode = "json"
    /\ env.databaseUri
    /\ \E config \in Configurations : IsLoaded(config) /\ static' = config
    /\ mode' = "json"
    /\ UNCHANGED <<env, stored, changes, queue, held, req, current>>

\* read_connection_uri and ConnectionUri::resolve: a URI that is not in the
\* store comes from the default environment variable
StartPostgres ==
    /\ mode = "down"
    /\ env.mode = "postgres"
    /\ env.id
    /\ \/ env.metadata \in {"value", "variable"}
       \/ env.metadata = "none" /\ env.databaseUri
    /\ mode' = "postgres"
    /\ UNCHANGED <<env, stored, changes, static, queue, held, req, current>>

\* The process stops: its requests and its pool are gone
Crash ==
    /\ mode # "down"
    /\ mode' = "down"
    /\ static' = Empty
    /\ queue' = <<>> /\ held' = {}
    /\ req' = [r \in Requests |->
                  IF req[r].pc \in {"new", "done"} THEN req[r]
                  ELSE [req[r] EXCEPT !.pc = "done", !.result = "gone"]]
    /\ UNCHANGED <<env, stored, changes, current>>

------------------------------------------------------------------------------
\* A query, a query to explain, or a relational query.

Set(r, state) == req' = [req EXCEPT ![r] = state]

\* The handler: the names are collected, and resolve_for_collections starts.
\* In postgres mode it asks the pool for a client, behind those that wait.
Receive(r) ==
    /\ mode # "down"
    /\ req[r].pc = "new"
    /\ IF mode = "json"
       THEN /\ Set(r, [req[r] EXCEPT !.pc = "planning", !.config = static])
            /\ UNCHANGED queue
       ELSE /\ Set(r, [req[r] EXCEPT !.pc = "waiting",
                                     !.names = CollectedNames(req[r].shape)])
            /\ queue' = Append(queue, r)
    /\ current' = [current EXCEPT ![r] = [c \in Collections |-> {stored[c]}]]
    /\ UNCHANGED <<env, stored, changes, mode, static, held>>

\* Mutant of Respond: an error keeps the connection
RespondHolding(r, result) ==
    /\ Set(r, [req[r] EXCEPT !.pc = "done", !.result = result])
    /\ UNCHANGED <<env, stored, changes, mode, static, queue, held, current>>

\* The response is made; the client, if the request has one, goes back to the
\* pool as read_collections_configuration returns
Respond(r, result) ==
    /\ Set(r, [req[r] EXCEPT !.pc = "done", !.result = result])
    /\ held' = held \ {r}
    /\ UNCHANGED <<env, stored, changes, mode, static, queue, current>>

\* The pool serves its waiters in the order they came, up to its size
Acquire(r) ==
    /\ queue # <<>> /\ Head(queue) = r
    /\ Cardinality(held) < MaxSize
    /\ queue' = Tail(queue)
    /\ held' = held \cup {r}
    /\ Set(r, [req[r] EXCEPT !.pc = "reading"])
    /\ UNCHANGED <<env, stored, changes, mode, static, current>>

\* The pool cannot make a connection to Postgres for the first that waits
AcquireFails(r) ==
    /\ queue # <<>> /\ Head(queue) = r
    /\ Cardinality(held) < MaxSize
    /\ queue' = Tail(queue)
    /\ Set(r, [req[r] EXCEPT !.pc = "done", !.result = "failed"])
    /\ UNCHANGED <<env, stored, changes, mode, static, held, current>>

\* Mutant of ReadSchema: what another request has read is used again
ReadCachedSchema(r) ==
    /\ req[r].pc = "reading"
    /\ \E c \in Collections :
        /\ IsNext(c, req[r].names)
        /\ stored[c] # Deleted
        /\ \E cached \in {stored[c]} \cup {req[q].config.collections[c] :
                 q \in {p \in Requests : c \in DOMAIN req[p].config.collections}} :
              Set(r, [req[r] EXCEPT !.names  = @ \ {c}, !.config = With(@, c, cached)])
    /\ UNCHANGED <<env, stored, changes, mode, static, queue, held, current>>

\* The loop of read_collections_configuration: one SELECT for each name, each
\* awaited, and each seeing the table as it is then
ReadSchema(r) ==
    /\ req[r].pc = "reading"
    /\ \E c \in Collections :
        /\ IsNext(c, req[r].names)
        /\ stored[c] # Deleted
        /\ Set(r, [req[r] EXCEPT !.names  = @ \ {c},
                                 !.config = With(@, c, stored[c])])
    /\ UNCHANGED <<env, stored, changes, mode, static, queue, held, current>>

\* ... and no row is an error, like a query that fails
ReadFindsNone(r) ==
    /\ req[r].pc = "reading"
    /\ \E c \in Collections : IsNext(c, req[r].names) /\ stored[c] = Deleted
    /\ Respond(r, "failed")

ReadFails(r) ==
    /\ req[r].pc = "reading" /\ req[r].names # {}
    /\ Respond(r, "failed")

\* Configuration::validate accepts what the loop has merged, as it has neither
\* native queries nor native mutations; the client is dropped
Resolved(r) ==
    /\ req[r].pc = "reading" /\ req[r].names = {}
    /\ Set(r, [req[r] EXCEPT !.pc = "planning"])
    /\ held' = held \ {r}
    /\ UNCHANGED <<env, stored, changes, mode, static, queue, current>>

\* plan_for_query_request: find_collection for every collection of the query
Plan(r) ==
    /\ req[r].pc = "planning"
    /\ Respond(r, IF PlannedNames(req[r].shape) \subseteq DOMAIN req[r].config.collections
                  THEN "ok" ELSE "unknown collection")

\* The client disconnects: the future of the request is dropped, wherever it is,
\* and leaves the pool or its queue
ClientGoesAway(r) ==
    /\ req[r].pc \in {"waiting", "reading", "planning"}
    /\ Set(r, [req[r] EXCEPT !.pc = "done", !.result = "gone"])
    /\ IF req[r].pc = "waiting"
       THEN \E i \in 1 .. Len(queue) :
                /\ queue[i] = r
                /\ queue' = [j \in 1 .. Len(queue) - 1 |->
                                IF j < i THEN queue[j] ELSE queue[j + 1]]
       ELSE UNCHANGED queue
    /\ held' = held \ {r}
    /\ UNCHANGED <<env, stored, changes, mode, static, current>>

Step(r) == Acquire(r) \/ ReadSchema(r) \/ ReadFindsNone(r) \/ Resolved(r) \/ Plan(r)

------------------------------------------------------------------------------
\* Somebody changes what is stored

SchemaChanges(c, s) ==
    /\ changes < MaxChanges
    /\ s # stored[c]
    /\ changes' = changes + 1
    /\ stored' = [stored EXCEPT ![c] = s]
    /\ current' = [r \in Requests |->
                      IF req[r].pc \in {"waiting", "reading"}
                      THEN [current[r] EXCEPT ![c] = @ \cup {s}]
                      ELSE current[r]]
    /\ UNCHANGED <<env, mode, static, queue, held, req>>

Next ==
    \/ StartStatic \/ StartPostgres \/ Crash
    \/ \E r \in Requests :
        \/ Receive(r) \/ Step(r) \/ AcquireFails(r) \/ ReadFails(r) \/ ClientGoesAway(r)
    \/ \E c \in Collections, s \in Schemas \cup {Deleted} : SchemaChanges(c, s)

\* The runtime polls every request that can go on, and Postgres answers
Fairness == \A r \in Requests : WF_vars(Step(r))

Spec == Init /\ [][Next]_vars /\ Fairness

------------------------------------------------------------------------------
\* The properties.

\* The pool is never exceeded, and a connection is held exactly by the requests
\* that are reading: no return, error or disconnection keeps one.
ConnectionsAreReturned ==
    /\ Cardinality(held) <= MaxSize
    /\ held = {r \in Requests : req[r].pc = "reading"}

\* In postgres mode every schema a query is planned with is one the store had
\* at some moment since the request came: nothing is cached across requests.
\* (It need not be one moment for all the collections of the query.)
SchemasAreFresh ==
    \A r \in Requests : mode = "postgres" /\ req[r].pc \in {"reading", "planning"} =>
        \A c \in DOMAIN req[r].config.collections :
            req[r].config.collections[c] \in current[r][c] \ {Deleted}

\* In postgres mode a query is refused for an unknown collection only because of
\* an unrelated one: its own collection and the targets of its relationships are
\* all in the configuration it is planned with, or it was not planned at all.
KnownCollectionsPlan ==
    \A r \in Requests : env.mode = "postgres" /\ req[r].result = "unknown collection"
        => ~ (req[r].shape.unrelated \subseteq CollectedNames(req[r].shape))

\* Two queries that are planned with the same schemas are planned with the same
\* object types, in whatever order they name the collections: a type two schemas
\* define is the one of the collection whose name comes last.
SameSchemasSameTypes ==
    \A r, s \in Requests :
        /\ req[r].pc = "planning" /\ req[s].pc = "planning"
        /\ req[r].config.collections = req[s].config.collections
        => req[r].config.types = req[s].config.types

\* A connection is handed to the waiting requests in turn: every request gets a
\* response, or its client or the process goes away.
EveryRequestEnds == \A r \in Requests : req[r].pc # "new" ~> req[r].pc = "done"
==============================================================================
