# A TLA+ verification project for ndc-mongodb

This directory holds TLA+ modules that model ndc-mongodb, the MongoDB connector of Hasura
DDN, the TLC configurations that check them on small instances, and proofs of their safety
for every instance, checked by TLAPS. Paths below are relative to `src/crates/` unless they
start with `src/`. `PROJECT.json` lists the components, the runs, the map from definitions
to source lines, the hazards the properties were chosen from, and the theorems.

## 1. Inventory

The program is two binaries over shared libraries. The **connector** answers NDC requests
(queries, mutations, relational queries) over HTTP by compiling them to MongoDB aggregation
pipelines and commands. The **CLI plugin** keeps the configuration the connector reads: it
introspects a database and writes schema files, and derives the types of native queries.

| Component | State it keeps | Operations | Correct when | Modelled |
|---|---|---|---|---|
| Type unification and sampling (`cli/src/introspection/{type_unification,sampling}.rs`) | the object types collected so far | one step per sampled document | every sampled document conforms to the schema, no type is wider than the data forces, the order of documents does not matter | `SchemaTypes`, `TypeUnification`, `Sampling`, and the proofs `TypeUnificationProofs`, `SamplingProofs` |
| `update` of the CLI (`cli/src/lib.rs`, `keep_backward_compatible_changes.rs`, `validation_schema.rs`) | the run: what was read, sampled, is to be written | write validator schemas, read the directory, sample, merge, write | configured fields survive, new fields appear, a skipped collection loses nothing, a crash at most the file being written, repeated runs settle, a run ends | `SchemaMerge`, `MergeTraversal`, `Introspection`, and the proofs `MergeTraversalProofs`, `IntrospectionProofs` |
| Configuration directory (`configuration/`) | the files | list, parse, merge, write in place | a half-written or ambiguous directory is never used | files in `Introspection`, loading in `Connector` |
| Configuration store and connector (`configuration-store/`, `mongodb-connector/src/mongo_connector.rs`) | a pool of database clients; the configuration of each request in flight | start in a mode, acquire, read one collection after another, plan | a query is planned with all and only what it needs, none of it older than the query, and returns its client | `Connector`, `ConnectorProofs` |
| Mutations (`mongodb-connector/src/mutation.rs`, `mongodb-agent-common/src/procedure/`) | the futures of the operations of a request | plan and look up, interpolate, run the command, rewrite the result | nothing runs for an invalid request, nothing runs twice, results mean that all was done | `MutationService`, `Mutation`, `MutationProofs` |
| Query planning (`ndc-query-plan/`) | a stack of scopes with registries of joins, and counters for names (`query_plan_state.rs`) | plan fields, orders, predicates and groups; register references and unify their joins | each reference finds a join that yields what it asked for; scopes are unique; joins are shared where they can be | `QueryPlanState` (the registry), `QueryPlanProofs`, `QueryPlanner` (the plan) |
| Query execution (`mongodb-agent-common/src/query/`) | none between requests | build a pipeline, run it, serialize rows | rows of variable set *i* answer set *i*; the pipeline means what the request means; what is planned is answered | `QueryPipeline`, `QueryResponse`, `QueryExecution` |
| Relational queries (`mongodb-agent-common/src/relational/`) | the fields that hold the columns while compiling | rewrite passes, early match, pipeline builder | each pass preserves the rows, and so does the pipeline; a native query stays the first stage | `RelationalPasses`, `EarlyMatch`, `ScalarTranslation`, `PipelineBuilder`, `RelationalProofs`, `Relational` |
| Native query inference (`cli/src/native_query/`) | type variables and their constraints | collect, simplify, substitute | the inferred types hold of what MongoDB answers, the order of a HashMap decides at most whether a variable that is not needed fails, each parameter that is a string of its own is declared, solving ends | `TypeConstraints`, `TypeSimplification`, `TypeSolutions`, `PipelineTypes`, `TypeInference` |
| Schema response, capabilities, explain, binaries, tests, Nix files | none | constant tables, entry points | | not modelled: no state of their own |

How they interact. The CLI writes the directory the connector loads when it starts in JSON
mode; in Postgres mode the connector reads the schemas of the collections of a query from a
store for every request and the directory plays no part. A request goes from the connector
through the planner, with the configuration resolved for it, to query execution or to the
mutation handler, which hold the only MongoDB client. There is no state shared by requests
but the two pools of clients, and no message between components other than calls; the
concurrency is that of the tasks of requests, of the futures of one mutation, and of the
environment: databases that change, users who edit files, clients that disconnect, processes
that are killed.

Hard behaviours. Non-atomic writes and crashes between them; errors at every `?` of a
multi-file update; data that is read, then used later; documents in arbitrary order; a join
that abandons its futures at the first failure, and does so differently above thirty of
them; commands whose fate is unknown; several reads outside of a transaction; a pool with
fewer clients than requests; results computed in two places that have to agree (the
names a query needs and the names the planner looks up); five modules that build one pipeline
and must read the fields the others write; and a solver whose steps come in the order of a
HashMap and whose end nothing but its own progress guarantees.

## 2. The modules

    SchemaTypes ── TypeUnification ┬─ Sampling ┬─ MCSampling
        │                          │           └─ SamplingProofs
        │                          └─ TypeUnificationProofs ─┘
        └───────── SchemaMerge ┬───── Introspection ┬─ MCIntrospection
                               │                    └─ IntrospectionProofs
                               └───── MergeTraversal ── MergeTraversalProofs
    SchemaTypes ── TypeConstraints ── TypeSimplification ── TypeSolutions ─┐
                        └──────────── PipelineTypes ── NativeQueryMeaning ─┴ TypeInference ── MCTypeInference
    Connector ── MCConnector        MutationService ── Mutation      QueryPlanState ── MCQueryPlan
        └─────── ConnectorProofs                          └── MutationProofs  └─────── QueryPlanProofs
    MongoAggregation ── QueryPlanner ── QueryPipeline ── QueryResponse ── QueryMeaning ── QueryExecution ── MCQueryExecution
    ScalarMeaning ── RelationalAlgebra ┬─ RelationalPasses ── EarlyMatch ─┬─ PipelineBuilder ┬─ RelationalProofs
                                       ├─ ScalarTranslation ──────────────┘                  │
                                       └─ MongoPipeline ─────────────────────────────────────┴─ Relational ── MCRelational

**SchemaTypes** has the types of the configuration (`configuration::schema::Type`): a base
under a sequence of wrappers. Names of object types and fields are sequences of the words
that `_` joins, so that two paths that join to one name *are* one name.

**TypeUnification** translates `unify_type`, `normalize_type` and `common_supertype`, arm by
arm, and the unification of object types and of sets of them. The Rust functions are
recursive; here they are recursive functions on the set `Type` of all types, which TLC can
evaluate and **TypeUnificationProofs** can reason about.

**Sampling** is one call of `sample_schema_from_collection`: `NextDocument` derives the
object types of one document (`make_object_type`, `make_field_type`) and unifies them with
the collected ones; `CursorFails` and `CursorEnds` are its two returns. BSON values are trees;
`Value` has all of them that are nested at most `MaxNesting` deep, and `MadeFieldType` is a
recursive function on the calls of `make_field_type` with such values. Its properties use
a reference semantics, `HasType`: what it means for a BSON value to have a type; and `Below`,
the order the comment of `unify_type` describes. **SamplingProofs** proves them of all documents.

**SchemaMerge** translates `keep_backward_compatible_changes`. The Rust helper recurses while
taking types out of two maps; the module defines the set of names it visits as the least
fixed point of `Followed` and the result as a function on that set, which does not depend on
the order of the visits, as each name is taken out of both maps by its first visit. That this
is what the recursion comes to is shown by **MergeTraversal**, which has the recursion: the
stack of calls, the two maps that shrink and the one that grows, one action for a call of the
helper (`BackwardCompatibleHelper`), one for a turn of the loop over the fields
(`ReconcileField`) and one for the return (`ReturnObjectType`).

**Introspection** is the whole `update` command, one action per step that reads or writes
something outside of the process. `cli.pc` is the place in `update`, in the order of
`cli/src/lib.rs:111-148`: validators are collected and written, existing schemas are read,
collections listed, sampled one by one, and the schemas written. A write is two actions,
`BeginWriteFile` and `EndWriteFile`, since `fs::write` truncates first. `Crash`, `WriteFails`,
`BadCollectionSchema` and `UnreadableDirectory` end a run where it stands. Meanwhile
`DatabaseChanges` drops, creates and changes collections and validators, and `UserEdits`
saves, deletes or renames files. `before`, `changed`, `edited` and `quiet` are history
variables for the properties. What sampling yields is chosen from `Samples` (module
Sampling says which schemas these can be), except for the names of the types, which are
derived, as `sample_schema_from_db` does, from the configured name of the collection's type.

**Connector** is startup and the resolution of the configuration of queries. `StartStatic`
and `StartPostgres` are the modes of `configuration_mode.rs`. In Postgres mode a request
queues for a client (`Acquire`), reads the sorted, deduplicated names one SELECT at a time
(`ReadSchema`, with its two error returns) while `SchemaChanges` rewrites the store, and
then plans (`Plan`): the planner looks names up in what was read. `ClientGoesAway` drops a
request at any await, which returns its client.

**Mutation** is one request. `Plan` is everything before the first await of
`handle_mutation_request`. `FirstPoll`, `Send`, `Finish` and `FinishBroken` advance the
future of one operation; `Joined` is what `try_join_all` returns for the states of its
futures, which has two implementations, up to thirty futures and above (`SmallLimit`).
`Execute`, `Reply` and `ConnectionBreaks` are the server and the driver: a command can be
lost, executed, or executed after the connection broke. **MutationService** is the abstract
specification: a request has open operations, which are carried out at most once or given up,
and one response. `Mutation` implements it (`ImplementsService`) under the mapping `Open`: an
operation is open while its command is on the way or may still be sent.

**QueryPlanState** is the planning of one query: `frames` is the stack of `QueryPlanState`
values, which in Rust are locals of recursive functions. An `Enter...` action is a call of
`state_for_subquery` and what is planned before the scope has references of its own; a
`Leave...` action is the call of `register_relationship`, or `register_unrelated_join`, with
what the scope ended up as. In the code maps of relationships nest; the module keeps each as
one function from places, sequences of keys, to joins, which makes unification of two trees
(`Compatible`, `Unify`) a statement about the places they share and spares the recursion.
`phase`, and `rest` for path elements, keep the order of `plan_for_query`: fields, order,
predicate, groups, and the rest of a path before the predicate of its element. `uses` is a
history variable: the key each reference was given, in which scope, and what it asked for.
Columns, arguments, limits, aggregates and predicates are values that are only compared.

**QueryPlanner** translates a request into a plan, within the capabilities the connector
declares: names get types, references to relationships the key of a join, and variables the
types they are used with. A state `st` is passed through the operators as `QueryPlanState` is
in Rust. **QueryPipeline** builds the pipeline of a plan from the parts the code builds it from:
the filter as a query document or an aggregation expression, the joins with their own
pipelines, the order, the window, the selection, facets of aggregates and rows, groups, and the
one lookup that answers all sets of variables. `Failed` stands for what cannot be built. Names
that are no valid field names or variables are the constants `UnsafeNames` and `OtherInitials`.
**QueryResponse** is the serialization of what comes back, by the types of the plan, with the
two reactions to a row that does not have its type. **MongoAggregation** is what MongoDB does
with these pipelines (external: modelled from how the code uses them). **QueryMeaning** is the
abstract specification: the rows a request asks for, read off the request and the database
without any plan, join or pipeline. **QueryExecution** takes a request through the steps of
`execute_query_request.rs`; `DatabaseFails` may come in place of an answer. The operators are
RECURSIVE, as the code is.

**TypeConstraints** has the constraints of type inference and the order of the BTreeSets they
are kept in; **TypeSimplification** `simplify_constraints` and the merge of object types,
**TypeSolutions** `constraint_to_type` and `prune_object_types`. **PipelineTypes** is what each
stage, expression and query document says about types: `InferPipeline` walks through a
pipeline with a context as `PipelineTypeContext` does. **TypeInference** has the loop of
`type_solver::unify` with an action for each variable visited (`Visit`) and one for the end of
a pass (`EndPass`), which substitutes one of the simplest variables. The order of a pass is
that of a HashMap: any order, found out in the first pass (`order`) and kept after.
**NativeQueryMeaning** is the reference: what MongoDB answers to the pipeline, as far as types
go, and which values are of a type (external).

**RelationalAlgebra** has the relations and expressions of the NDC specification and what
they mean, `Rows`: the rows of a relation over given documents, with SQL's three-valued logic.
It is the abstract specification of relational queries, with **ScalarMeaning** for the
operators and functions of their expressions: logic, comparisons, arithmetic, strings, LIKE,
conditionals, JSON. **MongoPipeline** says what the stages do that pipelines are built from,
and what the operators in them do, with MongoDB's own logic, in which what
is missing is not null, and an operator may refuse its arguments and fail the aggregation. None
of the three is code of the repository; both sides give an order to rows where none is promised,
the same one, so that results can be compared. Strings are sequences of characters, as
positions, patterns and delimiters are what the translation is about.

**RelationalPasses** translates the passes (`NormalizeRightJoins`, `PushdownPredicates`), and says
what they do to a request, one action each; **EarlyMatch** the extraction of the early match
(`TraceColumnOrigin`, `EarlyFilter`, `EarlyDocument`), and **PipelineBuilder** the builder: a context
is the source, the collection it runs on, the fields that hold the columns, and the stages so far;
`Build` builds it from those of the relations that `BuiltFirst` names, as the members of a union are
passed, matched and built on their own. It has the steps of a request up to the pipeline
(`ExtractMatch`, `BuildPipeline`, `BuildingFails`), in front of which those of the passes come;
`Nesting` bounds how deep `NativeQueriesFirst` looks for pipelines in pipelines.
**ScalarTranslation** is the rest of
`expression.rs`: the aggregation expression for each operator, given those for its operands, and
the regular expression for a pattern, character by character, since escaping is what may go
wrong in it. **Relational** runs one query through
them, one action per step of `build_relational_pipeline_with_config` and of
`execute_relational_query_impl`; `Fail` is the errors of the builder, `PipelineRefused` those
of an operator, and `CursorFails` the others of MongoDB. `Comparable` says where `Rows` and the
pipeline are compared, that is, where the known differences of section 6 do not come in, and
`Agrees` says it of expressions; there a pipeline that MongoDB refuses is wrong too. Its actions
are those of `RelationalPasses` and `PipelineBuilder`, with what they do to the rest of the state, so
that what is proved of these by themselves holds in it. What is defined by recursion over expressions
and relations, up to `PipelineBuilder`, is a function on `Expressions` and `Relations`, two
constants that stand for all the finite trees there are; TLC takes for them a set that holds
everything. In `MongoPipeline` and in `Relational` itself the operators are RECURSIVE.

Each module states its mutants before the definitions they mutate: variants of the code
with a plausible bug, which show that each property can fail.

## 3. The runs

| Run | Instance | States | Shows |
|---|---|---|---|
| `Sampling` | 17 documents, nested up to 4 deep, up to 3 sampled in any order, both values of `all_schema_nullable` | 31 thousand | every document conforms; field types are the least ones; the order of documents does not matter; references are closed |
| `Introspection` | 2 collections, one under `system.`; 2 samples, validators, a hand-written schema; up to 5 updates and 1 change, which may fall at any step | 300 thousand | configured top level kept but in the one file that a crash leaves torn, sampled fields added, only sampled files written, no torn file used, repeated runs settle, runs end |
| `Connector` | 2 queries of 3 shapes, 2 collections with a common object type, 1 client, 1 change of the store, 4 environments | 159 thousand | clients are returned, schemas are no older than the query, collected names suffice but for unrelated collections, the same schemas give the same types, requests end |
| `Mutation` | up to 4 operations, small join up to 3 | 97 thousand | the seven properties of section 5, that a request is answered, and that `MutationService` is implemented, fairness included |
| `QueryPlan` | up to 4 references to 2 relationships, nested up to 2 deep; 3 queries of fields, with and without limit, aggregates, groups and nested selections; paths of one or two elements | 560 thousand | references stay covered however joins are unified; scopes are unique; no join is made where one would do; joins only grow |
| `QueryExecution` | 944 requests over customers, orders and a native query, each on a full, a sparse and an empty database and with both reactions to ill-typed rows | 31 thousand | the response is what the request means; what is planned is answered; each set of variables gets its own row set |
| `Relational` | 7815 relations: up to two operations (filters, sorts, pages, projections, groups, row numbers, all eight joins, unions) on two collections or a native query, and these under a filter, or under a projection and a filter, and 183 around one of 76 expressions, 21 aggregates or 18 windows; two databases, one with nulls, missing fields and an empty source | 107 thousand | the passes keep the rows and their order, and are complete; the pipeline yields the rows of the query (6575 of the 15630 pairs of a query and a database are comparable, 1348 of these with an early match, 253 of the 366 with the further expressions); native queries stay first |
| `TypeInference` | 48 pipelines of up to four stages over a collection with a field of each kind; two databases; the variables in every order | 6 thousand | the outcome is the same in every order, but for errors at variables that are not needed (3 of the pipelines); the types hold of the output, for all arguments of the inferred types; parameters that are a string of their own are declared; inference ends |
| `IntrospectionNested`, `QueryExecutionEmptyAggregates`, `QueryExecutionShared`, `RelationalSemiJoin` | as small as the case needs | | four disagreements of the code with its documentation, section 6 |

Bounds, and why they are enough.

- *Documents, at most 3 sampled*: unification is a fold of a binary operation, so a failure
  of order independence or of the upper bound shows on three operands. The values include
  each arm of `unify_type`: equal and related scalars, binary types, null, documents that
  agree, disagree or are empty, arrays of all of these, empty and nested arrays. `MCDescribable`
  shows that the documents satisfy the hypothesis of `AlwaysConform`. `SamplingProofs` covers
  every set of documents, every nesting and every size of a sample.
- *`MaxUpdates` 5*: nested types are at most two deep in the samples and one level settles
  per run, so that three quiet runs, one that must not write, and one before the change fit.
  `IntrospectionProofs` covers every depth and every number of runs.
- *`MaxChanges` 1*: a change of the database or of one file at every point of every run; the
  properties compare a run with its own start, which two changes disturb as one does. The
  violation runs, over one collection, allow two.
- *Two requests, pool of one*: the smallest instance in which a request waits for another.
  The deployed pool has four clients; `ConnectorProofs` covers every size.
- *Four operations, limit 3*: both joins with at least three operations, so that an
  operation has a predecessor and a successor. `MutationProofs` covers every number, and 30.

- *Four references, two deep*: three references to one relationship are the least in which a
  join that was unified meets a third need, or two joins under generated keys exist; the
  fourth is what these are nested in, so that maps are unified below the top. The two
  relationships differ by name only, which makes them symmetric; the names of fields and
  columns are not, as `MCFieldQueries` tells them apart. One value of the arguments: they are
  compared before everything else, and limits already make references incompatible.
- *Two operations, a filter and a projection on top*: a pass looks at a relation and at the one
  under it, and goes on downwards; three operations and a projection are enough for a filter
  that passes two projections, and for an early match that passes everything there is.
- *`Nesting` 3*: a join or a union of two operations has pipelines two levels below that of the
  request. `RelationalProofs` covers every number of levels, and relations of any size.
- *Expressions on three rows and two more with nulls*: each operator of `expression.rs` that is
  modelled, with arguments at, before and after the boundary it has (an empty string, a position at
  the end and beyond, a delimiter that occurs twice, a pattern with an escape, a negative
  dividend), as a filter and as a projected column if it is a condition. Expressions are
  translated bottom up and each on its own, so that one level of nesting is enough.

- *The requests of `QueryExecution`*: each kind of field, filter, order, window, aggregate and
  group once at the root and once behind a join, in combination where they meet in the code
  (filter and order over one join, rows beside aggregates, two references to one relationship,
  sets of variables with each of these); one and two sets of variables with equal, different
  and null values. The full database has two rows of a collection related to one; the sparse one
  has a null, a missing field, and an ill-typed value; the empty one is for zero rows.
- *The pipelines of `TypeInference`*: each stage, each class of operators and each arm of the
  simplification at least once, with parameters in each place that is analysed; up to five type
  variables, in each of their orders. Numbers in the names of new object types are bounded by 9.

The runs state `CHECK_DEADLOCK FALSE` since all eight systems stop: a request is answered, a
query planned or run, a sample taken, types inferred, the bounded number of updates done.

Fairness. `Introspection`: `WF_vars(Step)`, the command is one task and nothing it awaits
lasts for ever by assumption (its driver has timeouts); crashes, changes and failures are
not fair. `Connector`: weak fairness of each request's own step, the task of a request is
polled when it can make progress and Postgres answers its reads; the queue of `deadpool`'s
semaphore is first come first served, which the model's queue keeps. `Mutation`:
weak fairness of planning and of each operation's step, of the database answering what
reaches it and of the driver handing over the answer; not of failures, which are possible
but never necessary. `MutationService` asks for an answer in the end, and `Mutation` owes it
to this fairness. `TypeInference`: weak fairness of the one thread that infers.

## 4. Hazards

`PROJECT.json` lists them at their lines. Those without a property are the ones where the
code promises nothing (mutations are not transactional; the MongoDB URI is read once at
startup), and those where the model has the failure and a property that excludes it would be
refuted at once (an edit saved during an update is overwritten; columns of which two references
want different parts; a query with an `exists` in an unrelated collection; the stack overflow
of type inference): section 6 has these.

## 5. The proofs

All theorems are about safety, for all values of the constants under the named assumptions.

**MutationProofs**: types (`TypeCorrect`), nothing runs for an invalid request
(`InvalidRunsNothing`), nothing twice (`NoneTwice`), results mean all was done
(`SuccessIsSound`), what follows an operation that cannot be interpolated does not run in a
small join (`InterpolationStops`), the operations before the one a large join reports were
carried out (`FailsInOrder`), nothing is sent after the answer (`NothingSent`). None of
these is inductive: "results mean all was done" speaks of the database and of the response
and skips all that lies between. `IInv` adds it: a command that was not sent is nowhere
(`CommandsOnTheirWay`); the answers of the database are its effects (`AnswersAreEffects`); a
future has a result only from an answer (`ResultsAreAnswers`); planning is all or nothing
(`PlannedAsAWhole`); polls begin in order (`FirstPollsInOrder`); the response is what the
join returns for its futures (`JoinIsSound`). `JoinedSound` is the lemma about the join,
`PollInvariant` the one about a poll, which three actions share. `ServiceIsKept` is the
refinement: every initial state is one of `MutationService`, and every step, under `IInv`, is
a step of the service or changes nothing of it (`InitRefines`, `PollRefines`, `StepRefines`).
Assumptions: `MaxAssumption` and `LimitAssumption`, that the two bounds are natural numbers.

**ConnectorProofs**: types (`TypeCorrect`), clients are returned (`PoolIsSound`), schemas are
no older than the query (`Freshness`), and only unrelated collections can be unknown to the
plan (`KnownCollections`). The invariant says that the queue holds exactly the waiting
requests, each once; that a request's collected names are split into those still to read and
those read; and that every schema a request has read was in the store since it came.
The cardinality of the set of requests that read, which is compared with the size of the
pool, is followed through each action with `FiniteSetTheorems`. That the same schemas give the
same types (`SameSchemas`) comes from `AreFolded`: the types of a query are folded, in the order of the
sorted names, out of the schemas that were read, the last of a name winning; two requests that
read the same have folded the same, however they were interleaved. Assumptions: the
constants' own, that the requests are finitely many, and that `Order` lists the collections,
each once.

**QueryPlanProofs**: each reference finds a join that covers it (`UsesStayCovered`), no scope is
given to two joins (`ScopesStayUnique`), a reference has a join of its own only if it is
incompatible with the others (`SeparateForCause`), and a join never loses what it covers
(`JoinsNeverShrink`, an action property), for any relationships and fields and for any nesting.
Generated keys are pairs of a name and a number, where the code has the string `{name}_{count}`
(`query_plan_state.rs:217-221`): the four theorems are about requests in which no relationship is
called like that.
`StackSound` types the stack, and says that a join is named by the last key on the way to it.
`KeysFresh` is needed because a reference that does not agree with a join is put under a key with
a new number: if that key were taken, the join there would be replaced. `ScopesSound` says who has
the scopes below the counter: a scope that is being planned is not yet any join's, and becomes
the one of a single join when it is left. The lemmas about unification carry the rest: what is
unified of two joins covers both (`FieldsUnified` and those built on it) and is compatible with a
third only if both are, so that neither what was covered nor a reason for a join of its own is
lost when a join goes on growing. Assumptions: `QueriesAssumption`, `PredicatesAssumption`
and `ElementsAssumption`, that queries, predicates and path elements are made of the fields and
relationships there are; `NoneAssumption`, that `None` is neither a scope nor an empty set.

**IntrospectionProofs**: only the file being written is torn (`TornIsBeingWritten`), only files of
sampled collections are written (`OnlySampledWritten`), what is configured at the top level is
kept (`TopLevelKept`), and what was sampled is there when a run is done (`FieldsAdded`), for any
collections, samples, changes, edits and crashes. `TopLevelKept` is about every configured
collection wherever a run stops: its file has what was configured, or is torn and the one file
the run was writing, and then the schema that was on its way there had it (`LostIfStopped`). The properties speak of the directory and of
what it was when the run began; `IInv` (`UpdateSound`) adds what the command has in its hands in
between. `CommandInOrder` is where it is and what it may be writing there; `ConfigurationRead` says
that what was configured has been read, as long as no one edits files, and `PendingKeepsTopLevel` that
what is to be written keeps it; `EachIsSampled` and `EachIsWritten` follow each collection from the
list into the queue and into its file while the database does not change. Assumptions: what
hand-written schemas, validators and samples are (`UserAssumption`, `ValidatorAssumption`,
`SamplesAssumption`), that collections have names, and that `Order` lists them. `IsSample` is what
`sampling.rs` yields: object types without a description, named by paths, in which a field
refers to a longer path that is defined (`make_object_type` names the type of a field by the
name of its object type and its own).

The second part of the module: repeated runs settle (`Settles`): without validators and over a database and a
directory that do not change, a run writes nothing that follows on at least two others, and on
more than there are levels of nested types. The induction is over the runs, not over the nesting, so
that an invariant can carry it. `Settled(s, U, k)` is what *k* runs over the sample *U* have made of a schema:
the object types it visits less than *k* levels deep are defined, those that are defined
have all sampled fields, of types the merge leaves alone, and from the second run on nothing else
is defined and merging what is there changes nothing. `MergeSettles` is one more run and one more
level (a reference that both sides have is followed, and what is followed gets defined), and
`SettledIsFixed` the end: with every level settled the merge returns what it was given.
`SettlingInv` says that the directory a run found and the one it leaves are settled as far as
`quiet`, which counts the undisturbed runs, and that such a run writes no file but those that it
derived out of what it found.

The attempt to prove it refuted the property as it stood first, with one run per level of nesting:
with flat samples and a configured object type that has a description, a field that one run adds is
given this description by the next (`keep_backward_compatible_changes.rs:92`), and object types of
a new collection that no field of both sides refers to are written by the first run and dropped by
the second. No run had such a schema. `ReintrospectionSettles` asks for a second run since.

**MergeTraversalProofs**: the three mutually recursive functions of
`keep_backward_compatible_changes.rs` return the merge that `SchemaMerge` defines at once
(`TraversalMerges`) and never merge an object type twice (`TraversalTakesOnce`), for all schemas,
whatever refers to what; no assumption is made. While they run, the accumulated types are not the
merge of anything; `IInv` says what they are on the way to: what was taken out of the maps is
accumulated or on the stack (`TakenIsKept`), each call has reconciled some of its fields, and
the types these refer to were taken too or are just being called for (`CallsSound`), and so it is with
each accumulated type (`AccumulatedSound`); nothing is taken that is not visited
(`OnlyFollowed`). With an empty stack what was taken is closed under `Followed` and hence all that
`Visited` has.

**TypeUnificationProofs** has, for all types, what the repository's proptests ask of random ones
(`type_unification.rs:235-297`) and what the comment of `unify_type` announces (`:20-21`): it is
commutative (`UnifyIsCommutative`), associative (`UnifyIsAssociative`), gives a type back
normalized when that is unified with itself (`UnifyIsIdempotent`), has a unit and a zero
(`UnifyHasUnitAndZero`), and on normalized types yields the least type above both
(`UnifyIsLeastUpperBound`). Object types follow field by field: a field that only one side has
admits null (`UnsharedFieldsAdmitNull`), and neither the order of object types
(`ObjectTypesUnifyInAnyOrder`) nor that of what was made of the documents of a sample
(`SamplesUnifyInAnyOrder`) matters, nor that one of them comes twice (`SampledTwiceAddsNothing`).
No assumption is made. `Recursion` shows that the recursive definitions define functions at all;
induction over types is done without an operator parameter, by a smallest counterexample among
the depths of types (`TypeInduction`, `PairInduction`, `TripleInduction`). The equations of
`unify_type` (`UnifyShapes`) have one arm that normalizes after each call, so the laws
are proved of normalized types first, where they are lifted over `Nullable` and arrays
(`NormalLifts`), and reach the others because unifying types is unifying what they normalize
to (`UnifyNormalizes`).

**SamplingProofs**: whatever `$sample` returns, in whatever order, the schema depends on the set of
documents read (`AlwaysOrderIndependent`), defines what it refers to (`AlwaysClosed`), admits the
documents (`AlwaysConform`), and gives each field the least type that admits what it holds
(`AlwaysLeastFieldTypes`). All four follow from one inductive invariant, `CollectedIsLeast`
(`AlwaysLeast`): schemas are ordered by `Includes`, of which `unify_object_types` is the join, and what is
collected is the least schema that includes what is made of each document read. There is only
one such schema (`LeastIsUnique`), hence the first; a value that has a type in one schema has it in
each that includes it (`ValuesLift`), hence the third; and if a field could have less, replacing its
type would give a smaller schema (`FieldReplaced`), hence the fourth. What is made of one value is
proved by induction over the nesting of values (`Rank`): it is a schema (`MadeDefined`), closed
(`MadeSelfContained`), the value has its type (`MadeDescribes`), and the type is the least the value
has (`MadeIsLeast`). `NestedDefined`, `MadeDefined`, `HeldDefined` and `OrderedDefined` show that the
recursive definitions define functions at all.
Assumptions: the nesting is bounded, by any number (`NestingAssumption`); documents are values
(`DocumentsAssumption`) whose field names are not empty; the collection has a name
(`NameAssumption`); and candidates are types that sampling may derive (`CandidatesAssumption`).
`AlwaysConform` asks more, and is false without: the documents are made of values a
schema can describe (`Describable`), without the BSON type undefined, which `unify_type` takes
for no information, and without two fields in a document of which the name of one begins with the
words of the other, as with `a` and `a_b` (section 6). `LeastFieldTypes` compares, of object types, only the one
with the field's own name; the attempt to prove it of all refuted it: two fields whose documents
have the same fields are given different object types, each of which admits what the other does.

**RelationalProofs**: the passes keep the rows of any request, in their order
(`PassesPreserveRowsAlways`); after them there is no right join left, and no filter or sort
that could go further down (`PassesAreCompleteAlways`); and in what is built from what they made, the
stage of a native query is the first of its pipeline (`NativeQueriesFirstAlways`).

That nothing is left to do: that the second
pass leaves what the first made (`PushedIsNormal`), and that each of them has nothing left to do
in what it returned (`NormalIsNormal`, `PushedIsPushed`). `pushdown_predicates` calls itself on
what it has just made, the filter below the projection, and not only on the inputs of what it was
given; that this ends is part of what is proved (`PushIs`: nothing gets higher, and the filter is
lower where it comes to be).

That the rows are kept: the inductive invariant is `Rewritten`, which says what the relation is at
each `pc`, the request, its normal form, or the pushdown of that; so that it remains to show that
neither pass changes the rows. For the pushdown, `RemappedMeansTheSame`: an expression
that `remap_expression` rewrites has, for a row before the projection, the value the original
has for the row after, whence a filter and a sort commute with a projection (`FilterPushed`,
`SortPushed`, `PushKeepsRows`). For the right joins: a pair of rows meets the condition with its
sides swapped just when it met it before (`MatchingSwapped`), and the columns of the swapped left
join, put back, are those of the right join (`SwappedKeeps`, `SwappedJoins`, `ReorderedRow`).
What is put back is counted from the number of columns of each side, as `column_count` computes it,
so that the rows must have as many columns as it says (`RowsAreTables`): they do unless a union
is of relations of different width, of which the pass counts the first. That
is the exception in the property, and `NormalKeepsRows` needs it; the pushdown does not.

That native queries are first: the inductive invariant is `Prepared`, which says what the early
match may be at each `pc` (none, or that of the relation as it is) and that the pipeline, once
there is one, has it so at every level of joins and unions. It rests on `BuildsLead`: the stages
that are built for a relation `Leads` it, that is, the only stage of a native query is the first,
what pipelines they hold have it so at every level, and there is none at all unless the left-most
source of the relation is one, or there is no one source as it is a union (`RootCollection`). The
last is what the early match needs, which is put in front of what was built: there is none for
such a relation (`EarlyMatchIsFirst`). Every operation adds stages that `Follows`: none of a
native query, and with pipelines only of what was built for other relations (`LookupFollows`,
`UnionFollows`). What is built for a union is built from what the passes make of its members,
which are no parts of it; that the recursion ends is proved too (`BuiltFirstIs`): the passes make
a relation no higher. As the first puts a projection on top of a right join, `height` counts two
steps for that (`NormalNoHigher`).

Two of the theorems are about `PassesSpec`, the two passes with any later steps that leave their
variables alone, the third about `BuilderSpec`, where the same is said of the steps after building;
those of `Relational` do leave them alone. Assumed is what `FiniteTrees` says: that
`Expressions` and `Relations` are made as in the NDC specification, out of any names, values,
operators, aggregates and windows, and that each of them is made in finitely many steps; `rank`
and `height` count these, a right join for two, so that the induction is one over numbers. A union is one of at
least one relation; every database has the collections that are named; and an operator that is not
one the passes look for has another name than those. `Recursion` shows that the recursive
definitions define functions at all.

Only model-checked, for reasons that are the prover's: query execution, what the pipelines of relational
queries yield (`ResponseIsRight`) and type inference, whose operators are RECURSIVE like the code
(queries, pipelines) and whose properties need induction over such data; and liveness (`EventuallyAnswered`, `UpdateEnds`, `EveryRequestEnds`,
`InferenceEnds`, the fairness of `ImplementsService`). Each safety property of `Sampling`,
`Introspection`, `MergeTraversal`, `Connector`, `Mutation` and `QueryPlanState` is proved.
`MergeTraversal` has no run: its theorems leave nothing to one but that the calls end.

## 6. Where the code and its documentation disagree

Each of these four is a run that ends in a counterexample and a finding in `PROJECT.json`.

1. `IntrospectionNested`: the type of a field is kept, but not the object type it names, and the
   written schema has a dangling reference. In the run the field is on both sides, configured with
   nested documents and sampled with an array of numbers: `reconcile_types` keeps the configured
   type (`(a, _) => a`, `keep_backward_compatible_changes.rs:154`) without following it. A field that
   only one side has is kept or added in the same way (lines 96 and 97). A second run repairs it
   when the type is still sampled (one level of nesting per run, see `IntrospectionProofs`), never
   when it is gone.
2. `QueryExecutionEmptyAggregates`: the aggregates and the rows of related rows are read from
   a `$facet` behind a `$lookup`; if no row is related `$group` yields nothing, the aggregates
   are missing, and the response cannot be serialized (`selection.rs:174` does not check for
   null where the arm for aggregates alone does).
3. `QueryExecutionShared`: a join that is unified from a reference to aggregates and one to rows
   yields one document with both; `selection_for_field` and the predicate of an `exists` read
   it as if it had the shape their own reference asked for.
4. `RelationalSemiJoin`: a semi or an anti join projects the columns of its left side to
   `col_0`, `col_1`, ... and leaves the column mapping as it was; unless they have these names
   already, each column of the response is null, as is what later stages read.

Disagreements without a run of their own:

- `sampling.rs:251`: the types of field `a_b` and of field `b` in `a` have the same name, one
  definition overwrites the other, and the document does not conform to its own schema
  (the run has no documents with such names). This and the BSON type undefined, which adds nothing
  to the type of a field (`type_unification.rs:30-31`), are the only ways: `AlwaysConform`.
- `mongo_connector.rs:321`: in Postgres mode a collection that is named only by an unrelated
  `exists` is not read from the store, and the query fails to plan (`KnownCollectionsPlan` says
  that these are the only ones).
- `unify_relationship_references.rs:247`: a column without a nested selection means the whole
  column, but `unify_nested_fields` keeps the nested selection of the other reference, and the
  first finds less than it asked for. `UsesCovered` is therefore about which columns a join
  yields, not about how much of each. Nested selections that do not unify, an object and an
  array (lines 250-268), lead to a join of their own; the module has only nested columns.
- `reference_shorthand.rs:42-43` says of a string that it "may contain native query variable
  references which implicitly have type String", but `plain_string` (`134-142`) yields none (its TODO
  names ENG-1250): a parameter embedded in a longer string is not declared, and
  `ParametersDeclared` is about the others. A string that begins with a placeholder and goes on is
  refused with the whole pipeline, as `alt` does not try `plain_string` after
  `native_query_variable` (`57-64`).

Further behaviour of the code that the model has and no run singles out: a configured field
whose object type was renamed by hand is given the generated name again (`ReconcileTypes`;
`src/CHANGELOG.md:179` says types of configured fields are not changed); validator schemas
replace whole files (`GetMetadataFromValidationSchema`), so that `ConfiguredTopLevelKept` is
stated for runs that skip them; updates write JSON whatever the format of the existing file;
edits saved during a run are lost; and a file is written in place (`fs::write`, `directory.rs:298`, with
no temporary file that is renamed), so that a process killed between truncating and writing it loses
all that was configured in it, which is what `ConfiguredTopLevelKept` excepts. The description of a field that is configured and sampled
becomes the one of its object type (`keep_backward_compatible_changes.rs:92`, against
`src/CHANGELOG.md:183`).

Where `Comparable` keeps apart what a relation means and what its pipeline does:

- `MayComeFirst`: the early match is taken from a filter above a `Paginate` or a `Window` too,
  which then page or number fewer rows; and with a join of a collection to itself, a filter on
  the right side is taken for one on the root (`optimize_filters.rs:79-83` rules this out for
  filters in the right input; the origin of a column is only a collection's name).
- `FieldsAgree`: the semi joins of item 6; unions, whose branches end with fields of different
  names while rows are read by those of the first (`pipeline_builder.rs:1213` compares the
  number of columns); and a branch that starts from a native query, as `$unionWith` is given
  the logical name (`pipeline_builder.rs:1224`).
- `NullsDoNotMatter`: `$expr` compares null and missing like other values; a missing field is
  not null to `$eq`, so it is counted by `COUNT(column)` and not moved by the keys for nulls
  that `build_sort` computes (for a key that is not a column this reads a field that the same
  `$addFields` sets, and that is not there yet); the order of row numbers takes no account of
  `nulls_sort`; ranks by several keys are refused; and an aggregate without groups of no rows is no
  row.
- `NullsAgree` and `InRange`, of expressions (`expression.rs`): a condition of null is null in SQL
  and true or false in MongoDB; `Substr` of or at null, `CharacterLength` of null, `Substr` at 0,
  counts below 0 and `Modulo` by 0 fail the whole query; `SubstrIndex` with count 0 is null.
- `LikesAgree`: a LIKE whose pattern is not a literal always fails: `"$"` is among the arguments of
  `$replaceAll` and `$concat` as a string (`expression.rs:1585-1616`), where it is the path of a
  field without a name. `%` and `_` do not match the end of a line (`1545-1546`).
- `TotalAgrees`: a list is sorted by its elements, whatever expression `order_by` has
  (`pipeline_builder.rs:709-724`); `StringAgg` puts no separator after a first string that is empty
  (`686-697`); nulls are counted by `Count` of distinct values, are elements of lists, and their sum
  is 0.
- Not in the instance: strings that begin with `$`, which are taken for the paths of fields, and
  numbers and truth values projected by themselves, which say whether a field is included
  (`translate_literal` has no `$literal`); `IsNaN`, for which NaN would have to differ from itself
  (`335-344`), and MongoDB has it equal.

Where `ResponseIsRight` and `PlannedIsAnswered` of `QueryExecution` keep apart what a query
means and what its pipeline does (`mongodb-agent-common/src/query/` unless named):

- `ShapesAgree`: the shared joins of item 3. `AggregatesAmongOthers`: item 2.
- `NullsDoNotMatter`: a filter that no query document can say becomes an aggregation expression,
  in which `$lt` holds of null and a number, `is_null` misses missing values
  (`make_aggregation_expression.rs:219-224`), a test of the elements of a missing array fails
  where the query document is false.
- `CountsColumn`: `aggregates.rs:47` counts "non-null, non-missing values" and counts missing ones.
- `KeysDiffer`: a column that is ordered by twice has the direction given last (`make_sort.rs`).
- `Supported`: `$limit` 0 is refused by MongoDB; `$nor` and `$nin` are no aggregation operators
  (`make_aggregation_expression.rs:72`); the result of an unrelated join is read from a field of
  the root that nothing fills (`column_ref.rs:97`); the value of a comparison cannot be a column
  behind a path; a field of a related row set whose alias is no valid field name yields a
  malformed stage (`pipeline.rs:190`); and a join to a native query keeps the native query's name
  as its collection and the arguments of the query around it (`relations.rs:35-60`).
- A row set that asks for aggregates without naming one, and for rows, gets the aggregates only.
- `NullIsNoElement`: an `exists` without a predicate in a nested collection becomes
  `{$exists: true, $not: {$size: 0}}` (`make_query_document.rs:162-168`), which a field that is null
  matches: the row is answered though it has no element.

Not in the instance, as the plan is wrong or fails before a pipeline is built: an `exists` in a
nested collection is looked up in the type of the root (`plan_for_expression.rs:338-352`), and
the path to it is reversed (`343-349`, `370-376`); aliases that are names of fields of the
collection overwrite them (`relations.rs:43`); a null element of an array of objects becomes an
object of nulls; the scope of a comparison value is ignored; limits, offsets and predicates of
groups are not applied; a join over two columns compares null with missing as unequal, one over
one column as equal; and `sanitize.rs:3-5` says that distinct names have distinct variables, but
`X` and `v_X` have the same one.

What the inference of types does, and the instance of `TypeInference` leaves out unless it is said:

- A parameter that has to be equal to something nullable in two ways (`{$gt: ["$m", "{{p}}"]}`,
  with `m` nullable) ends the process with a stack overflow: the arms of `simplify.rs:225` and
  `simplify.rs:248` call each other, against the comment at 136-141.
- Two exclusions by `$project` share one object type name, as `augmented_object_type_name` is not
  made unique (`project_stage.rs:32-35`), and so do two indexes of `$unwind`
  (`q_unwind_unwind`, `constraint_to_type.rs:338-341`): the latter overwrites the former.
- Fields that later constraints refer to are looked up in the documents before an `$unwind` or an
  exclusion only: `UnknownObjectType`. The instance has one of each.
- `unify` stops at an error of any variable, also of one that is neither that of the result nor a
  parameter's: whether such a variable is visited when enough is known of it to see that it fails
  depends on the order of the HashMap, so that one run of the command ends with an error and the
  next writes a configuration (`{$expr: {$eq: ["$t", 1]}}` with a string `t`; `simplify.rs:334` wants
  "a deterministic outcome"). The instance has such pipelines, and `OrderMattersOnlyToUnneeded`
  says that this is all that depends on the order.
- `$unwind` of a nested path loses the other fields (`pipeline/mod.rs:349-351`);
  `preserveNullAndEmptyArrays` is not looked at.
- `$match` with `$expr` does not look at its other keys, and `$median` and `$percentile` not at
  their parameters: these are not declared. `$percentile` is typed as a number
  (`pipeline/mod.rs:259-262`), MongoDB returns an array.
- An array literal is a union, not an array (`aggregation_expression.rs:87`); the `_id` that an
  inclusion keeps is an objectId, also after a `$group`; `$sin`, `$avg` and others of a
  reference to a nullable field are not null (`aggregation_expression.rs:301`), MongoDB answers
  null.
- Merges of object types are repeated in each pass that does not solve their variable, each time
  under the next number; `$max` is named like `$min`; the arm for predicates when merging and
  the renaming of `infer_pipeline_types:53-60` are never reached.

## 7. Not modelled, and the plan

Within modelled components: the options file and the relational mode flag, native queries and
mutations in the directory, `get_schema` and the refusal of mutations in Postgres mode (constant
answers), how a `$jsonSchema` is turned into types, interpolation of arguments and rewriting of
results (success or failure), and all wording, logging and tracing. Of planning: mutations, the
filter, the order and the window of groups, ordering by an aggregate, columns of named scopes,
and predicates as arguments. Of query execution: scalar types beyond int, long, string, date and
extendedJSON, and the options of the driver. Of type inference: the create command around it
(files, prompts, printing), the parsing of annotations and references, references with dots in
variables, and operators that are typed like one that is modelled. Of relational queries:
functions on dates, trigonometry, logarithms, roundings, division, casts, typed JSON accesses,
trims, upper case, `Random`, averages, medians, deviations and percentiles, most of them translated
one to one; the types and the widths of literals, arguments of native queries and those without
a collection, limits of depth. Generated keys are
pairs of name and number, so the run and the proofs are about requests in which no relationship is
called `name_0`; a failure while planning ends the request and leaves nothing behind.

1. *Extend.* The types of a `$jsonSchema`. For `Introspection`, an abstract
   evolution of a configuration that `update` implements.
2. *Prove.* `ResponseIsRight` of `Relational`, and the same of `QueryExecution`: their
   operators would have to be recursive functions, as those of `PipelineBuilder` are, and the
   induction the one of `RelationalProofs`.

## 8. Running it

    tlc -config Mutation.cfg Mutation         # a run: its module and its .cfg
    tlapm MutationProofs.tla                  # a module of proofs
