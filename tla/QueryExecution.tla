---------------------------- MODULE QueryExecution ---------------------------
(***************************************************************************)
(* A query request, step by step (mongodb-agent-common,                    *)
(* query/execute_query_request.rs): it is planned, a pipeline is built,    *)
(* MongoDB runs it, and what it returns becomes the response.              *)
(***************************************************************************)
EXTENDS QueryMeaning

CONSTANTS
    Databases,    \* what the collections may hold, and the native queries yield
    Requests

VARIABLES
    pc,           \* the step that comes next
    database,     \* one of Databases
    request,
    skip_row,     \* whether on_response_type_mismatch is skipRow
    query_plan,   \* Null before
    pipeline,     \* Null before
    documents,    \* what MongoDB returned, Null before
    response,     \* Null before
    fault         \* whether the database or the connection to it failed

vars == <<pc, database, request, skip_row, query_plan, pipeline, documents, response, fault>>

ASSUME ModelValuesDiffer == Cardinality({Null, Missing, Failed, TypeMismatch}) = 4

Init == /\ pc = "plan"
        /\ database \in Databases /\ request \in Requests /\ skip_row \in BOOLEAN
        /\ query_plan = Null /\ pipeline = Null /\ documents = Null /\ response = Null
        /\ fault = FALSE

Fail == /\ pc' = "failed"
        /\ UNCHANGED <<database, request, skip_row, query_plan, pipeline, documents, response, fault>>

Plan == /\ pc = "plan"
        /\ \E planned \in {PlanRequest(request)} : planned.st.ok /\ query_plan' = planned.of
        /\ pc' = "build"
        /\ UNCHANGED <<database, request, skip_row, pipeline, documents, response, fault>>

PlanFails == pc = "plan" /\ ~PlanRequest(request).st.ok /\ Fail

BuildPipeline == /\ pc = "build"
                 /\ pipeline' \in {PipelineForQueryRequest(query_plan)} \ {Failed}
                 /\ pc' = "execute"
                 /\ UNCHANGED <<database, request, skip_row, query_plan, documents, response, fault>>

BuildFails == pc = "build" /\ PipelineForQueryRequest(query_plan) = Failed /\ Fail

Answer == AggregateCommand(CommandTarget(query_plan), pipeline, database)

ExecutePipeline == /\ pc = "execute"
                   /\ documents' \in {Answer} \ {Failed}
                   /\ pc' = "serialize"
                   /\ UNCHANGED <<database, request, skip_row, query_plan, pipeline, response, fault>>

\* MongoDB refuses the pipeline, or fails on a document
CommandFails == pc = "execute" /\ Answer = Failed /\ Fail

\* The command or its cursor fails: no document is kept
DatabaseFails == /\ pc = "execute"
                 /\ pc' = "failed" /\ fault' = TRUE
                 /\ UNCHANGED <<database, request, skip_row, query_plan, pipeline, documents, response>>

Serialized == SerializeQueryResponse(query_plan, documents, skip_row)

Serialize == /\ pc = "serialize"
             /\ response' \in {Serialized} \ Errors
             /\ pc' = "done"
             /\ UNCHANGED <<database, request, skip_row, query_plan, pipeline, documents, fault>>

SerializeFails == pc = "serialize" /\ Serialized \in Errors /\ Fail

Next == \/ Plan \/ PlanFails \/ BuildPipeline \/ BuildFails \/ ExecutePipeline \/ CommandFails
        \/ DatabaseFails \/ Serialize \/ SerializeFails

Spec == Init /\ [][Next]_vars

-----------------------------------------------------------------------------
(* Where the meaning of a query and what is made of it are compared        *)

RECURSIVE Queries(_), Parts(_)
Queries(q) == {q} \cup UNION {Queries(q.relationships[k].query) : k \in DOMAIN q.relationships}

Parts(e) == {e} \cup CASE e.op \in {"and", "or", "not"} -> UNION {Parts(e.of[i]) : i \in DOMAIN e.of}
                       [] e.op = "exists" -> IF e.predicate = Null THEN {} ELSE Parts(e.predicate)
                       [] OTHER -> {}

PartsOf(q) == IF q.predicate = Null THEN {} ELSE Parts(q.predicate)

\* A filter that no query document can say
AsExpression(q) == q.predicate # Null /\ MakeQueryDocument(q.predicate) = Null

RelatedFields(q) == IF q.fields = Null THEN {} ELSE {f \in {q.fields[n] : n \in DOMAIN q.fields} : IsA("relationship", f)}

\* The joins whose documents a query reads as rows
ReadAsRows(q) ==
    ({e.in.relationship : e \in {x \in PartsOf(q) : x.op = "exists" /\ x.in.kind = "related"}}
        \cap DOMAIN q.relationships)
    \cup UNION {IF x.path = <<>> THEN {} ELSE {x.path[1]} :
                   x \in ToSet(q.order_by) \cup IF q.groups = Null THEN {} ELSE ToSet(q.groups.dimensions)}

\* Each reference to a join is one to documents of the shape that the join yields
ShapesAgree(q) ==
    LET shape(k) == ResponseFacets(q.relationships[k].query)
    IN  /\ \A f \in RelatedFields(q) : ResponseFacets(f) = shape(f.relationship)
        /\ \A k \in ReadAsRows(q) : shape(k) = "fields"

\* A related row set with aggregates and more: its aggregates are not there if nothing is related
AggregatesAmongOthers(q) == \E f \in RelatedFields(q) : ResponseFacets(f) = "combination"

Sparse(collection) == \E d \in ToSet(database[collection]) : \E n \in DOMAIN CollectionTypes[collection].object :
                          Nullish(FieldOf(d, n))
NothingIsNull == \A c \in DOMAIN database : ~Sparse(c)

\* In an aggregation expression what is missing is not null, null comes before numbers, and is no array
NullsDoNotMatter(q) == AsExpression(q) => NothingIsNull

\* Null has no elements, but a query document that asks whether there are any takes it for some
NullIsNoElement(q) ==
    \A e \in PartsOf(q) : (e.op = "exists" /\ e.in.kind = "nested" /\ e.predicate = Null) =>
        \A c \in DOMAIN database : \A d \in ToSet(database[c]) :
            At(d, <<e.in.column_name>> \o e.in.field_path) # Null

CountsColumn(q) == LET counts(aggregates) == \E n \in DOMAIN aggregates : aggregates[n].op = "column_count"
                   IN  \/ q.aggregates # Null /\ counts(q.aggregates)
                       \/ q.groups # Null /\ counts(q.groups.aggregates)

\* A column that is ordered by once; of several the last has its way
KeysDiffer(q) == \A i, j \in DOMAIN q.order_by : q.order_by[i].name = q.order_by[j].name => i = j

\* What the pipeline of a query is not made for
Supported(q) ==
    /\ q.limit # 0
    /\ \A e \in PartsOf(q) : /\ ~(e.op = "exists" /\ e.in.kind = "unrelated")
                             /\ AsExpression(q) => e.op \notin {"not", "nin"}
                             /\ "value" \in DOMAIN e => ~(IsA("column", e.value) /\ e.value.path # <<>>)
    /\ \A f \in RelatedFields(q) : f.fields # Null => DOMAIN f.fields \cap UnsafeNames = {}
    /\ \A k \in DOMAIN q.relationships : q.relationships[k].target_collection \notin DOMAIN NativeQueries

WellTyped(plan) ==
    /\ \A q \in Queries(plan.query) : \A e \in PartsOf(q) :
           "value" \in DOMAIN e => ~IsA("scalar", e.value) \/ JsonToBson(e.value.type, e.value.scalar) # Failed
    /\ HasVariables(plan) => \A i \in DOMAIN plan.variables :
                                 VariableSetToBson(plan.variables[i], plan.variable_types) # Failed

MeaningOf(set) == Meaning(request, set, skip_row, database)
\* A row set for each set of variables, and in it what the request means
Right == /\ Len(response) = Len(VariableSets(request))
         /\ \A i \in DOMAIN response :
                \E right \in {MeaningOf(VariableSets(request)[i])} :
                    /\ right \notin Errors
                    /\ InGroupsOfAnyOrder(AsDocument(response[i])) = InGroupsOfAnyOrder(right.doc)

Meanings == {MeaningOf(set) : set \in ToSet(VariableSets(request))}

-----------------------------------------------------------------------------
(* Properties                                                              *)

\* The response has a row set for each set of variables, and in it what the request asks for:
\* whatever joins are shared, whichever form a filter takes, and wherever values are renamed,
\* escaped or converted on the way.  Left out are the cases of section 6 of the README.
ResponseIsRight ==
    (pc = "done" /\ \A q \in Queries(query_plan.query) :
                        /\ ShapesAgree(q) /\ NullsDoNotMatter(q) /\ NullIsNoElement(q) /\ KeysDiffer(q)
                        /\ CountsColumn(q) \/ AggregatesAmongOthers(q) => NothingIsNull) =>
        Right

\* A query that is planned is answered, unless a value does not have its type, the database
\* fails, or the query is one of those that pipelines are not made for.
PlannedIsAnswered ==
    (pc = "failed" /\ query_plan # Null /\ ~fault) =>
        \/ ~WellTyped(query_plan) \/ Meanings \cap Errors # {}
        \/ \E q \in Queries(query_plan.query) : \/ ~Supported(q) \/ ~ShapesAgree(q) \/ ~NullsDoNotMatter(q)
                                                \/ AggregatesAmongOthers(q)

\* One $lookup answers all sets of variables, and each as a request with that set alone is
\* answered: no set sees the variables of another, and row sets come in the order of the sets.
RowSetPerVariableSet ==
    pc = "done" /\ HasVariables(query_plan) =>
        /\ Len(response) = Len(request.variables)
        /\ \A i \in DOMAIN response :
               LET alone == [query_plan EXCEPT !.variables = <<@[i]>>]
                   found == AggregateCommand(CommandTarget(alone), PipelineForQueryRequest(alone), database)
               IN  SerializeQueryResponse(alone, found, skip_row) = <<response[i]>>

\* Aggregates of related rows are there if no row is related: "Fill in null or zero values for
\* missing fields. If we skip this we get errors on missing data down the line."
\* (aggregates.rs:107-108).  What MongoDB returns can be serialized, if all values have their types.
AggregatesOfNothing == pc = "failed" /\ documents # Null => Meanings \cap Errors # {}

\* A join that several references share "covers the needs of both inputs"
\* (unify_relationship_references.rs:41-42): the response is right, whatever is shared.
SharedJoinsServeAll == pc = "done" /\ NothingIsNull => Right
=============================================================================
