---------------------------- MODULE QueryPipeline ---------------------------
(***************************************************************************)
(* From a query plan to an aggregation pipeline (mongodb-agent-common,     *)
(* its query and mongodb/sanitize.rs).  What cannot be built is Failed.    *)
(***************************************************************************)
EXTENDS QueryPlanner

CONSTANT OtherInitials    \* names that do not start with a lower case letter

\* All of the parts, or Failed if one is
IfBuilt(parts, whole) == IF Failed \in parts THEN Failed ELSE whole
AllBuilt(s) == IfBuilt(ToSet(s), s)
Stages(parts) == IfBuilt(ToSet(parts), FlattenSeq(parts))

-----------------------------------------------------------------------------
(* Names (sanitize.rs, query_variable_name.rs)                             *)

IsNameSafe(name) == name \notin UnsafeNames

\* Characters that are not valid in a variable are escaped, each in a way of its own
Variable(name, initial) == IF initial \in OtherInitials THEN "v_" \o name ELSE name

RECURSIVE TypeName(_)
TypeName(t) ==
    LET join(parts, separator) == FoldLeft(LAMBDA s, x : IF s = "" THEN x ELSE s \o separator \o x, "", parts)
    IN  CASE IsA("scalar", t)   -> t.scalar
          [] IsA("arrayOf", t)  -> "[" \o TypeName(t.arrayOf) \o "]"
          [] IsA("nullable", t) -> "nullable(" \o TypeName(t.nullable) \o ")"
          [] IsA("tuple", t)    -> "(" \o join([i \in DOMAIN t.tuple |-> TypeName(t.tuple[i])], ", ") \o ")"
          [] IsA("object", t)   -> LET names == SetToSeq(DOMAIN t.object)
                                   IN  "{" \o join([i \in DOMAIN names |->
                                           names[i] \o ":" \o TypeName(t.object[names[i]])], "") \o "}"

\* Mutant of QueryVariableName: the name without the type
VariableNameUntyped(name, type) == Variable(name, name)

QueryVariableName(name, type) == Variable(name \o "_" \o TypeName(type), name)

-----------------------------------------------------------------------------
(* References to columns (column_ref.rs)                                   *)

MatchKey(path)     == [ref |-> "key", path |-> path]
Shorthand(v, path) == [ref |-> "shorthand", name |-> v, path |-> path]
NoRef              == [ref |-> "none"]

IntoAggregateExpression(r) ==
    CASE r.ref = "key"        -> PathE(r.path)
      [] r.ref = "shorthand"  -> VarE(r.name, r.path)
      [] r.ref = "expression" -> r.expr

\* fold_path_element
IntoNestedField(r, n) ==
    CASE r.ref = "none" /\ IsNameSafe(n)  -> MatchKey(<<n>>)
      [] r.ref = "none" /\ ~IsNameSafe(n) -> [ref |-> "expression", expr |-> GetFieldE(VarE("CURRENT", <<>>), n)]
      [] r.ref \in {"key", "shorthand"} /\ IsNameSafe(n) -> [r EXCEPT !.path = Append(@, n)]
      [] OTHER -> [ref |-> "expression", expr |-> GetFieldE(IntoAggregateExpression(r), n)]

FromPath(path)   == FoldLeft(IntoNestedField, NoRef, path)
FromField(n)     == FromPath(<<n>>)
Column(target)   == FromPath(<<target.name>> \o target.field_path)
RefTo(v)         == Shorthand(v, <<>>)
IsKey(r)         == r.ref = "key"

-----------------------------------------------------------------------------
(* Values (json_to_bson.rs).  A date is a string in JSON.                  *)

BuiltArray(s) == IfBuilt(ToSet(s), Arr(s))
BuiltDoc(f) == IfBuilt({f[n] : n \in DOMAIN f}, Doc(f))

RECURSIVE JsonToBson(_, _)
JsonToBson(t, v) ==
    CASE IsA("nullable", t) -> IF v = Null THEN Null ELSE JsonToBson(t.nullable, v)
      [] IsA("scalar", t)   -> IF t.scalar = "date" /\ Is("string", v) THEN [date |-> v.string]
                               ELSE IF t.scalar = "extendedJSON" \/ Is(t.scalar, v) THEN v ELSE Failed
      [] IsA("arrayOf", t)  ->
             IF ~Is("array", v) THEN Failed
             ELSE BuiltArray([i \in DOMAIN v.array |-> JsonToBson(t.arrayOf, v.array[i])])
      [] IsA("tuple", t)    ->
             IF ~Is("array", v) THEN Failed
             ELSE BuiltArray([i \in DOMAIN v.array \cap DOMAIN t.tuple |-> JsonToBson(t.tuple[i], v.array[i])])
      [] IsA("object", t)   ->
             IF ~Is("doc", v) THEN Failed
             ELSE LET there == {n \in DOMAIN t.object : n \in DOMAIN v.doc \/ ~IsA("nullable", t.object[n])}
                  IN  BuiltDoc([n \in there |->
                          IF n \in DOMAIN v.doc THEN JsonToBson(t.object[n], v.doc[n]) ELSE Failed])

-----------------------------------------------------------------------------
(* Predicates (make_selector)                                              *)

\* comparison_function.rs
MongoName(op) == "$" \o op

RECURSIVE MakeQueryDocument(_), MakeAggregationExpression(_)

\* make_query_document.rs: Null is what only an expression can say
ValueInDocument(v) == IF IsA("scalar", v) THEN JsonToBson(v.type, v.scalar) ELSE Null

ElementIn(r, q) == IF q = Failed THEN Failed
                   ELSE IF q = Null \/ ~IsKey(r) THEN Null
                   ELSE [op |-> "elemMatch", path |-> r.path, query |-> q]

\* Without a predicate {$exists: true, $not: {$size: 0}}, which null matches
ExistsInDocument(r, predicate) ==
    IF predicate = Null
    THEN IF IsKey(r) THEN [op |-> "nonempty", path |-> r.path] ELSE Null
    ELSE ElementIn(r, MakeQueryDocument(predicate))

\* Mutant of DocumentsOf: the parts that are no query documents are left out
DocumentsOfSome(e) == SelectSeq([i \in DOMAIN e.of |-> MakeQueryDocument(e.of[i])], LAMBDA q : q # Null)

DocumentsOf(e) == [i \in DOMAIN e.of |-> MakeQueryDocument(e.of[i])]

AllInDocument(op, qs) == IF Failed \in ToSet(qs) THEN Failed ELSE IF Null \in ToSet(qs) THEN Null
                         ELSE [op |-> op, of |-> qs]

MakeQueryDocument(e) ==
    CASE e.op \in {"and", "or", "not"} ->
             AllInDocument(IF e.op = "not" THEN "$nor" ELSE MongoName(e.op), DocumentsOf(e))
      [] e.op = "exists" ->
             (CASE e.in.kind = "related"   -> ExistsInDocument(FromField(e.in.relationship), e.predicate)
                [] e.in.kind = "unrelated" -> Null
                [] e.in.kind = "nested"    -> ExistsInDocument(FromPath(<<e.in.column_name>> \o e.in.field_path),
                                                               e.predicate))
      [] OTHER ->
             LET r == Column(e.column)
                 value == IF "value" \in DOMAIN e THEN ValueInDocument(e.value) ELSE Null
                 q == [op |-> CASE e.op = "is_null" -> "$eq" [] e.op = "is_empty" -> "empty"
                                [] e.op = "contains" -> "contains" [] OTHER -> MongoName(e.op),
                       path |-> r.path, value |-> value]
             IN  IF value = Failed THEN Failed
                 ELSE IF ~IsKey(r) \/ ("value" \in DOMAIN e /\ ~IsA("scalar", e.value)) THEN Null ELSE q

\* make_aggregation_expression.rs.  The scope of a column is not looked at.
ValueExpression(v) ==
    CASE IsA("scalar", v)   -> LET b == JsonToBson(v.type, v.scalar) IN IfBuilt({b}, LiteralE(b))
      [] IsA("variable", v) -> IntoAggregateExpression(RefTo(QueryVariableName(v.variable, v.type)))
      [] IsA("column", v)   -> IF v.path # <<>> THEN Failed ELSE IntoAggregateExpression(Column(v.column))

AnyTrue(array, in) == IfBuilt({in}, E("$anyElementTrue", <<MapE(array, "CURRENT", in)>>))

ExistsInArray(r, predicate) ==
    LET array == IntoAggregateExpression(r)
    IN  IF predicate = Null THEN E("$gt", <<E("$size", <<array>>), LiteralE(Int_(0))>>)
        ELSE AnyTrue(array, MakeAggregationExpression(predicate))

AllTrue(op, es) == IfBuilt(ToSet(es), E(op, es))

ComparisonExpression(op, column, value) ==
    CASE op = "is_null"  -> E("$eq", <<column, LiteralE(Null)>>)
      [] op = "is_empty" -> E("$eq", <<E("$size", <<column>>), LiteralE(Int_(0))>>)
      [] op = "contains" -> IfBuilt({value}, E("$in", <<value, column>>))
      [] OTHER           -> IfBuilt({value}, E(MongoName(op), <<column, value>>))

MakeAggregationExpression(e) ==
    CASE e.op \in {"and", "or", "not"} ->
             AllTrue(IF e.op = "not" THEN "$nor" ELSE MongoName(e.op),
                     [i \in DOMAIN e.of |-> MakeAggregationExpression(e.of[i])])
      [] e.op = "exists" ->
             ExistsInArray(CASE e.in.kind = "related"   -> FromField(e.in.relationship)
                             [] e.in.kind = "unrelated" -> IntoNestedField(RefTo("ROOT"), e.in.unrelated_collection)
                             [] e.in.kind = "nested"    -> FromPath(<<e.in.column_name>> \o e.in.field_path),
                           e.predicate)
      [] OTHER ->
             ComparisonExpression(e.op, IntoAggregateExpression(Column(e.column)),
                                  IF "value" \in DOMAIN e THEN ValueExpression(e.value) ELSE Null)

\* make_expression_plan, make_selector: the stage that filters
Selector(q, x) == IF q = Failed THEN Failed
                  ELSE IF q # Null THEN [op |-> "$match", query |-> q]
                  ELSE IfBuilt({x}, [op |-> "$expr", expr |-> x])

MakeSelector(e) == Selector(MakeQueryDocument(e), MakeAggregationExpression(e))

-----------------------------------------------------------------------------
(* Orders (make_sort.rs)                                                   *)

SafeAlias(e) == FoldLeft(LAMBDA s, n : s \o "_" \o n, "__sort_key_", e.path \o <<e.name>> \o e.field_path)

\* A key that comes again has the direction of the last and the place of the first
SortKeys(order_by) ==
    LET ref(e) == FromPath(e.path \o <<e.name>> \o e.field_path)
        key(e) == [path |-> IF IsKey(ref(e)) THEN ref(e).path ELSE <<SafeAlias(e)>>, desc |-> e.desc,
                   alias |-> IF IsKey(ref(e)) THEN Null ELSE IntoAggregateExpression(ref(e))]
        insert(keys, k) == IF \E i \in DOMAIN keys : keys[i].path = k.path
                           THEN [i \in DOMAIN keys |-> IF keys[i].path = k.path THEN k ELSE keys[i]]
                           ELSE Append(keys, k)
    IN  FoldLeft(LAMBDA keys, e : insert(keys, key(e)), <<>>, order_by)

SortStages(keys) ==
    LET aliased == {i \in DOMAIN keys : keys[i].alias # Null}
        aliases == [n \in {keys[i].path[1] : i \in aliased} |->
                       keys[CHOOSE i \in aliased : keys[i].path[1] = n].alias]
    IN  (IF aliased = {} THEN <<>> ELSE << [op |-> "$addFields", fields |-> aliases] >>)
        \o << [op |-> "$sort", keys |-> keys] >>

MakeSortStages(order_by) == SortStages(SortKeys(order_by))

-----------------------------------------------------------------------------
(* Aggregates and groups (aggregates.rs, groups.rs)                        *)

IsCount(a) == a.op \in {"column_count", "star_count"}

AggregateToAccumulator(a) ==
    LET field == IntoAggregateExpression(FromPath(<<a.column>> \o a.field_path))
    IN  CASE a.op = "star_count" -> [op |-> "$sum", expr |-> LiteralE(Int_(1))]
          [] a.op = "column_count" ->
                 IF a.distinct THEN [op |-> "$addToSet", expr |-> field]
                 ELSE [op |-> "$sum", expr |-> E("$cond", << E("$eq", <<field, LiteralE(Null)>>),
                                                             LiteralE(Int_(0)), LiteralE(Int_(1)) >>)]
          [] a.op = "single_column" -> [op |-> MongoName(a.function), expr |-> field]

ReplaceMissing(e, a) == E("$ifNull", <<e, LiteralE(IF IsCount(a) THEN Int_(0) ELSE Null)>>)

\* selection_for_aggregate: what is counted distinctly is counted, and sums become longs
SelectionForAggregate(n, a) ==
    LET ref   == IntoAggregateExpression(FromField(n))
        value == IF a.op = "column_count" /\ a.distinct THEN E("countNonNull", <<ref>>) ELSE ref
        full  == ReplaceMissing(value, a)
    IN  IF a.op = "single_column" /\ a.function = "sum" THEN E("$toLong", <<full>>) ELSE full

SelectionForAggregates(aggregates) == [n \in DOMAIN aggregates |-> SelectionForAggregate(n, aggregates[n])]

GroupStage(key, aggregates) ==
    [op |-> "$group", key |-> key, accumulators |-> [n \in DOMAIN aggregates |-> AggregateToAccumulator(aggregates[n])]]
ReplaceWith(e) == [op |-> "$replaceWith", expr |-> e]

PipelineForAggregates(aggregates) ==
    << GroupStage(LiteralE(Null), aggregates), ReplaceWith(DocumentE(SelectionForAggregates(aggregates))) >>

DimensionRef(d) == FromPath(d.path \o <<d.column_name>> \o d.field_path)

PipelineForGroups(grouping) ==
    LET key == E("array", [i \in DOMAIN grouping.dimensions |-> IntoAggregateExpression(DimensionRef(grouping.dimensions[i]))])
        aggregates == SelectionForAggregates(grouping.aggregates)
    IN  << GroupStage(key, grouping.aggregates),
           ReplaceWith(DocumentE([n \in {"dimensions"} \cup DOMAIN aggregates |->
                           IF n \in DOMAIN aggregates THEN aggregates[n] ELSE PathE(<<"_id">>)])) >>

-----------------------------------------------------------------------------
(* The shape of responses (is_response_faceted.rs)                         *)

Asked(q) == {part \in {"aggregates", "fields", "groups"} :
                q[part] # Null /\ (part # "groups" => DOMAIN q[part] # {})}

ResponseFacets(q) == IF Cardinality(Asked(q)) > 1 THEN "combination"
                     ELSE IF q.aggregates # Null THEN "aggregates"
                     ELSE IF q.groups # Null THEN "groups" ELSE "fields"

-----------------------------------------------------------------------------
(* Selections (selection.rs)                                               *)

\* escape_invalid_keys
EscapeInvalidKeys(fields) ==
    IF \A n \in DOMAIN fields : IsNameSafe(n) THEN DocumentE(fields)
    ELSE FoldLeft(LAMBDA e, n : SetFieldE(e, n, fields[n]), VarE("CURRENT", <<>>), SetToSeq(DOMAIN fields))

NestedColumn(parent, column) == IntoNestedField(parent, column)

RECURSIVE ForFields(_, _), SelectionForField(_, _), SelectionForArray(_, _, _), MapNested(_, _)

ForFields(parent, fields) == [n \in DOMAIN fields |-> SelectionForField(parent, fields[n])]

OrNullLiteral(condition, e) == E("$cond", <<condition, e, LiteralE(Null)>>)

MapNested(level, in) == IF level = 0 THEN in ELSE MapE(VarE("this", <<>>), "this", MapNested(level - 1, in))

SelectionForArray(parent, nested, level) ==
    IF IsA("array", nested) THEN SelectionForArray(parent, nested.array, level + 1)
    ELSE LET array == IntoAggregateExpression(parent)
         IN  OrNullLiteral(array, MapE(array, "this",
                 MapNested(level, EscapeInvalidKeys(ForFields(RefTo("this"), nested.object)))))

\* Fields, aggregates or groups of one row of what a join found
FieldSelection(fields) == DocumentE([n \in DOMAIN fields |->
    IntoAggregateExpression(IntoNestedField(RefTo("this"), n))])

AggregatesSelection(from, aggregates, check_for_null) == [n \in DOMAIN aggregates |->
    LET value == IntoAggregateExpression(IntoNestedField(from, n))
    IN  IF check_for_null THEN ReplaceMissing(value, aggregates[n]) ELSE value]

GroupSelection(grouping) ==
    DocumentE(With(AggregatesSelection(RefTo("this"), grouping.aggregates, FALSE), "dimensions",
                   IntoAggregateExpression(IntoNestedField(RefTo("this"), "dimensions"))))

\* Mutant of CheckForNull: the aggregates of a join that found nothing are left out of any response
CheckForNullNever(facets) == FALSE

\* In a combination the aggregates are taken as they are
CheckForNull(facets) == facets = "aggregates"

SelectionForRelationship(f) ==
    LET facets == ResponseFacets(f)
        join   == IntoAggregateExpression(FromField(f.relationship))
        rows(array, in) == MapE(array, "this", in)
        rowSet(part) == VarE("row_set", <<part>>)
        selected(part, array) ==
            CASE part = "fields" -> rows(array, FieldSelection(f.fields))
              [] part = "groups" -> rows(array, GroupSelection(f.groups))
        key(part) == IF part = "fields" THEN "rows" ELSE part
        named(parts, Select(_)) == DocumentE([k \in {key(p) : p \in parts} |->
                                                 Select(CHOOSE p \in parts : key(p) = k)])
    IN  CASE facets = "combination" ->
               LetE("row_set", E("$first", <<join>>),
                    named(Asked(f), LAMBDA p :
                        IF p = "aggregates"
                        THEN DocumentE(AggregatesSelection(Shorthand("row_set", <<"aggregates">>), f.aggregates,
                                                           CheckForNull(facets)))
                        ELSE selected(p, rowSet(key(p)))))
          [] facets = "aggregates" ->
               named({"aggregates"}, LAMBDA p :
                   LetE("aggregates", E("$first", <<join>>),
                        DocumentE(AggregatesSelection(RefTo("aggregates"), f.aggregates, CheckForNull(facets)))))
          [] facets = "fields" ->
               named({"fields"}, LAMBDA p : IF f.fields = Null THEN rows(join, DocumentE(EmptyMap))
                                            ELSE selected(p, join))
          [] facets = "groups" -> named({"groups"}, LAMBDA p : selected(p, join))

SelectionForField(parent, f) ==
    IF IsA("relationship", f) THEN SelectionForRelationship(f)
    ELSE LET column == NestedColumn(parent, f.column)
             value  == IntoAggregateExpression(column)
         IN  IF f.fields = Null THEN E("$ifNull", <<value, LiteralE(Null)>>)
             ELSE IF IsA("object", f.fields)
             THEN OrNullLiteral(value, EscapeInvalidKeys(ForFields(column, f.fields.object)))
             ELSE SelectionForArray(column, f.fields.array, 0)

-----------------------------------------------------------------------------
(* Pipelines (pipeline.rs, relations.rs, native_query.rs, foreach.rs)      *)

\* pipeline_for_fields_facet.  The rows of a join keep the joins in them, by keys that are put
\* into the document of the selection, which is no document if a name had to be escaped.
ReplaceWithFields(fields, joins) ==
    LET all    == [n \in DOMAIN fields \cup joins |->
                      IF n \in joins THEN IntoAggregateExpression(FromField(n)) ELSE fields[n]]
        escaped == \E n \in DOMAIN fields : ~IsNameSafe(n)
    IN  << ReplaceWith(IF joins = {} THEN EscapeInvalidKeys(fields)
                       ELSE IF escaped THEN E("malformed", <<>>) ELSE DocumentE(all)) >>

PipelineForFieldsFacet(q, level) ==
    ReplaceWithFields(IF q.fields = Null THEN EmptyMap ELSE ForFields(NoRef, q.fields),
                      IF level = "top" THEN {} ELSE DOMAIN q.relationships)

FacetPipeline(part, q, level) ==
    CASE part = "aggregates" -> PipelineForAggregates(q.aggregates)
      [] part = "groups"     -> PipelineForGroups(q.groups)
      [] part = "fields"     -> PipelineForFieldsFacet(q, level)

\* The facets have names of their own, which are no part of the result
Diverging(q, level) ==
    LET parts  == {x \in {"aggregates", "fields", "groups"} : q[x] # Null}
        key(p) == IF p = "fields" THEN "rows" ELSE p
        select == [n \in {key(p) : p \in parts} |->
                      IF n = "aggregates" THEN E("$first", <<PathE(<<n>>)>>) ELSE PathE(<<n>>)]
    IN  IF ResponseFacets(q) # "combination" THEN FacetPipeline(ResponseFacets(q), q, level)
        ELSE << [op |-> "$facet", pipelines |-> [n \in {key(p) : p \in parts} |->
                    FacetPipeline(CHOOSE p \in parts : key(p) = n, q, level)]],
                ReplaceWith(DocumentE(select)) >>

InputCollection(collection) ==
    IF collection \in DOMAIN NativeQueries THEN NativeQueries[collection] ELSE collection

\* pipeline_for_native_query.  In a join it runs on a collection that has the name of the query.
PipelineForNativeQuery(plan, level) ==
    IF plan.collection \notin DOMAIN NativeQueries THEN <<>>
    ELSE LET args == [n \in DOMAIN plan.arguments |-> ValueExpression(
                         IF IsA("variable", plan.arguments[n].value)
                         THEN [variable |-> plan.arguments[n].value.variable, type |-> plan.arguments[n].type]
                         ELSE [scalar |-> plan.arguments[n].value.literal, type |-> plan.arguments[n].type])]
         IN  IF DOMAIN CollectionArguments[plan.collection] \subseteq DOMAIN args
             THEN IfBuilt({args[n] : n \in DOMAIN args},
                          << [op |-> "native", query |-> plan.collection, arguments |-> args,
                              on |-> IF level = "top" THEN InputCollection(plan.collection) ELSE plan.collection] >>)
             ELSE Failed

\* make_lookup_stage
MakeLookupStage(name, r, pipeline, scope) ==
    LET sources == SetToSeq(DOMAIN r.column_mapping)
        scoped(bindings) == IF scope = Null THEN bindings ELSE With(bindings, scope, VarE("ROOT", <<>>))
        concise == /\ Len(sources) = 1 /\ IsKey(FromField(sources[1]))
                   /\ IsKey(FromPath(r.column_mapping[sources[1]]))
        variable(s) == Variable(s, s)
        bindings == [v \in {variable(s) : s \in ToSet(sources)} |->
            IntoAggregateExpression(FromField(sources[Max({i \in DOMAIN sources : variable(sources[i]) = v})]))]
        matchers == [i \in DOMAIN sources |->
            E("$eq", << IntoAggregateExpression(RefTo(variable(sources[i]))),
                        IntoAggregateExpression(FromPath(r.column_mapping[sources[i]])) >>)]
        match == [op |-> "$expr", expr |-> IF Len(matchers) = 1 THEN matchers[1] ELSE E("$and", matchers)]
        stage(local, foreign, let, stages) ==
            [op |-> "$lookup", from |-> r.target_collection, local |-> local, foreign |-> foreign,
             let |-> let, pipeline |-> stages, as |-> name]
    IN  IF concise THEN stage(<<sources[1]>>, r.column_mapping[sources[1]], scoped(EmptyMap), pipeline)
        ELSE stage(Null, Null, scoped(bindings), <<match>> \o pipeline)

Window(q) == (IF q.offset = Null THEN <<>> ELSE << [op |-> "$skip", count |-> q.offset] >>)
             \o IF q.limit = Null THEN <<>> ELSE << [op |-> "$limit", count |-> q.limit] >>

Lookup(name, join, pipeline, scope) == IfBuilt({pipeline}, MakeLookupStage(name, join, pipeline, scope))

RECURSIVE PipelineForNonForeach(_, _)

\* pipeline_for_relations: the plan of a join differs from the plan in query and collection
PipelineForRelations(plan) ==
    LET joins == plan.query.relationships
        names == SetToSeq(DOMAIN joins)
        inner(join) == [plan EXCEPT !.query = join.query, !.collection = join.target_collection]
    IN  AllBuilt([i \in DOMAIN names |->
            Lookup(names[i], joins[names[i]], PipelineForNonForeach(inner(joins[names[i]]), "relationship"),
                   plan.query.scope)])

PipelineForNonForeach(plan, level) ==
    LET q == plan.query
    IN  Stages(<<PipelineForNativeQuery(plan, level), PipelineForRelations(plan),
                 IF q.predicate = Null THEN <<>> ELSE AllBuilt(<<MakeSelector(q.predicate)>>),
                 IF q.order_by = <<>> THEN <<>> ELSE MakeSortStages(q.order_by),
                 Window(q), Diverging(q, level)>>)

\* variable_sets_to_bson
VariableSetToBson(set, types) ==
    LET uses  == UNION {{<<n, t>> : t \in types[n]} : n \in DOMAIN set}
        names == {QueryVariableName(u[1], u[2]) : u \in uses}
    IN  BuiltDoc([v \in names |-> LET u == CHOOSE u \in uses : QueryVariableName(u[1], u[2]) = v
                                  IN  JsonToBson(u[2], set[u[1]])])

Bindings(sets) == [v \in UNION {DOMAIN sets[i].doc : i \in DOMAIN sets} |-> PathE(<<v>>)]

\* Mutant of VariableSetsStage: sets that are equal, as far as they are used, are one
VariableSetsStageOnce(sets) == [op |-> "$documents", documents |-> Uniques(sets)]

VariableSetsStage(sets) == [op |-> "$documents", documents |-> sets]

\* pipeline_for_foreach: one document for each set of variables, and the query once for each
PipelineForForeach(plan) ==
    LET first == E("$first", <<PathE(<<"query">>)>>)
        key(part) == IF part = "fields" THEN "rows" ELSE part
        facets == ResponseFacets(plan.query)
        selection ==
            CASE facets = "combination" -> [k \in {key(p) : p \in Asked(plan.query)} |-> GetFieldE(first, k)]
              [] facets = "aggregates"  -> [k \in {"aggregates"} |-> first]
              [] facets = "fields"      -> [k \in {"rows"} |-> PathE(<<"query">>)]
              [] facets = "groups"      -> [k \in {"groups"} |-> PathE(<<"query">>)]
        stages(sets, query) ==
            IfBuilt({sets, query},
                    << VariableSetsStage(sets),
                       [op |-> "$lookup", from |-> InputCollection(plan.collection), local |-> Null, foreign |-> Null,
                        let |-> Bindings(sets), pipeline |-> query, as |-> "query"],
                       ReplaceWith(DocumentE(selection)) >>)
    IN  stages(AllBuilt([i \in DOMAIN plan.variables |-> VariableSetToBson(plan.variables[i], plan.variable_types)]),
               PipelineForNonForeach(plan, "top"))

HasVariables(plan) == plan.variables # Null

PipelineForQueryRequest(plan) ==
    IF HasVariables(plan) THEN PipelineForForeach(plan) ELSE PipelineForNonForeach(plan, "top")

\* execute_query_pipeline: the collection the command is for, if there is one
CommandTarget(plan) == IF HasVariables(plan) THEN Null ELSE InputCollection(plan.collection)
=============================================================================
