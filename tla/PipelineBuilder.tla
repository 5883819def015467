-------------------------- MODULE PipelineBuilder --------------------------
(***************************************************************************)
(* Building a pipeline from a relation                                     *)
(* (mongodb-agent-common/src/relational/pipeline_builder.rs).  A context   *)
(* has the logical name of the source, the collection to run on, the names *)
(* of the fields that hold the columns, and the stages so far.             *)
(***************************************************************************)
EXTENDS EarlyMatch, ScalarTranslation

CONSTANT Nesting    \* how many levels of pipelines in pipelines are looked at

ASSUME NestingAssumption == Nesting \in Nat

Col(i)          == "col_" \o ToString(i)
Positional(n)   == [i \in 1..n |-> Col(i - 1)]
Field(name)     == Path(<<name>>)
\* The entries of a document that come one after the other
Named(names, values) == [n \in ToSet(names) |-> values[CHOOSE i \in DOMAIN names : names[i] = n]]

Add(ctx, stages)          == [ctx EXCEPT !.stages = @ \o stages]
Reshape(ctx, stages, n)   == [Add(ctx, stages) EXCEPT !.columns = Positional(n)]

\* translate_expression: a column, a literal, or an operator of what its operands are translated to
Translate(e, columns) ==
    LET translated[x \in Expressions] ==
            LET a == [i \in DOMAIN Operands(x) |-> translated[Operands(x)[i]]]
            IN  CASE x.op = "Column"   -> Field(columns[x.index + 1])
                  [] x.op = "Literal"  -> x
                  [] x.op = "GetField" -> [op |-> "$getField", input |-> a[1], field |-> x.field]
                  [] x.op \in DOMAIN Renamed -> Call(Renamed[x.op], a)
                  [] x.op \in {"Between", "NotBetween", "Contains", "IsZero"}  -> TranslateComparison(x.op, a)
                  [] x.op \in {"Like", "NotLike", "ILike", "NotILike"}         -> TranslateLike(x.op, a)
                  [] x.op \in {"Case", "CaseOf", "Coalesce", "NullIf"}         -> TranslateConditional(x.op, a)
                  [] x.op \in {"Substr", "StrPos"}                              -> TranslateSubstring(x.op, a)
                  [] x.op \in {"Left", "Right", "Reverse"}                     -> TranslateSides(x.op, a)
                  [] x.op \in {"LPad", "RPad"}                                 -> TranslatePad(x.op, a)
                  [] x.op = "SubstrIndex"                                      -> TranslateSubstrIndex(a)
                  [] x.op \in {"JsonGet", "JsonLength", "JsonContains"}        -> TranslateJson(x.op, a)
                  [] OTHER -> TranslateLogic(x.op, a)
    IN  translated[e]

\* extract_field_path, extract_column_field
FieldPath(e, columns) == PathOf(e, [i \in DOMAIN columns |-> <<columns[i]>>])

MatchStage(predicate, columns) ==
    LET query == QueryDocument(predicate, [i \in DOMAIN columns |-> <<columns[i]>>])
    IN  IF query # Null THEN [op |-> "$match", query |-> query]
        ELSE [op |-> "$expr", expr |-> Translate(predicate, columns)]

\* MongoDB's nulls are first, or last if the order descends
NeedsNullSortKey(sort) == sort.nulls_last # sort.desc

\* build_sort: on the fields themselves, or on temporary ones.  No field is named twice.
SortStages(exprs, columns) ==
    IF \A i \in DOMAIN exprs : IsSimpleFieldReference(exprs[i].expr) /\ ~NeedsNullSortKey(exprs[i])
    THEN << [op |-> "$sort",
             keys |-> [i \in DOMAIN exprs |-> [path |-> FieldPath(exprs[i].expr, columns), desc |-> exprs[i].desc]]] >>
    ELSE LET key(i)   == IF exprs[i].expr.op = "Column" THEN columns[exprs[i].expr.index + 1]
                         ELSE "__sort_key_" \o ToString(i - 1)
             order(i) == "__null_order_" \o ToString(i - 1)
             nulls    == {i \in DOMAIN exprs : NeedsNullSortKey(exprs[i])}
             computed == {i \in DOMAIN exprs : exprs[i].expr.op # "Column"}
             \* 1 for what is to come last
             null_order(i) == LET value == IF exprs[i].nulls_last THEN 1 ELSE 0
                              IN  Cond(Equals(Field(key(i)), Literal(Null)), Literal(value), Literal(1 - value))
             fields   == [n \in {key(i) : i \in computed} \cup {order(i) : i \in nulls} |->
                             IF \E i \in computed : key(i) = n
                             THEN Translate(exprs[CHOOSE i \in computed : key(i) = n].expr, columns)
                             ELSE null_order(CHOOSE i \in nulls : order(i) = n)]
         IN  << [op |-> "$addFields", fields |-> fields],
                [op |-> "$sort",
                 keys |-> FlattenSeq([i \in DOMAIN exprs |->
                             (IF i \in nulls THEN << [path |-> <<order(i)>>, desc |-> FALSE] >> ELSE <<>>)
                             \o << [path |-> <<key(i)>>, desc |-> exprs[i].desc] >>])],
                [op |-> "$unset", names |-> DOMAIN fields] >>

PaginateStages(fetch, skip) ==
    (IF skip > 0 THEN << [op |-> "$skip", count |-> skip] >> ELSE <<>>)
    \o (IF fetch # Null THEN << [op |-> "$limit", count |-> fetch] >> ELSE <<>>)

ProjectStage(exprs, columns) ==
    [op |-> "$project",
     fields |-> Named(Positional(Len(exprs)), [i \in DOMAIN exprs |-> Translate(exprs[i], columns)])]

\* translate_aggregate_expression: what is made from all the values later on
Collector(e) == IF e.op \in {"ArrayAgg", "StringAgg"} /\ e.distinct THEN "$addToSet" ELSE "$push"

Accumulator(e, columns) ==
    LET inner == Translate(e.expr, columns)
    IN  [op   |-> CASE e.op = "Count" -> IF e.distinct THEN "$addToSet" ELSE "$sum"
                    [] e.op \in {"ArrayAgg", "StringAgg", "BoolAnd", "BoolOr"} -> Collector(e)
                    [] e.op = "Sum" -> "$sum"
                    [] e.op = "Min" -> "$min"
                    [] e.op = "Max" -> "$max"
                    [] e.op = "FirstValue" -> "$first"
                    [] e.op = "LastValue"  -> "$last",
         expr |-> IF e.op # "Count" \/ e.distinct THEN inner
                  ELSE IF e.expr = Literal(Null) THEN Literal(1)
                  ELSE Cond(Call("$ne", <<inner, Literal(Null)>>), Literal(1), Literal(0))]

\* build_sort_by_for_sort_array: of what the values are sorted by, the direction counts
SortArray(source, order_by) ==
    IF order_by = <<>> THEN source ELSE [op |-> "$sortArray", input |-> source, desc |-> order_by[1].desc]

\* apply_aggregate_post_processing, source being the field of the accumulator
PostProcessed(e, source) ==
    CASE e.op = "Count" /\ e.distinct -> Call("$size", <<source>>)
      [] e.op = "BoolAnd"   -> Call("$allElementsTrue", <<source>>)
      [] e.op = "BoolOr"    -> Call("$anyElementTrue", <<source>>)
      [] e.op = "ArrayAgg"  -> SortArray(source, e.order_by)
      [] e.op = "StringAgg" ->
           LET string == Call("$toString", <<Var("this")>>)
           IN  ReduceToString(SortArray(source, e.order_by), <<>>,
                              Cond(Equals(Var("value"), Literal(<<>>)), string,
                                   Concat(<<Var("value"), Literal(e.separator), string>>)))
      [] OTHER -> source

\* build_aggregate
AggregateStages(group_by, aggregates, columns) ==
    LET g(i)  == "_g" \o ToString(i - 1)
        a(i)  == "_a" \o ToString(i - 1)
        n     == Len(group_by)
        keys  == CASE n = 0   -> [k \in {"_id"} |-> Literal(Null)]
                   [] n = 1   -> [k \in {"_id"} |-> Translate(group_by[1], columns)]
                   [] OTHER   -> Named([i \in 1..n |-> g(i)], [i \in 1..n |-> Translate(group_by[i], columns)])
        accumulators == Named([i \in DOMAIN aggregates |-> a(i)],
                              [i \in DOMAIN aggregates |-> Accumulator(aggregates[i], columns)])
        outputs == [i \in 1..n |-> IF n = 1 THEN Field("_id") ELSE Path(<<"_id", g(i)>>)]
                   \o [i \in DOMAIN aggregates |-> PostProcessed(aggregates[i], Field(a(i)))]
    IN  << [op |-> "$group", key |-> keys, accumulators |-> accumulators],
           [op |-> "$project", fields |-> Named(Positional(Len(outputs)), outputs)] >>

\* build_let_variables, build_join_match_expr
LeftVariable(i) == "left_" \o ToString(i - 1)

JoinMatch(on, columns) ==
    LET conditions == [i \in DOMAIN on |-> Equals(Translate(on[i].right, columns), Var(LeftVariable(i)))]
    IN  IF Len(conditions) = 1 THEN conditions[1] ELSE Call("$and", conditions)

\* build_lookup_stage
LookupStage(left, right, on) ==
    [op |-> "$lookup", from |-> right.target,
     pipeline |-> Append(right.stages, [op |-> "$expr", expr |-> JoinMatch(on, right.columns)]),
     let |-> Named([i \in DOMAIN on |-> LeftVariable(i)], [i \in DOMAIN on |-> Translate(on[i].left, left.columns)])]

\* build_join_project, build_semi_anti_project
JoinProject(left_columns, right_columns) ==
    LET outputs == [i \in DOMAIN left_columns |-> Field(left_columns[i])]
                   \o [i \in DOMAIN right_columns |-> Path(<<"_joined", right_columns[i]>>)]
    IN  [op |-> "$project", fields |-> Named(Positional(Len(outputs)), outputs)]

UpdateJoinColumnMapping(ctx, right_columns) ==
    [ctx EXCEPT !.columns = Positional(Len(@) + Len(right_columns))]

\* build_join: with a semi or an anti join, the names of the columns stay what they were
JoinContext(left, right, on, type) ==
    IF type \in {"Left", "Inner"}
    THEN UpdateJoinColumnMapping(Add(left, << LookupStage(left, right, on),
                                              [op |-> "$unwind", preserve |-> type = "Left"],
                                              JoinProject(left.columns, right.columns) >>),
                                 right.columns)
    ELSE Add(left, << LookupStage(left, right, on),
                      [op |-> "$nonempty", value |-> type = "LeftSemi"],
                      JoinProject(left.columns, <<>>) >>)

WindowOperators == [RowNumber |-> "$documentNumber", Rank |-> "$rank", DenseRank |-> "$denseRank"]

\* build_window
WindowStages(exprs, columns) ==
    LET w(i) == "_w" \o ToString(i - 1)
        outputs == [i \in DOMAIN columns |-> Field(columns[i])] \o [i \in DOMAIN exprs |-> Field(w(i))]
    IN  [i \in DOMAIN exprs |->
            [op |-> "$setWindowFields", field |-> w(i),
             output |-> [op |-> WindowOperators[exprs[i].op],
                         partition |-> [j \in DOMAIN exprs[i].partition_by |-> FieldPath(exprs[i].partition_by[j], columns)],
                         sort |-> [j \in DOMAIN exprs[i].order_by |->
                                      [path |-> FieldPath(exprs[i].order_by[j].expr, columns),
                                       desc |-> exprs[i].order_by[j].desc]]]]]
        \o << [op |-> "$project", fields |-> Named(Positional(Len(outputs)), outputs)] >>

\* build_from
Source(collection, columns) ==
    LET native == collection \in DOMAIN NativeQueries
    IN  [collection |-> collection, columns |-> columns,
         target |-> IF native THEN NativeQueries[collection] ELSE collection,
         stages |-> IF native THEN << [op |-> "native", query |-> collection] >> ELSE <<>>]

WithEarlyMatch(query, ctx) ==
    IF query = Null THEN ctx ELSE [ctx EXCEPT !.stages = << [op |-> "$match", query |-> query] >> \o @]

\* The other members of a union are optimized on their own
Optimized(r) == PushdownPredicates(NormalizeRightJoins(r))

\* The relations that pipelines are built from to build that of a relation
BuiltFirst(r) ==
    IF r.op = "Union" THEN <<r.relations[1]>> \o [i \in 1..(Len(r.relations) - 1) |-> Optimized(r.relations[i + 1])]
    ELSE Inputs(r)

\* build_union, given what is built from its members, which are named by their logical sources
UnionStages(members, contexts) ==
    [i \in 1..(Len(members) - 1) |->
        LET ctx == WithEarlyMatch(ExtractEarlyMatch(members[i + 1]), contexts[i + 1])
        IN  [op |-> "$unionWith", coll |-> ctx.collection, pipeline |-> ctx.stages]]

\* A relation, given what is built from those that come first
BuiltFrom(r, contexts) ==
    LET ctx == contexts[1]
    IN  CASE r.op = "From"      -> Source(r.collection, r.columns)
          [] r.op = "Filter"    -> Add(ctx, << MatchStage(r.predicate, ctx.columns) >>)
          [] r.op = "Sort"      -> Add(ctx, SortStages(r.exprs, ctx.columns))
          [] r.op = "Paginate"  -> Add(ctx, PaginateStages(r.fetch, r.skip))
          [] r.op = "Project"   -> Reshape(ctx, << ProjectStage(r.exprs, ctx.columns) >>, Len(r.exprs))
          [] r.op = "Aggregate" -> Reshape(ctx, AggregateStages(r.group_by, r.aggregates, ctx.columns),
                                           Len(r.group_by) + Len(r.aggregates))
          [] r.op = "Window"    -> Reshape(ctx, WindowStages(r.exprs, ctx.columns), Len(ctx.columns) + Len(r.exprs))
          [] r.op = "Join"      -> JoinContext(ctx, contexts[2], r.on, r.type)
          [] r.op = "Union"     -> Add(ctx, UnionStages(BuiltFirst(r), contexts))

\* build_relation of a relation that BuildFails is not true of
Build(r) ==
    LET build[x \in Relations] == BuiltFrom(x, [i \in DOMAIN BuiltFirst(x) |-> build[BuiltFirst(x)[i]]])
    IN  build[r]

\* The errors: full joins, right joins that were not normalized, unions of different widths, lists
\* sorted by more than one key
BuildFails(r) ==
    UnionsDiffer(r) \/ \E s \in Subrelations(r) :
        \/ s.op = "Join" /\ s.type \notin {"Left", "Inner", "LeftSemi", "LeftAnti"}
        \/ s.op = "Aggregate" /\ \E e \in ToSet(s.aggregates) : "order_by" \in DOMAIN e /\ Len(e.order_by) > 1

-----------------------------------------------------------------------------
(* A pipeline for what the passes made of a request                        *)

VARIABLES
    early_match,  \* a query document, Null if there is none
    context       \* what the pipeline was built in, Null before

building == <<passes, early_match, context>>

BuilderInit == PassesInit /\ early_match = Null /\ context = Null

ExtractMatch == /\ pc = "extract" /\ Proceed("build")
                /\ early_match' = ExtractEarlyMatch(relation)
                /\ UNCHANGED context

BuildPipeline == /\ pc = "build" /\ ~BuildFails(relation)
                 /\ Proceed("execute")
                 /\ context' = WithEarlyMatch(early_match, Build(relation))
                 /\ UNCHANGED early_match

BuildingFails == /\ pc = "build" /\ BuildFails(relation)
                 /\ Proceed("failed")
                 /\ UNCHANGED <<early_match, context>>

\* What Relational has to say more about
Answered == {"done", "refused", "failed"}
AfterBuilding(step) == pc = "execute" /\ Proceed(step) /\ UNCHANGED <<early_match, context>>

BuilderNext == \/ (NormalizeRelation \/ PushdownRelation) /\ UNCHANGED <<early_match, context>>
               \/ ExtractMatch \/ BuildPipeline \/ BuildingFails
               \/ \E step \in Answered : AfterBuilding(step)

BuilderSpec == BuilderInit /\ [][BuilderNext]_building

\* A pipeline, and those in its stages and in the stages of these, so many levels down
PipelinesIn(stages, levels) ==
    LET within[n \in Nat] ==
            IF n = 0 THEN {stages}
            ELSE within[n - 1] \cup {s.pipeline : s \in {t \in UNION {ToSet(p) : p \in within[n - 1]} :
                                                              "pipeline" \in DOMAIN t}}
    IN  within[levels]

\* The pipeline of a native query stays the first of the stages, at the root, in joins and in
\* unions: it may begin with a stage that has to be.
NativeQueriesFirst ==
    context # Null => \A stages \in PipelinesIn(context.stages, Nesting) :
                          \A i \in DOMAIN stages : stages[i].op = "native" => i = 1
=============================================================================
