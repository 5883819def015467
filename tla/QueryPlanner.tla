---------------------------- MODULE QueryPlanner ----------------------------
(***************************************************************************)
(* From a query request to a query plan (ndc-query-plan, its               *)
(* plan_for_query_request): names get types, and each reference to a       *)
(* relationship gets the key of a join.  QueryPlanState is about the       *)
(* registry of joins alone; here is all that a pipeline is built from.     *)
(*                                                                         *)
(* A request is within the capabilities the connector declares, and valid  *)
(* for its schema.  Its query:                                             *)
(*   aggregates, fields: Null or functions of names                        *)
(*   groups:     Null or dimensions and aggregates                         *)
(*   order_by:   a sequence, with no element if there is no order          *)
(*   predicate:  Null or an expression                                     *)
(*   limit, offset: Null or a number                                       *)
(* What the planner keeps is threaded through as st: the relationships of  *)
(* the sub-query, two counters, the types of variables, the unrelated      *)
(* joins, and whether all went well.                                       *)
(***************************************************************************)
EXTENDS MongoAggregation, TLC

CONSTANTS
    CollectionTypes,      \* for each collection and native query the object type of its rows
    CollectionArguments,  \* for each of them the types of its arguments
    Relationships         \* collection_relationships: for each name a target and a mapping

EmptyMap == <<>>

Scalar(s)   == [scalar |-> s]
Nullable(t) == [nullable |-> t]
ArrayOf(t)  == [arrayOf |-> t]
Object(f)   == [object |-> f]
Tuple_(ts)  == [tuple |-> ts]
NoType      == [noType |-> TRUE]
IsA(kind, t) == kind \in DOMAIN t

RECURSIVE Underlying(_), TypeAt(_, _), ElementType(_)

IntoNullable(t) == IF IsA("nullable", t) THEN t ELSE Nullable(t)
Underlying(t) == IF IsA("nullable", t) THEN Underlying(t.nullable) ELSE t

\* find_object_type: an object, or the one object of a tuple
ObjectIn(t) ==
    LET u == Underlying(t)
        objects == IF IsA("tuple", u) THEN SelectSeq(u.tuple, LAMBDA x : IsA("object", Underlying(x))) ELSE <<>>
    IN  IF IsA("object", u) THEN u ELSE IF Len(objects) = 1 THEN Underlying(objects[1]) ELSE NoType

\* get_object_field_by_path: the type of what a path leads to in an object
TypeAt(object, path) ==
    IF object = NoType \/ Head(path) \notin DOMAIN object.object THEN NoType
    ELSE IF Len(path) = 1 THEN object.object[Head(path)]
    ELSE TypeAt(ObjectIn(object.object[Head(path)]), Tail(path))

\* into_array_element_type
ElementType(t) == LET u == Underlying(t) IN IF IsA("arrayOf", u) THEN u.arrayOf ELSE NoType

\* Each of a sequence, or of a function, in turn; Plan(x, st) has what x is planned as in "of"
PlanAll(xs, st0, Plan(_, _)) ==
    FoldLeft(LAMBDA done, x : LET p == Plan(x, done.st) IN [of |-> Append(done.of, p.of), st |-> p.st],
             [of |-> <<>>, st |-> st0], xs)

PlanEach(f, st0, Plan(_, _)) ==
    LET names == SetToSeq(DOMAIN f)
        all   == PlanAll([i \in DOMAIN names |-> f[names[i]]], st0, Plan)
    IN  [of |-> [n \in DOMAIN f |-> all.of[CHOOSE i \in DOMAIN names : names[i] = n]], st |-> all.st]

Planned(x, st) == [of |-> x, st |-> st]

\* What is planned next, given what the part before is planned as and the state after it
Then(planned, Plan(_, _)) == Plan(planned.of, planned.st)

-----------------------------------------------------------------------------
(* Unification of references (unify_relationship_references.rs)            *)

DefaultQuery == [aggregates |-> Null, fields |-> Null, groups |-> Null, order_by |-> <<>>, predicate |-> Null,
                 limit |-> Null, offset |-> Null, relationships |-> EmptyMap, scope |-> Null]

Both(a, b, Same(_, _)) == a = Null \/ b = Null \/ Same(a, b)
Union_(a, b, Unify(_, _)) == IF a = Null THEN b ELSE IF b = Null THEN a ELSE Unify(a, b)
EachBoth(f, g, Same(_, _))  == \A n \in DOMAIN f \cap DOMAIN g : Same(f[n], g[n])
EachUnion(f, g, Unify(_, _)) == [n \in DOMAIN f \cup DOMAIN g |->
    IF n \notin DOMAIN g THEN f[n] ELSE IF n \notin DOMAIN f THEN g[n] ELSE Unify(f[n], g[n])]

RECURSIVE FieldsUnify(_, _), NestedUnify(_, _), UnifiedField(_, _), UnifiedNested(_, _)

NestedUnify(a, b) == \/ IsA("object", a) /\ IsA("object", b) /\ EachBoth(a.object, b.object, FieldsUnify)
                     \/ IsA("array", a) /\ IsA("array", b) /\ NestedUnify(a.array, b.array)

FieldsUnify(a, b) ==
    \/ IsA("column", a) /\ IsA("column", b) /\ a.column = b.column /\ Both(a.fields, b.fields, NestedUnify)
    \/ /\ IsA("relationship", a) /\ IsA("relationship", b) /\ a.relationship = b.relationship
       /\ Both(a.aggregates, b.aggregates, LAMBDA x, y : x = y)
       /\ Both(a.fields, b.fields, LAMBDA f, g : EachBoth(f, g, FieldsUnify))
       /\ Both(a.groups, b.groups, LAMBDA x, y : x = y)

UnifiedNested(a, b) == IF IsA("object", a) THEN [object |-> EachUnion(a.object, b.object, UnifiedField)]
                       ELSE [array |-> UnifiedNested(a.array, b.array)]

UnifiedField(a, b) ==
    IF IsA("column", a) THEN [a EXCEPT !.fields = Union_(@, b.fields, UnifiedNested)]
    ELSE [b EXCEPT !.aggregates = IF a.aggregates = Null THEN @ ELSE a.aggregates,
                   !.fields = Union_(a.fields, @, LAMBDA f, g : EachUnion(f, g, UnifiedField)),
                   !.groups = IF a.groups = Null THEN @ ELSE a.groups]

\* An "and" of nothing is no predicate
SimplifyExpression(e) == IF e # Null /\ e.op = "and" /\ e.of = <<>> THEN Null ELSE e

RECURSIVE RelationshipsUnify(_, _), UnifiedRelationship(_, _)

\* Whether unify_relationship_references has no error, and what it returns
RelationshipsUnify(a, b) ==
    LET p == a.query
        q == b.query
    IN  /\ a.arguments = b.arguments
        /\ p.limit = q.limit /\ p.offset = q.offset /\ p.order_by = q.order_by
        /\ SimplifyExpression(p.predicate) = SimplifyExpression(q.predicate)
        /\ \A part \in {"scope", "aggregates", "groups"} : Both(p[part], q[part], LAMBDA x, y : x = y)
        /\ Both(p.fields, q.fields, LAMBDA f, g : EachBoth(f, g, FieldsUnify))
        /\ EachBoth(p.relationships, q.relationships, RelationshipsUnify)

UnifiedRelationship(a, b) ==
    LET either(x, y) == IF x = Null THEN y ELSE x
        q == b.query
    IN  [a EXCEPT !.query = [@ EXCEPT
            !.aggregates = either(@, q.aggregates), !.groups = either(@, q.groups), !.scope = either(@, q.scope),
            !.fields = Union_(@, q.fields, LAMBDA f, g : EachUnion(f, g, UnifiedField)),
            !.predicate = SimplifyExpression(@),
            !.relationships = EachUnion(@, q.relationships, UnifiedRelationship)]]

-----------------------------------------------------------------------------
(* The state of the planner (query_plan_state.rs)                          *)

NewState == [relationships |-> EmptyMap, relationship_name_counter |-> 0, scope_name_counter |-> 0,
             variable_types |-> EmptyMap, unrelated_joins |-> EmptyMap, ok |-> TRUE]

\* state_for_subquery, and what the enclosing query has of the state afterwards
Subquery(st)      == [st EXCEPT !.relationships = EmptyMap]
Leave(inner, st)  == [inner EXCEPT !.relationships = st.relationships]
Require(st, fact) == [st EXCEPT !.ok = @ /\ fact]

RegisterVariableUse(st, name, type) ==
    [st EXCEPT !.variable_types =
        With(@, name, {type} \cup IF name \in DOMAIN @ THEN @[name] ELSE {})]

\* plan_for_arguments, plan_for_relationship_arguments: those given are those declared
PlanArguments(parameters, arguments, st) ==
    LET names == SetToSeq(DOMAIN arguments \cap DOMAIN parameters)
    IN  Planned([n \in DOMAIN arguments |-> [value |-> arguments[n],
                                             type |-> IF n \in DOMAIN parameters THEN parameters[n] ELSE NoType]],
                FoldLeft(LAMBDA s, n : IF IsA("variable", arguments[n])
                                       THEN RegisterVariableUse(s, arguments[n].variable, parameters[n]) ELSE s,
                         Require(st, DOMAIN arguments = DOMAIN parameters), names))

\* Arguments of a relationship are only looked at if there are any
PlanRelationshipArguments(collection, arguments, st) ==
    IF arguments = EmptyMap THEN Planned(EmptyMap, st)
    ELSE PlanArguments(CollectionArguments[collection], arguments, st)

UniqueName(name, st) == name \o "_" \o ToString(st.relationship_name_counter)
CountName(st) == [st EXCEPT !.relationship_name_counter = @ + 1]

\* register_relationship: "of" is the key of the join that the reference is to read
RegisterRelationship(name, arguments, query, st) ==
    LET target == Relationships[name].target
        args   == PlanRelationshipArguments(target, arguments, st)
        new    == [column_mapping |-> Relationships[name].mapping, target_collection |-> target,
                   arguments |-> args.of, query |-> query]
        registered == args.st.relationships
        key(k, r, s) == Planned(k, [s EXCEPT !.relationships = With(@, k, r)])
    IN  IF name \notin DOMAIN registered THEN key(name, new, args.st)
        ELSE IF RelationshipsUnify(registered[name], new)
        THEN key(name, UnifiedRelationship(registered[name], new), args.st)
        ELSE key(UniqueName(name, args.st), new, CountName(args.st))

\* register_unrelated_join
RegisterUnrelatedJoin(collection, arguments, query, st) ==
    LET args == PlanRelationshipArguments(collection, arguments, st)
        key  == UniqueName("__join_" \o collection, args.st)
    IN  Planned(key, [CountName(args.st) EXCEPT !.unrelated_joins =
            With(@, key, [target_collection |-> collection, arguments |-> args.of, query |-> query])])

-----------------------------------------------------------------------------
(* Expressions and paths (plan_for_expression.rs, plan_for_relationship.rs) *)

\* ComparisonTarget
Target(type, t) == [name |-> t.name, field_path |-> t.field_path, type |-> TypeAt(type, <<t.name>> \o t.field_path)]

\* ComparisonOperatorDefinition::argument_type; the arguments of custom operators are those of the scalar type
RECURSIVE ScalarIn(_)
ScalarIn(t) == LET u == Underlying(t) IN IF IsA("arrayOf", u) THEN ScalarIn(u.arrayOf) ELSE u
ArgumentType(op, t) == CASE op \in {"eq", "lt"} -> t
                         [] op = "in"  -> ArrayOf(t)
                         [] op = "ne"  -> ScalarIn(t)
                         [] op = "nin" -> ArrayOf(ScalarIn(t))
                         [] op = "contains" -> ElementType(t)

\* query_local_comparison_targets
RECURSIVE LocalTargets(_)
LocalTargets(e) ==
    CASE e.op \in {"and", "or", "not"} -> UNION {LocalTargets(e.of[i]) : i \in DOMAIN e.of}
      [] e.op \in {"is_null", "is_empty"} -> {e.column}
      [] e.op = "exists" -> {}
      [] OTHER -> {e.column} \cup IF IsA("column", e.value) /\ e.value.path = <<>> THEN {e.value.column} ELSE {}

ColumnField(c, type) == [column |-> c, fields |-> Null, type |-> type]

RECURSIVE PlanExpression(_, _, _, _), PlanPath(_, _, _, _), PlanValue(_, _, _, _, _), PlanExists(_, _, _)

PlanPredicate(root, type, e, st) == IF e = Null THEN Planned(Null, st) ELSE PlanExpression(root, type, e, st)

\* plan_for_relationship_path: the keys of the joins to go through, the columns asked of the last
PlanPath(root, path, columns, st) ==
    IF path = <<>> THEN Planned(<<>>, st)
    ELSE LET head == Head(path)
             type == CollectionTypes[Relationships[head.relationship].target]
             last == Len(path) = 1
             query(p, s) == [DefaultQuery EXCEPT
                                !.predicate = p, !.relationships = s.relationships,
                                !.fields = IF last THEN [c \in columns |-> ColumnField(c, TypeAt(type, <<c>>))] ELSE @]
         IN  Then(PlanPath(root, Tail(path), columns, Subquery(st)), LAMBDA rest, s1 :
             Then(PlanPredicate(root, type, head.predicate, s1), LAMBDA p, s2 :
             Then(RegisterRelationship(head.relationship, head.arguments, query(p, s2), Leave(s2, st)), LAMBDA key, s3 :
             Planned(<<key>> \o rest, s3))))

EndOfPath(type, path) ==
    IF path = <<>> THEN type ELSE CollectionTypes[Relationships[path[Len(path)].relationship].target]

\* plan_for_comparison_value
PlanValue(root, type, expected, v, st) ==
    IF IsA("scalar", v) THEN Planned([scalar |-> v.scalar, type |-> expected], st)
    ELSE IF IsA("variable", v)
         THEN Planned([variable |-> v.variable, type |-> expected], RegisterVariableUse(st, v.variable, expected))
         ELSE Then(PlanPath(root, v.path, {v.column.name}, st), LAMBDA path, s :
              Planned([column |-> Target(EndOfPath(type, v.path), v.column), path |-> path, scope |-> v.scope], s))

PlanExpression(root, type, e, st) ==
    CASE e.op \in {"and", "or", "not"} ->
             Then(PlanAll(e.of, st, LAMBDA x, s : PlanExpression(root, type, x, s)), LAMBDA all, s :
             Planned([e EXCEPT !.of = all], s))
      [] e.op \in {"is_null", "is_empty"} -> Planned([e EXCEPT !.column = Target(type, @)], st)
      [] e.op = "exists" -> PlanExists(root, e, st)
      [] OTHER -> LET target == Target(type, e.column)
                  IN  Then(PlanValue(root, type, ArgumentType(e.op, target.type), e.value, st), LAMBDA value, s :
                      Planned([op |-> e.op, column |-> target, value |-> value], s))

\* plan_for_exists.  The query of a related collection selects the columns that the predicate
\* compares and is not itself filtered; nested collections are looked for in the root type.
PlanExists(root, e, st) ==
    LET in == e.in
        exists(x, p) == [op |-> "exists", in |-> x, predicate |-> p]
    IN  CASE in.kind = "related" ->
             LET fields(compared) == [c \in {t.name : t \in compared} |->
                                         ColumnField(c, (CHOOSE t \in compared : t.name = c).type)]
                 query(p, s) == [DefaultQuery EXCEPT !.fields = IF p = Null THEN Null ELSE fields(LocalTargets(p)),
                                                     !.relationships = s.relationships]
             IN  Then(PlanPredicate(root, CollectionTypes[Relationships[in.relationship].target],
                                    e.predicate, Subquery(st)), LAMBDA p, s1 :
                 Then(RegisterRelationship(in.relationship, in.arguments, query(p, s1), Leave(s1, st)), LAMBDA key, s2 :
                 Planned(exists([kind |-> "related", relationship |-> key], p), s2)))
          [] in.kind = "unrelated" ->
             LET query(p, s) == [DefaultQuery EXCEPT !.predicate = p, !.relationships = s.relationships]
             IN  Then(PlanPredicate(root, CollectionTypes[in.collection], e.predicate, Subquery(st)), LAMBDA p, s1 :
                 Then(RegisterUnrelatedJoin(in.collection, in.arguments, query(p, s1), Leave(s1, st)), LAMBDA key, s2 :
                 Planned(exists([kind |-> "unrelated", unrelated_collection |-> key], p), s2)))
          [] in.kind = "nested" ->
             LET nested == ObjectIn(ElementType(TypeAt(root, Append(in.field_path, in.column_name))))
                 known  == in.column_name \in DOMAIN root.object /\ nested # NoType
             IN  Then(IF known THEN PlanPredicate(root, nested, e.predicate, Subquery(st)) ELSE Planned(Null, st),
                      LAMBDA p, s : Planned(exists(in, p), Require(Leave(s, st), known)))

-----------------------------------------------------------------------------
(* Queries (mod.rs, type_annotated_field.rs, plan_for_grouping.rs)         *)

\* plan_for_aggregate
PlanAggregate(type, a) ==
    CASE a.op = "star_count"    -> a
      [] a.op = "column_count"  -> a
      [] a.op = "single_column" ->
             LET t == TypeAt(type, <<a.column>> \o a.field_path)
             IN  [op |-> a.op, column |-> a.column, field_path |-> a.field_path, function |-> a.function,
                  result_type |-> IF a.function = "sum" THEN Nullable(Scalar("long")) ELSE IntoNullable(t)]
PlanAggregates(type, aggregates) == [n \in DOMAIN aggregates |-> PlanAggregate(type, aggregates[n])]

RECURSIVE PlanQuery(_, _, _), PlanField(_, _, _, _), PlanNested(_, _, _, _)

PlanFields(root, type, fields, st) == PlanEach(fields, st, LAMBDA f, s : PlanField(root, type, f, s))

\* type_annotated_nested_field_helper
PlanNested(root, t, nested, st) ==
    IF IsA("object", nested)
    THEN Then(PlanFields(root, Underlying(t), nested.object, st), LAMBDA fields, s : Planned([object |-> fields], s))
    ELSE Then(PlanNested(root, Underlying(t).arrayOf, nested.array, st), LAMBDA inner, s : Planned([array |-> inner], s))

\* type_annotated_field: a related query has a scope of its own
PlanField(root, type, field, st) ==
    IF IsA("column", field)
    THEN LET t == TypeAt(type, <<field.column>>)
         IN  Then(IF field.fields = Null THEN Planned(Null, st) ELSE PlanNested(root, t, field.fields, st),
                  LAMBDA nested, s : Planned([column |-> field.column, fields |-> nested, type |-> t], s))
    ELSE LET inner == [Subquery(st) EXCEPT !.scope_name_counter = @ + 1]
             scope == "scope_" \o ToString(st.scope_name_counter)
         IN  Then(PlanQuery(CollectionTypes[Relationships[field.relationship].target], field.query, inner),
                 LAMBDA q, s1 :
             Then(RegisterRelationship(field.relationship, field.arguments, [q EXCEPT !.scope = scope], Leave(s1, st)),
                 LAMBDA key, s2 :
             Planned([relationship |-> key, aggregates |-> q.aggregates, fields |-> q.fields, groups |-> q.groups], s2)))

\* plan_for_order_by_element
PlanOrderByElement(type, e, st) ==
    Then(PlanPath(type, e.path, {e.name}, st), LAMBDA path, s :
    Planned([path |-> path, name |-> e.name, field_path |-> e.field_path, desc |-> e.desc], s))

\* plan_for_dimension
PlanDimension(type, d, st) ==
    LET t == TypeAt(EndOfPath(type, d.path), <<d.column_name>> \o d.field_path)
    IN  Then(PlanPath(type, d.path, {d.column_name}, st), LAMBDA path, s :
        Planned([path |-> path, column_name |-> d.column_name, field_path |-> d.field_path,
                 field_type |-> IF d.path = <<>> THEN t ELSE ArrayOf(t)], s))

PlanGrouping(type, grouping, st) ==
    Then(PlanAll(grouping.dimensions, st, LAMBDA d, s : PlanDimension(type, d, s)), LAMBDA dimensions, s :
    Planned([dimensions |-> dimensions, aggregates |-> PlanAggregates(type, grouping.aggregates)], s))

\* plan_for_query
PlanQuery(type, query, st) ==
    LET orNull(x, Plan(_), s) == IF x = Null THEN Planned(Null, s) ELSE Plan(s)
    IN  Then(orNull(query.fields, LAMBDA s : PlanFields(type, type, query.fields, s), Subquery(st)), LAMBDA fields, s1 :
        Then(PlanAll(query.order_by, s1, LAMBDA e, s : PlanOrderByElement(type, e, s)), LAMBDA order_by, s2 :
        Then(PlanPredicate(type, type, query.predicate, s2), LAMBDA p, s3 :
        Then(orNull(query.groups, LAMBDA s : PlanGrouping(type, query.groups, s), s3), LAMBDA groups, s4 :
        Planned([aggregates |-> IF query.aggregates = Null THEN Null ELSE PlanAggregates(type, query.aggregates),
                 fields |-> fields, order_by |-> order_by, predicate |-> p, groups |-> groups,
                 limit |-> query.limit, offset |-> query.offset,
                 relationships |-> s4.relationships, scope |-> Null],
                Leave(s4, st))))))

\* plan_for_query_request.  Variables that nothing uses have no type and are left out.
PlanRequest(request) ==
    LET used(set, types) == [n \in DOMAIN set \cap DOMAIN types |-> set[n]]
    IN  Then(PlanQuery(CollectionTypes[request.collection], request.query, NewState), LAMBDA q, s1 :
        Then(PlanArguments(CollectionArguments[request.collection], request.arguments, s1), LAMBDA args, s2 :
        Planned([collection |-> request.collection, arguments |-> args,
                 query |-> [q EXCEPT !.scope = "scope_root"],
                 variables |-> IF request.variables = Null THEN Null
                               ELSE [i \in DOMAIN request.variables |-> used(request.variables[i], s2.variable_types)],
                 variable_types |-> s2.variable_types,
                 unrelated_collections |-> s2.unrelated_joins], s2)))
=============================================================================
