---------------------------- MODULE PipelineTypes ----------------------------
(***************************************************************************)
(* The constraints that the stages of an aggregation pipeline put on the   *)
(* types of documents and parameters (native_query::pipeline,              *)
(* aggregation_expression and pipeline_type_context).                      *)
(*                                                                         *)
(* A context is the variable of the documents that the next stage reads,   *)
(* the variable of each parameter, the object types made so far, the       *)
(* constraints of each variable, and the first error.                      *)
(*                                                                         *)
(* Expressions: [lit |-> scalar type], [ref |-> path] for "$a.b", [param   *)
(* |-> name, as |-> annotation or Null] for "{{ name | annotation }}",     *)
(* [text |-> names] for any other string, [broken |-> names] for one that  *)
(* begins with a placeholder or a path and goes on, [array |->             *)
(* expressions], [doc |-> pairs of a name and an expression] and [op |->   *)
(* operator, of |-> operand].  The names are those of the placeholders in  *)
(* a string, which nobody looks for.  Query documents are sequences of     *)
(* [op |-> operator, of |-> expression] and [path |-> path, of |-> ...],   *)
(* an expression there may be such a [query |-> entries].                  *)
(***************************************************************************)
EXTENDS TypeSimplification

Has(e, key) == key \in DOMAIN e

NewContext == [doc |-> Null, params |-> <<>>, types |-> <<>>, vars |-> <<>>, error |-> Null]
Failed(cx, err) == [cx EXCEPT !.error = IF @ = Null THEN err ELSE @]

\* A context and the constraint inferred in it
Inferred(cx, c) == [cx |-> cx, c |-> c]
Refused(cx, err) == Inferred(Failed(cx, err), AnyC)

\* new_type_variable: variables are numbered
NextVariable(cx, variance) == Var(Cardinality(DOMAIN cx.vars), variance)
NewVariable(cx, variance, S) == [cx EXCEPT !.vars = (NextVariable(cx, variance) :> S) @@ @]
Constrain(cx, v, S) == [cx EXCEPT !.vars[v] = @ \cup S]

\* The documents after a stage have a variable of their own
SetStageDocType(cx, c) == [NewVariable(cx, "covariant", {c}) EXCEPT !.doc = NextVariable(cx, "covariant")]

\* A parameter has one variable, wherever it occurs
RegisterParameter(cx, p, S) ==
    LET v == NextVariable(cx, "contravariant")
    IN  IF p \in DOMAIN cx.params THEN Inferred(Constrain(cx, cx.params[p], S), VariableC(cx.params[p]))
        ELSE Inferred([NewVariable(cx, "contravariant", S) EXCEPT !.params = (p :> v) @@ @], VariableC(v))

Unique(cx, name)    == UniqueTypeName(DOMAIN ObjectTypes \cup DOMAIN cx.types, name)
Define(cx, name, fields) == [cx EXCEPT !.types = (name :> fields) @@ @]

RECURSIVE References(_, _, _)
References(cx, c, v) ==
    CASE c.kind = "variable" -> c.var = v \/ \E d \in cx.vars[c.var] : References(cx, d, v)
      [] c.kind \in {"object", "predicate"} ->
             c.name \in DOMAIN cx.types /\ \E f \in DOMAIN cx.types[c.name] : References(cx, cx.types[c.name][f], v)
      [] c.kind \in {"arrayOf", "elementOf"} -> References(cx, c.of, v)
      [] c.kind \in {"union", "oneOf"} -> \E d \in c.among : References(cx, d, v)
      [] c.kind = "fieldOf" -> References(cx, c.target, v)
      [] c.kind = "withFieldOverrides" ->
             References(cx, c.target, v) \/ \E f \in DOMAIN c.fields : c.fields[f] # Null /\ References(cx, c.fields[f], v)
      [] OTHER -> FALSE

AnnotationOf(e) == IF e.as = Null THEN {} ELSE {ConstraintOf(e.as)}

\* type_for_trig_operator, of numbers that are no decimals
TrigResult(c) == MapNullable(c, LAMBDA t : ScalarC("double"))

-----------------------------------------------------------------------------
(* Aggregation expressions.  hint: what the place of an expression asks    *)
(* of its type, or Null.                                                   *)

Trigonometric == {"$sin", "$cos"}
Arithmetic    == {"$add", "$multiply"}
Equality      == {"$eq", "$ne"}
Ordering      == {"$gt", "$gte", "$lt", "$lte"}

\* What a string is depends on how it begins; plain_string finds no parameters in it
IsString(e) == \E form \in {"param", "ref", "text", "broken"} : Has(e, form)

InferString(cx, hint, e) ==
    CASE Has(e, "param") -> RegisterParameter(cx, e.param, ({hint} \ {Null}) \cup AnnotationOf(e))
      [] Has(e, "ref")   -> IF cx.doc = Null THEN Refused(cx, "IncompletePipeline")
                            ELSE Inferred(cx, FieldC(VariableC(cx.doc), e.ref))
      [] Has(e, "text")  -> Inferred(cx, ScalarC("string"))
      [] Has(e, "broken") -> Refused(cx, "UnableToParseReferenceShorthand")

RECURSIVE Infer(_, _, _, _), InferOperator(_, _, _, _), InferAll(_, _, _, _), InferFields(_, _, _)

\* Each of a sequence of expressions, with one hint
InferAll(cx, name, hint, es) ==
    FoldLeft(LAMBDA acc, e : LET r == Infer(acc.cx, name, hint, e) IN [cx |-> r.cx, cs |-> Append(acc.cs, r.c)],
             [cx |-> cx, cs |-> <<>>], es)

\* Each field of a document, whose object type is called after the field
InferFields(cx, name, fields) ==
    FoldLeft(LAMBDA acc, f : LET r == Infer(acc.cx, Append(name, f[1]), Null, f[2])
                             IN  [cx |-> r.cx, fields |-> (f[1] :> r.c) @@ acc.fields],
             [cx |-> cx, fields |-> <<>>], fields)

Infer(cx, name, hint, e) ==
    LET elements == InferAll(cx, name, IF hint = Null THEN Null ELSE IF hint.kind = "arrayOf" THEN hint.of ELSE ElementC(hint),
                             e.array)
        fields   == InferFields(cx, name, e.doc)
    IN
    CASE Has(e, "lit")   -> Inferred(cx, ScalarC(e.lit))
      [] IsString(e)     -> InferString(cx, hint, e)
      [] Has(e, "array") -> Inferred(elements.cx, UnionC(ToSet(elements.cs)))
      [] Has(e, "doc")   -> Inferred(Define(fields.cx, Unique(cx, name), fields.fields), ObjectC(Unique(cx, name)))
      [] Has(e, "op")    -> InferOperator(cx, name, hint, e)

\* Two operands of one type, which a new variable stands for
SameType(cx, name, S, e) ==
    LET w     == NextVariable(cx, "invariant")
        each  == InferAll(NewVariable(cx, "invariant", S), name, VariableC(w), e.of.array)
    IN  IF ~Has(e.of, "array") \/ Len(e.of.array) # 2 THEN Refused(cx, "ExpectedTwoArguments")
        ELSE Inferred(FoldLeft(LAMBDA d, c : IF References(d, c, w) THEN d ELSE Constrain(d, w, {c}), each.cx, each.cs),
                      VariableC(w))

InferOperator(cx, name, hint, e) ==
    LET number  == Infer(cx, name, IF hint = Null THEN NumericC ELSE hint, e.of)
        trig    == Infer(cx, name, NumericC, e.of)
        array   == Infer(cx, name \o <<"arrayElemAt", "array">>, IF hint = Null THEN Null ELSE ArrayC(hint), e.of.array[1])
        index   == Infer(array.cx, name \o <<"arrayElemAt", "idx">>, ScalarC("int"), e.of.array[2])
        bool(d) == Inferred(d, ScalarC("bool"))
    IN
    CASE e.op = "$abs"             -> number
      [] e.op \in Trigonometric    -> Inferred(trig.cx, TrigResult(trig.c))
      [] e.op \in Arithmetic       -> SameType(cx, name, {NumericC}, e)
      [] e.op \in {"$and", "$or"}  -> IF Has(e.of, "array") THEN bool(InferAll(cx, name, Null, e.of.array).cx)
                                      ELSE Refused(cx, "ExpectedArrayArgument")
      [] e.op = "$not"             -> bool(Infer(cx, name, ScalarC("bool"), e.of).cx)
      [] e.op \in Equality         -> bool(SameType(cx, name, {}, e).cx)
      [] e.op \in Ordering         -> bool(SameType(cx, name, {ComparableC}, e).cx)
      [] e.op \in {"$allElementsTrue", "$anyElementTrue"} -> bool(Infer(cx, name, ArrayC(ScalarC("bool")), e.of).cx)
      [] e.op = "$arrayElemAt"     ->
             IF ~Has(e.of, "array") \/ Len(e.of.array) # 2 THEN Refused(cx, "ExpectedTwoArguments")
             ELSE Inferred(index.cx, NullableC(IF hint = Null THEN ElementC(array.c) ELSE hint))
      [] e.op = "$split"           -> Inferred(InferAll(cx, name, ScalarC("string"), e.of.array).cx, ArrayC(ScalarC("string")))
      [] OTHER                     -> Refused(cx, "UnknownAggregationOperator")

-----------------------------------------------------------------------------
(* Query documents: what matters is the parameters in them                 *)

InArray(c) == MapNullable(c, LAMBDA t : IF t.kind = "arrayOf" THEN t.of ELSE ElementC(t))

MatchString(cx, c, e) ==
    CASE Has(e, "param") -> RegisterParameter(cx, e.param, {c} \cup AnnotationOf(e)).cx
      [] Has(e, "broken") -> Failed(cx, "UnableToParseReferenceShorthand")
      [] Has(e, "ref") \/ Has(e, "text") -> cx

RECURSIVE MatchEntries(_, _, _, _), MatchValue(_, _, _, _), MatchEntry(_, _, _, _)

MatchEntries(cx, name, input, entries) == FoldLeft(LAMBDA d, m : MatchEntry(d, name, input, m), cx, entries)

\* An operator on what has the type input, or a field of it
MatchEntry(cx, name, input, m) ==
    LET value(c)  == MatchValue(cx, name, c, m.of)
        query(c)  == IF Has(m.of, "query") THEN MatchEntries(cx, name, c, m.of.query) ELSE Failed(cx, "ExpectedDocument")
    IN
    CASE Has(m, "path") -> value(FieldC(input, m.path))
      [] ~Has(m, "path") /\ m.op \in {"$and", "$or", "$nor"} ->
             IF Has(m.of, "array") THEN FoldLeft(LAMBDA d, q : MatchEntries(d, name, input, q.query), cx, m.of.array)
             ELSE Failed(cx, "ExpectedArray")
      [] ~Has(m, "path") /\ m.op = "$not"       -> query(input)
      [] ~Has(m, "path") /\ m.op = "$elemMatch" -> query(InArray(input))
      [] ~Has(m, "path") /\ m.op \in Equality \cup Ordering -> value(input)
      [] ~Has(m, "path") /\ m.op \in {"$in", "$nin"} -> value(ArrayC(input))
      [] ~Has(m, "path") /\ m.op = "$exists"    -> value(ScalarC("bool"))
      [] ~Has(m, "path") /\ m.op = "$type"      -> value(ArrayC(ScalarC("string")))
      [] ~Has(m, "path") /\ m.op = "$size"      -> value(ScalarC("int"))
      [] ~Has(m, "path") /\ m.op = "$regex"     -> value(ScalarC("regex"))
      [] ~Has(m, "path") /\ m.op = "$all"       -> value(ArrayC(InArray(input)))
      [] ~Has(m, "path") /\ m.op = "$mod"       ->
             IF Has(m.of, "array") /\ Len(m.of.array) = 2
             THEN FoldLeft(LAMBDA d, x : MatchValue(d, name, ScalarC("int"), x), cx, m.of.array)
             ELSE Failed(cx, "ExpectedTwoArguments")
      [] OTHER -> Failed(cx, "UnknownMatchDocumentOperator")

\* Mutant: the elements of an array are not looked at
MatchValueFlat(cx, name, c, e) ==
    CASE IsString(e)     -> MatchString(cx, c, e)
      [] Has(e, "query") -> MatchEntries(cx, name, c, e.query)
      [] OTHER -> cx
MatchValue(cx, name, c, e) ==
    CASE IsString(e)     -> MatchString(cx, c, e)
      [] Has(e, "query") -> MatchEntries(cx, name, c, e.query)
      [] Has(e, "array") -> FoldLeft(LAMBDA d, x : MatchValue(d, name, InArray(c), x), cx, e.array)
      [] OTHER -> cx

\* With $expr in it, only its expression is looked at
CheckMatch(cx, name, s) ==
    IF cx.doc = Null THEN Failed(cx, "IncompletePipeline")
    ELSE IF s.expr # Null THEN Infer(cx, name, ScalarC("bool"), s.expr).cx
    ELSE MatchEntries(cx, name, VariableC(cx.doc), s.query)

-----------------------------------------------------------------------------
(* Stages                                                                  *)

\* The type of an accumulator of $group
InferAccumulator(cx, name, a) ==
    LET any(word) == Infer(cx, Append(name, word), Null, a.expr)
        num(word) == Infer(cx, Append(name, word), NumericC, a.expr)
    IN
    CASE a.op = "$count"          -> Inferred(cx, ScalarC("int"))
      [] a.op \in {"$min", "$max"} -> any("min")
      [] a.op \in {"$push", "$addToSet"} -> LET r == any("push") IN Inferred(r.cx, ArrayC(r.c))
      [] a.op = "$avg"            -> LET r == num("avg") IN Inferred(r.cx, NullableC(TrigResult(r.c)))
      [] a.op \in {"$stdDevSamp", "$stdDevPop"} -> LET r == num("stddev") IN Inferred(r.cx, NullableC(TrigResult(r.c)))
      [] a.op = "$sum"            -> num("push")
      [] a.op \in {"$first", "$last"} -> any("first_last")
      [] a.op \in {"$median", "$percentile"} -> Inferred(cx, NullableC(ScalarC("double")))

DefineObject(name, r) == Inferred(Define(r.cx, Unique(r.cx, name), r.fields), ObjectC(Unique(r.cx, name)))
WithField(acc, f, r)   == [cx |-> r.cx, fields |-> (f :> r.c) @@ acc.fields]
InferAccumulators(name, accumulators, key) ==
    FoldLeft(LAMBDA acc, a : WithField(acc, a.name, InferAccumulator(acc.cx, name, a)),
             [cx |-> key.cx, fields |-> ("_id" :> key.c)], accumulators)
InferGroup(cx, name, s) ==
    DefineObject(name, InferAccumulators(name, s.accumulators, Infer(cx, Append(name, "id"), Null, s.key)))

\* The types around a field that is unwound: [cx, c], the constraint for the first name of the path
RECURSIVE NestedTypes(_, _, _, _)
NestedTypes(cx, name, path, c) ==
    IF Tail(path) = <<>> THEN Inferred(cx, c)
    ELSE LET object == Unique(cx, name)
             inner  == NestedTypes(cx, Append(name, path[2]), Tail(path), c)
         IN  Inferred(Define(inner.cx, object, (path[2] :> inner.c)), ObjectC(object))

InferUnwind(cx, name, s) ==
    LET field  == Infer(cx, name, Null, [ref |-> s.path])
        nested == NestedTypes(field.cx, name, s.path, ElementC(field.c))
        index  == IF s.index = Null THEN <<>> ELSE (s.index :> ScalarC("long"))
    IN  IF cx.doc = Null THEN Refused(cx, "IncompletePipeline")
        ELSE Inferred(nested.cx, OverridesC(Append(name, "unwind"), VariableC(cx.doc), (s.path[1] :> nested.c) @@ index))

\* The entries of a projection by the first names of their paths; Null if two of them collide
FirstNames(entries)   == {entries[i].path[1] : i \in DOMAIN entries}
Below(entries, n)     == SelectSeq(entries, LAMBDA p : p.path[1] = n)
IsLeaf(entries)       == Len(entries) = 1 /\ Tail(entries[1].path) = <<>>
Subentries(entries)   == [i \in DOMAIN entries |-> [entries[i] EXCEPT !.path = Tail(@)]]
RECURSIVE Collides(_)
Collides(entries) ==
    \E n \in FirstNames(entries) : /\ ~IsLeaf(Below(entries, n))
                                   /\ \/ \E i \in DOMAIN Below(entries, n) : Tail(Below(entries, n)[i].path) = <<>>
                                      \/ Collides(Subentries(Below(entries, n)))

\* projection_tree_into_field_overrides
RECURSIVE Exclusions(_, _, _)
Exclusions(input, name, entries) ==
    OverridesC(name, input, [n \in FirstNames(entries) |->
        IF IsLeaf(Below(entries, n)) THEN Null
        ELSE Exclusions(FieldC(input, <<n>>), Append(name, n), Subentries(Below(entries, n)))])

\* projection_tree_into_object_type; an entry has the type of its field.  The order of a HashMap does not
\* matter: the names of the objects in it differ.
RECURSIVE ProjectedType(_, _, _)
ProjectedType(cx, name, entries) ==
    LET all == FoldLeft(LAMBDA acc, n :
                  LET below == Below(entries, n)
                      r     == IF IsLeaf(below) THEN Inferred(acc.cx, below[1].c)
                               ELSE ProjectedType(acc.cx, Append(name, n), Subentries(below))
                  IN  [cx |-> r.cx, fields |-> (n :> r.c) @@ acc.fields],
                  [cx |-> cx, fields |-> <<>>], SortedNames(FirstNames(entries)))
    IN  Inferred(Define(all.cx, Unique(all.cx, name), all.fields), ObjectC(Unique(all.cx, name)))

\* The entries of a $project say "zero", "one" or an expression
Excludes(p) == Has(p.of, "zero")
InferProject(cx, name, s) ==
    LET kept  == SelectSeq(s.entries, LAMBDA p : ~Excludes(p))
        typed == FoldLeft(LAMBDA acc, p :
                    LET r == IF Has(p.of, "one") THEN Inferred(acc.cx, FieldC(VariableC(cx.doc), p.path))
                             ELSE Infer(acc.cx, name \o p.path, Null, p.of)
                    IN  [cx |-> r.cx, entries |-> Append(acc.entries, [path |-> p.path, c |-> r.c])],
                    [cx |-> cx, entries |-> <<>>], kept)
        id    == IF \E i \in DOMAIN s.entries : s.entries[i].path = <<"_id">> THEN <<>>
                 ELSE << [path |-> <<"_id">>, c |-> ScalarC("objectId")] >>
    IN  IF cx.doc = Null THEN Refused(cx, "IncompletePipeline")
        ELSE IF kept = <<>>
             THEN IF Collides(s.entries) THEN Refused(cx, "PathCollision")
                  ELSE Inferred(cx, Exclusions(VariableC(cx.doc), name, s.entries))
        ELSE IF Collides(typed.entries \o id) THEN Refused(typed.cx, "PathCollision")
        ELSE ProjectedType(typed.cx, name, typed.entries \o id)

\* The context after a stage of a query that is to be called name
InferStage(cx, name, s) ==
    LET docs    == InferAll(cx, Append(name, "documents"), Null, s.docs)
        newDoc(r) == IF r.cx.error = Null THEN SetStageDocType(r.cx, r.c) ELSE r.cx
    IN
    CASE cx.error # Null -> cx
      [] s.stage = "$documents" ->
             newDoc(Inferred(NewVariable(docs.cx, "covariant", ToSet(docs.cs)), VariableC(NextVariable(docs.cx, "covariant"))))
      [] s.stage = "$match"   -> CheckMatch(cx, Append(name, "match"), s)
      [] s.stage = "$sort"    -> cx
      [] s.stage \in {"$skip", "$limit"} -> Infer(cx, name, ScalarC("int"), s.count).cx
      [] s.stage = "$group"   -> newDoc(InferGroup(cx, Append(name, "group"), s))
      [] s.stage = "$project" -> newDoc(InferProject(cx, Append(name, "project"), s))
      [] s.stage = "$replaceWith" -> newDoc(Infer(cx, Append(name, "replaceWith"), Null, s.expr))
      [] s.stage = "$unwind"  -> newDoc(InferUnwind(cx, Append(name, "unwind"), s))
      [] OTHER -> Failed(cx, "UnknownAggregationStage")

\* infer_pipeline_types, without its solution.  The type of the documents is a variable at the end, so
\* that it never takes the name that the query asks for.
Completed(cx) == IF cx.error = Null /\ cx.doc = Null THEN Failed(cx, "IncompletePipeline") ELSE cx
InferPipeline(name, type, stages) ==
    IF stages = <<>> THEN Failed(NewContext, "EmptyPipeline")
    ELSE Completed(FoldLeft(LAMBDA cx, s : InferStage(cx, name, s),
                            IF type = Null THEN NewContext ELSE SetStageDocType(NewContext, ObjectC(type)), stages))
=============================================================================
