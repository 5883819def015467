-------------------------- MODULE NativeQueryMeaning --------------------------
(***************************************************************************)
(* What MongoDB answers to the pipeline of a native query, as far as the   *)
(* types of values go, and which values are of a type.                     *)
(*                                                                         *)
(* A scalar value is one value of its type: the numbers of an instance are *)
(* all alike.  A query document therefore keeps every document, an index   *)
(* is the first one, and an accumulator that picks a value picks the       *)
(* first.  Arguments are the values of the parameters.                     *)
(***************************************************************************)
EXTENDS PipelineTypes

ScalarV(s) == [is |-> "scalar", scalar |-> s]
ArrayV(s)  == [is |-> "array", array |-> s]
DocV(f)    == [is |-> "doc", doc |-> f]
NullV      == ScalarV("null")
Missing    == [is |-> "missing"]
Refusal    == [is |-> "failure"]

IsNullish(v) == v \in {NullV, Missing}
IsNumber(v)  == v.is = "scalar" /\ v.scalar \in NumericTypes
OrNull(v)    == IF v = Missing THEN NullV ELSE v
Present(f)   == LET there == {n \in DOMAIN f : f[n] # Missing} IN [n \in there |-> f[n]]
AnyOf(s, P(_)) == \E i \in DOMAIN s : P(s[i])
Filter(s, P(_)) == FoldLeft(LAMBDA acc, x : IF P(x) THEN Append(acc, x) ELSE acc, <<>>, s)
Distinct(s)  == FoldLeft(LAMBDA acc, x : IF x \in ToSet(acc) THEN acc ELSE Append(acc, x), <<>>, s)

RECURSIVE ValueAt(_, _)
ValueAt(v, path) ==
    IF path = <<>> THEN v
    ELSE IF v.is = "array" THEN ArrayV(Filter([i \in DOMAIN v.array |-> ValueAt(v.array[i], path)], LAMBDA x : x # Missing))
    ELSE IF v.is = "doc" /\ Head(path) \in DOMAIN v.doc THEN ValueAt(v.doc[Head(path)], Tail(path)) ELSE Missing

\* A number of the widest type among some numbers
Widest(s) == ScalarV(IF AnyOf(s, LAMBDA v : v.scalar = "double") THEN "double"
                     ELSE IF AnyOf(s, LAMBDA v : v.scalar = "long") THEN "long" ELSE "int")

Operate(op, a) ==
    CASE op = "$abs"            -> IF IsNullish(a[1]) THEN NullV ELSE IF IsNumber(a[1]) THEN a[1] ELSE Refusal
      [] op \in Trigonometric   -> IF IsNullish(a[1]) THEN NullV ELSE IF IsNumber(a[1]) THEN ScalarV("double") ELSE Refusal
      [] op \in Arithmetic      -> IF AnyOf(a, IsNullish) THEN NullV ELSE IF \A i \in DOMAIN a : IsNumber(a[i]) THEN Widest(a) ELSE Refusal
      [] op \in Equality \cup Ordering \cup {"$and", "$or", "$not"} -> ScalarV("bool")
      [] op \in {"$allElementsTrue", "$anyElementTrue"} -> IF a[1].is = "array" THEN ScalarV("bool") ELSE Refusal
      [] op = "$arrayElemAt"    -> IF IsNullish(a[1]) \/ IsNullish(a[2]) THEN NullV
                                   ELSE IF a[1].is # "array" \/ ~IsNumber(a[2]) THEN Refusal
                                   ELSE IF a[1].array = <<>> THEN Missing ELSE a[1].array[1]
      [] op = "$split"          -> IF AnyOf(a, IsNullish) THEN NullV
                                   ELSE IF a = <<ScalarV("string"), ScalarV("string")>> THEN ArrayV(<<ScalarV("string")>>) ELSE Refusal

RECURSIVE Value(_, _, _)
Value(e, d, arguments) ==
    CASE Has(e, "lit")   -> ScalarV(e.lit)
      [] Has(e, "param") -> arguments[e.param]
      [] Has(e, "ref")   -> ValueAt(d, e.ref)
      [] Has(e, "text")  -> ScalarV("string")
      [] Has(e, "array") -> LET s == [i \in DOMAIN e.array |-> OrNull(Value(e.array[i], d, arguments))]
                            IN  IF Refusal \in ToSet(s) THEN Refusal ELSE ArrayV(s)
      [] Has(e, "doc")   -> LET f == FoldLeft(LAMBDA acc, p : (p[1] :> Value(p[2], d, arguments)) @@ acc, <<>>, e.doc)
                            IN  IF \E n \in DOMAIN f : f[n] = Refusal THEN Refusal ELSE DocV(Present(f))
      [] Has(e, "op")    -> LET several == Has(e.of, "array") /\ e.op \notin {"$abs", "$not", "$allElementsTrue", "$anyElementTrue"} \cup Trigonometric
                                s == IF several THEN [i \in DOMAIN e.of.array |-> Value(e.of.array[i], d, arguments)]
                                     ELSE <<Value(e.of, d, arguments)>>
                            IN  IF Refusal \in ToSet(s) THEN Refusal ELSE Operate(e.op, s)

\* The arguments in a query document are such as its operators accept
RECURSIVE Accepts(_, _)
Accepts(entries, arguments) ==
    \A i \in DOMAIN entries :
        LET m     == entries[i]
            given == Has(m.of, "param")
        IN  /\ Has(m.of, "query") => Accepts(m.of.query, arguments)
            /\ Has(m.of, "array") => \A j \in DOMAIN m.of.array :
                   Has(m.of.array[j], "query") => Accepts(m.of.array[j].query, arguments)
            /\ Has(m, "op") /\ m.op \in {"$in", "$nin", "$all"} /\ given => arguments[m.of.param].is = "array"
            /\ Has(m, "op") /\ m.op = "$size" /\ given => IsNumber(arguments[m.of.param])

RECURSIVE Including(_, _, _, _), Excluding(_, _)
Including(v, d, entries, arguments) ==
    LET value(n) == LET below == Below(entries, n)
                        inner == IF v.is = "doc" /\ n \in DOMAIN v.doc THEN v.doc[n] ELSE Missing
                    IN  IF IsLeaf(below) THEN IF Has(below[1].of, "one") THEN inner ELSE Value(below[1].of, d, arguments)
                        ELSE Including(inner, d, Subentries(below), arguments)
        expressions == \E i \in DOMAIN entries : ~Has(entries[i].of, "one")
    IN  IF v.is = "array" THEN ArrayV([i \in DOMAIN v.array |-> Including(v.array[i], d, entries, arguments)])
        ELSE IF v.is # "doc" /\ ~expressions THEN Missing
        ELSE DocV(Present([n \in FirstNames(entries) |-> value(n)]))
Excluding(v, entries) ==
    IF v.is = "array" THEN ArrayV([i \in DOMAIN v.array |-> Excluding(v.array[i], entries)])
    ELSE IF v.is # "doc" THEN v
    ELSE DocV([n \in DOMAIN v.doc \ {m \in FirstNames(entries) : IsLeaf(Below(entries, m))} |->
                  IF n \in FirstNames(entries) THEN Excluding(v.doc[n], Subentries(Below(entries, n))) ELSE v.doc[n]])

Projected(d, entries, arguments) ==
    LET kept == SelectSeq(entries, LAMBDA p : ~Excludes(p))
        id   == [path |-> <<"_id">>, of |-> [one |-> TRUE]]
    IN  IF kept = <<>> THEN Excluding(d, entries)
        ELSE Including(d, d, IF \E i \in DOMAIN entries : entries[i].path = <<"_id">> THEN kept ELSE Append(kept, id), arguments)

AccumulatedValue(op, values) ==
    LET there   == Filter(values, LAMBDA v : ~IsNullish(v))
        numbers == Filter(values, IsNumber)
    IN  CASE op = "$count"             -> ScalarV("int")
          [] op \in {"$min", "$max"}   -> IF there = <<>> THEN NullV ELSE there[1]
          [] op \in {"$push", "$addToSet"} -> ArrayV(Filter(values, LAMBDA v : v # Missing))
          [] op \in {"$avg", "$median", "$stdDevPop"} -> IF numbers = <<>> THEN NullV ELSE ScalarV("double")
          [] op = "$stdDevSamp"        -> IF Len(numbers) < 2 THEN NullV ELSE ScalarV("double")
          [] op = "$percentile"        -> ArrayV(IF numbers = <<>> THEN <<NullV>> ELSE <<ScalarV("double")>>)
          [] op = "$sum"               -> IF numbers = <<>> THEN ScalarV("int") ELSE Widest(numbers)
          [] op \in {"$first", "$last"} -> OrNull(values[1])

Grouped(s, docs, arguments) ==
    LET key(d)  == OrNull(Value(s.key, d, arguments))
        members(k) == Filter(docs, LAMBDA d : key(d) = k)
        values(k, e) == LET m == members(k) IN [i \in DOMAIN m |-> Value(e, m[i], arguments)]
        keys    == Distinct([i \in DOMAIN docs |-> key(docs[i])])
        group(k) == DocV(FoldLeft(LAMBDA f, a : (a.name :> AccumulatedValue(a.op, values(k, a.expr))) @@ f,
                                  ("_id" :> k), s.accumulators))
    IN  IF Refusal \in ToSet(keys) \cup UNION {ToSet(values(k, s.accumulators[i].expr)) : k \in ToSet(keys), i \in DOMAIN s.accumulators}
        THEN <<Refusal>> ELSE [i \in DOMAIN keys |-> group(keys[i])]

\* What lies at a path of names is replaced
RECURSIVE Replaced(_, _, _)
Replaced(d, path, v) ==
    DocV([n \in DOMAIN d.doc |-> IF n # Head(path) THEN d.doc[n] ELSE IF Tail(path) = <<>> THEN v
                                 ELSE Replaced(d.doc[n], Tail(path), v)])

Unwound(s, d) ==
    LET v == ValueAt(d, s.path)
        with(x, i) == LET r == Replaced(d, s.path, x) IN IF s.index = Null THEN r ELSE DocV((s.index :> i) @@ r.doc)
    IN  IF IsNullish(v) THEN <<>>
        ELSE IF v.is # "array" THEN << with(v, NullV) >>
        ELSE [i \in DOMAIN v.array |-> with(v.array[i], ScalarV("long"))]

\* The documents after a stage; one refusal is a refusal of the whole pipeline
AfterStage(s, docs, arguments) ==
    LET each(f(_)) == [i \in DOMAIN docs |-> f(docs[i])]
    IN  CASE s.stage = "$documents" -> [i \in DOMAIN s.docs |-> Value(s.docs[i], DocV(<<>>), arguments)]
          [] s.stage = "$match" /\ s.expr # Null ->
                 IF AnyOf(docs, LAMBDA d : Value(s.expr, d, arguments) = Refusal) THEN <<Refusal>> ELSE docs
          [] s.stage = "$match" /\ s.expr = Null -> IF Accepts(s.query, arguments) THEN docs ELSE <<Refusal>>
          [] s.stage = "$sort"    -> docs
          [] s.stage \in {"$skip", "$limit"} -> IF IsNumber(Value(s.count, DocV(<<>>), arguments)) THEN docs ELSE <<Refusal>>
          [] s.stage = "$group"   -> Grouped(s, docs, arguments)
          [] s.stage = "$project" -> each(LAMBDA d : Projected(d, s.entries, arguments))
          [] s.stage = "$replaceWith" -> each(LAMBDA d : LET v == Value(s.expr, d, arguments) IN IF v.is = "doc" THEN v ELSE Refusal)
          [] s.stage = "$unwind"  -> FlattenSeq(each(LAMBDA d : Unwound(s, d)))

Output(stages, docs, arguments) ==
    FoldLeft(LAMBDA ds, s : IF Refusal \in ToSet(ds) THEN <<Refusal>> ELSE AfterStage(s, ds, arguments), docs, stages)

-----------------------------------------------------------------------------
(* Which values are of a type; types are the definitions of object types   *)

RECURSIVE IsOf(_, _, _)
IsOf(v, t, types) ==
    CASE v = Refusal -> FALSE
      [] t = ExtendedJSON -> TRUE
      [] t # ExtendedJSON /\ IsNullable(t) -> IsNullish(v) \/ IsOf(v, Underlying(t), types)
      [] IsArray(t)  -> v.is = "array" /\ \A i \in DOMAIN v.array : IsOf(v.array[i], Underlying(t), types)
      [] IsScalar(t) -> v.is = "scalar" /\ IsSupertype(t.base[2], v.scalar)
      [] IsNamed(t)  -> /\ RefersToObject(t) /\ v.is = "doc" /\ DOMAIN v.doc \subseteq DOMAIN types[t.base[2]]
                        /\ \A f \in DOMAIN types[t.base[2]] :
                               IsOf(IF f \in DOMAIN v.doc THEN v.doc[f] ELSE Missing, types[t.base[2]][f], types)

\* The parameters that are a string of their own in an expression or a query document, in a stage
RECURSIVE ParametersIn(_)
ParametersIn(e) ==
    CASE Has(e, "param") -> {e.param}
      [] Has(e, "array") -> UNION {ParametersIn(e.array[i]) : i \in DOMAIN e.array}
      [] Has(e, "doc")   -> UNION {ParametersIn(e.doc[i][2]) : i \in DOMAIN e.doc}
      [] Has(e, "query") -> UNION {ParametersIn(e.query[i].of) : i \in DOMAIN e.query}
      [] Has(e, "op")    -> ParametersIn(e.of)
      [] OTHER -> {}

ParametersOf(s) ==
    CASE s.stage = "$documents" -> UNION {ParametersIn(s.docs[i]) : i \in DOMAIN s.docs}
      [] s.stage = "$match" -> ParametersIn([query |-> s.query]) \cup (IF s.expr = Null THEN {} ELSE ParametersIn(s.expr))
      [] s.stage \in {"$skip", "$limit"} -> ParametersIn(s.count)
      [] s.stage = "$group"   -> ParametersIn(s.key) \cup UNION {ParametersIn(s.accumulators[i].expr) : i \in DOMAIN s.accumulators}
      [] s.stage = "$project" -> UNION {ParametersIn(s.entries[i].of) : i \in DOMAIN s.entries}
      [] s.stage = "$replaceWith" -> ParametersIn(s.expr)
      [] OTHER -> {}
=============================================================================
