--------------------------- MODULE MongoPipeline ---------------------------
(***************************************************************************)
(* The stages of MongoDB's aggregation pipelines that relational queries   *)
(* are translated to, and the operators of the expressions in them: what   *)
(* these make of the values of their arguments, of null and of what is     *)
(* missing, and when they fail, which fails the whole aggregation.         *)
(* Positions are counted from 0.  A document is a function from the names  *)
(* of its fields to values; a path is a sequence of names.  What a path    *)
(* does not lead to is Missing, which is not Null.                         *)
(***************************************************************************)
EXTENDS RelationalAlgebra

CONSTANTS
    Missing,
    Refused        \* what an operator makes of arguments that it fails on

Absent(v)   == v = Missing \/ v = Null
OrNull(v)   == IF v = Missing THEN Null ELSE v
Truthy(v)   == ~Absent(v) /\ v

\* The order of BSON values: what is missing, null, numbers
LessBSON(a, b) == \/ a = Missing /\ b # Missing
                  \/ a = Null /\ ~Absent(b)
                  \/ ~Absent(a) /\ ~Absent(b) /\ a < b

AnyAbsent(v) == \E i \in DOMAIN v : Absent(v[i])
Presents(v)  == SelectSeq(v, LAMBDA x : ~Absent(x))

Comparison(op, a, b) ==
    CASE op = "$eq"  -> a = b
      [] op = "$ne"  -> a # b
      [] op = "$lt"  -> LessBSON(a, b)
      [] op = "$lte" -> LessBSON(a, b) \/ a = b
      [] op = "$gt"  -> LessBSON(b, a)
      [] op = "$gte" -> LessBSON(b, a) \/ a = b

\* Null if an argument is absent
Arithmetic(op, v) ==
    IF AnyAbsent(v) THEN Null
    ELSE CASE op = "$add"      -> v[1] + v[2]
           [] op = "$subtract" -> v[1] - v[2]
           [] op = "$multiply" -> v[1] * v[2]
           [] op = "$mod"      -> IF v[2] = 0 THEN Refused ELSE Remainder(v[1], v[2])

\* How a regular expression matches from the start of a string; a dot is no end of line
RECURSIVE RegexMatches(_, _)
RegexMatches(regex, s) ==
    IF regex = <<"$">> THEN s \in {<<>>, <<"\n">>}
    ELSE LET r == Head(regex)
             rest(n) == SubSeq(regex, n, Len(regex))
         IN  CASE r = "^"  -> RegexMatches(rest(2), s)
               [] r = "\\" -> s # <<>> /\ s[1] = regex[2] /\ RegexMatches(rest(3), Tail(s))
               [] r = "." /\ regex[2] = "*" -> \/ RegexMatches(rest(3), s)
                                               \/ s # <<>> /\ s[1] # "\n" /\ RegexMatches(regex, Tail(s))
               [] r = "."  -> s # <<>> /\ s[1] # "\n" /\ RegexMatches(rest(2), Tail(s))
               [] OTHER    -> s # <<>> /\ s[1] = r /\ RegexMatches(rest(2), Tail(s))

\* The parts of a string that a character delimits
Split(s, delimiter) ==
    FoldLeft(LAMBDA parts, c : IF <<c>> = delimiter THEN Append(parts, <<>>)
                               ELSE [parts EXCEPT ![Len(parts)] = Append(@, c)], << <<>> >>, s)

\* Strings and arrays that are absent make null, or an empty string, or fail
OnStrings(op, v) ==
    CASE op = "$strLenCP"  -> IF Absent(v[1]) THEN Refused ELSE Len(v[1])
      [] op = "$indexOfCP" -> IF Absent(v[1]) THEN Null ELSE IF Absent(v[2]) THEN Refused ELSE Position(v[1], v[2]) - 1
      [] op = "$substrCP"  -> IF Absent(v[2]) \/ Absent(v[3]) THEN Refused ELSE IF v[2] < 0 \/ v[3] < 0 THEN Refused
                              ELSE IF Absent(v[1]) THEN <<>> ELSE Piece(v[1], v[2] + 1, v[3])
      [] op = "$concat"    -> IF AnyAbsent(v) THEN Null ELSE FlattenSeq(v)
      [] op = "$split"     -> IF Absent(v[1]) \/ Absent(v[2]) THEN Null ELSE IF v[2] = <<>> THEN Refused
                              ELSE Split(v[1], v[2])
      [] op = "$toLower"   -> IF Absent(v[1]) THEN <<>> ELSE Lower(v[1])
      [] op = "$toString"  -> OrNull(v[1])
      [] op = "$replaceAll" -> IF AnyAbsent(v) THEN Null
                               ELSE FlattenSeq([i \in DOMAIN v[1] |-> IF <<v[1][i]>> = v[2] THEN v[3] ELSE <<v[1][i]>>])
      [] op = "$regexMatch"  -> ~Absent(v[1]) /\ ~Absent(v[2]) /\ RegexMatches(v[2], v[1])
      [] op = "$regexMatchI" -> ~Absent(v[1]) /\ ~Absent(v[2]) /\ RegexMatches(Lower(v[2]), Lower(v[1]))

OnArrays(op, v) ==
    CASE op = "$size"         -> IF Absent(v[1]) THEN Refused ELSE Len(v[1])
      [] op = "$in"           -> IF Absent(v[2]) THEN Refused ELSE v[1] \in ToSet(v[2])
      [] op = "$arrayElemAt"  -> IF Absent(v[1]) \/ Absent(v[2]) THEN Null
                                 ELSE IF v[2] < Len(v[1]) THEN v[1][v[2] + 1] ELSE Missing
      [] op = "$range"        -> IF Absent(v[2]) THEN Refused ELSE [i \in 1..(v[2] - v[1]) |-> v[1] + i - 1]
      [] op = "$reverseArray" -> IF Absent(v[1]) THEN Null ELSE Reverse(v[1])
      [] op = "$slice"        -> IF AnyAbsent(v) THEN Null
                                 ELSE IF Len(v) = 2 THEN Piece(v[1], 1, v[2]) ELSE Piece(v[1], v[2] + 1, v[3])
      [] op = "$array"        -> [i \in DOMAIN v |-> OrNull(v[i])]
      [] op = "$allElementsTrue" -> \A x \in ToSet(v[1]) : Truthy(x)
      [] op = "$anyElementTrue"  -> \E x \in ToSet(v[1]) : Truthy(x)

Operated(op, v) ==
    IF \E i \in DOMAIN v : v[i] = Refused THEN Refused
    ELSE CASE op \in {"$eq", "$ne", "$lt", "$lte", "$gt", "$gte"} -> Comparison(op, v[1], v[2])
           [] op \in {"$add", "$subtract", "$multiply", "$mod"}    -> Arithmetic(op, v)
           [] op = "$and"    -> \A x \in ToSet(v) : Truthy(x)
           [] op = "$or"     -> \E x \in ToSet(v) : Truthy(x)
           [] op = "$not"    -> ~Truthy(v[1])
           [] op = "$ifNull" -> IF Absent(v[1]) THEN v[2] ELSE v[1]
           [] op = "$max"    -> IF Presents(v) = <<>> THEN Null ELSE Max(ToSet(Presents(v)))
           [] op = "$min"    -> IF Presents(v) = <<>> THEN Null ELSE Min(ToSet(Presents(v)))
           [] op \in {"$size", "$in", "$arrayElemAt", "$range", "$reverseArray", "$slice", "$array",
                      "$allElementsTrue", "$anyElementTrue"} -> OnArrays(op, v)
           [] OTHER -> OnStrings(op, v)

------------------------------------------------------------------------------
EmptyDoc == [name \in {} |-> Null]

RECURSIVE Get(_, _)
Get(v, path) == IF path = <<>> \/ Absent(v) THEN v
                ELSE IF Head(path) \in DOMAIN v THEN Get(v[Head(path)], Tail(path)) ELSE Missing

\* A document with some fields set, where there is something to set
Put(doc, fields) ==
    [name \in {n \in DOMAIN doc \cup DOMAIN fields : n \notin DOMAIN fields \/ fields[n] # Missing} |->
        IF name \in DOMAIN fields THEN fields[name] ELSE doc[name]]

With(vars, more) == [n \in DOMAIN vars \cup DOMAIN more |-> IF n \in DOMAIN more THEN more[n] ELSE vars[n]]

\* What $cond and $switch do not choose is not evaluated; the other operators are strict.  Strings are
\* not taken for the paths of fields, so they have no "$" in front.
RECURSIVE Eval(_, _, _)
Eval(e, doc, vars) ==
    CASE e.op = "Path"      -> Get(doc, e.path)
      [] e.op = "Var"       -> vars[e.name]
      [] e.op = "Literal"   -> e.value
      [] e.op = "$"         -> Refused    \* a path without a name
      [] e.op = "$getField" -> LET input == Eval(e.input, doc, vars)
                               IN  IF input = Refused THEN Refused ELSE Get(input, <<e.field>>)
      [] e.op = "$cond"     -> LET if == Eval(e.if, doc, vars)
                               IN  IF if = Refused THEN Refused
                                   ELSE IF Truthy(if) THEN Eval(e.then, doc, vars) ELSE Eval(e.else, doc, vars)
      [] e.op = "$switch"   ->
           LET case(i) == Eval(e.branches[i].case, doc, vars)
               met == {i \in DOMAIN e.branches : case(i) = Refused \/ Truthy(case(i))}
           IN  IF met = {} THEN Eval(e.default, doc, vars)
               ELSE IF case(Min(met)) = Refused THEN Refused ELSE Eval(e.branches[Min(met)].then, doc, vars)
      [] e.op = "$let"      -> LET values == [n \in DOMAIN e.vars |-> Eval(e.vars[n], doc, vars)]
                               IN  IF \E n \in DOMAIN values : values[n] = Refused THEN Refused
                                   ELSE Eval(e.in, doc, With(vars, values))
      [] e.op = "$map"      -> LET input == Eval(e.input, doc, vars)
                               IN  IF Absent(input) \/ input = Refused THEN OrNull(input)
                                   ELSE LET within(this) == With(vars, [n \in {e.as} |-> this])
                                        IN  [i \in DOMAIN input |-> Eval(e.in, doc, within(input[i]))]
      [] e.op = "$reduce"   -> LET input == Eval(e.input, doc, vars)
                               IN  IF Absent(input) \/ input = Refused THEN OrNull(input)
                                   ELSE LET within(so, this) == With(vars, [value |-> so, this |-> this])
                                        IN  FoldLeft(LAMBDA so, this : Eval(e.in, doc, within(so, this)),
                                                     Eval(e.initial, doc, vars), input)
      [] e.op = "$sortArray" -> LET input == Eval(e.input, doc, vars)
                                IN  Sorted(input, LAMBDA a, b : IF e.desc THEN LessBSON(b, a) ELSE LessBSON(a, b))
      [] OTHER -> Operated(e.op, [i \in DOMAIN e.args |-> Eval(e.args[i], doc, vars)])

\* A query document: null matches what is missing, a number is only less than numbers
RECURSIVE MatchesQuery(_, _)
MatchesQuery(q, doc) ==
    CASE q.op = "And" -> MatchesQuery(q.left, doc) /\ MatchesQuery(q.right, doc)
      [] q.op = "Or"  -> MatchesQuery(q.left, doc) \/ MatchesQuery(q.right, doc)
      [] q.op = "Eq"    -> OrNull(Get(doc, q.path)) = q.value
      [] q.op = "NotEq" -> OrNull(Get(doc, q.path)) # q.value
      [] OTHER -> LET v == Get(doc, q.path)
                  IN  /\ ~Absent(v) /\ ~Absent(q.value)
                      /\ CASE q.op = "Lt"   -> v < q.value
                           [] q.op = "LtEq" -> v <= q.value
                           [] q.op = "Gt"   -> v > q.value
                           [] q.op = "GtEq" -> v >= q.value

\* The order of $sort: null and what is missing are first, or last if it descends
BeforeInSort(keys, a, b) ==
    LET less(i, d1, d2) == LessBSON(OrNull(Get(d1, keys[i].path)), OrNull(Get(d2, keys[i].path)))
    IN  \E i \in DOMAIN keys :
            /\ IF keys[i].desc THEN less(i, b, a) ELSE less(i, a, b)
            /\ \A j \in 1..(i - 1) : ~less(j, a, b) /\ ~less(j, b, a)

\* What is missing is not added to a list
Accumulate(a, docs) ==
    LET all    == [i \in DOMAIN docs |-> Eval(a.expr, docs[i], EmptyDoc)]
        values == Presents(all)
        listed == SelectSeq(all, LAMBDA v : v # Missing)
    IN  IF \E i \in DOMAIN all : all[i] = Refused THEN Refused
        ELSE CASE a.op \in {"$max", "$min"} -> Operated(a.op, values)
               [] a.op = "$sum"      -> FoldLeft(LAMBDA x, y : x + y, 0, values)
               [] a.op = "$first"    -> OrNull(Head(all))
               [] a.op = "$last"     -> OrNull(Last(all))
               [] a.op = "$push"     -> listed
               [] a.op = "$addToSet" -> Distinct(listed)

\* $rank and $denseRank order by one key
WindowOutput(s, docs, i) ==
    LET partition(d) == [n \in DOMAIN s.partition |-> OrNull(Get(d, s.partition[n]))]
        same   == {j \in DOMAIN docs : partition(docs[j]) = partition(docs[i])}
        before == {j \in same : BeforeInSort(s.sort, docs[j], docs[i])}
        ties   == {j \in same : j < i /\ ~BeforeInSort(s.sort, docs[i], docs[j])}
    IN  CASE s.op = "$documentNumber" -> 1 + Cardinality(before \cup ties)
          [] Len(s.sort) # 1     -> Refused
          [] s.op = "$rank"      -> 1 + Cardinality(before)
          [] s.op = "$denseRank" -> 1 + Cardinality({OrNull(Get(docs[j], s.sort[1].path)) : j \in before})

\* What $match with $expr leaves of documents, given the values of its expression
Filtered(docs, values) == IF \E i \in DOMAIN values : values[i] = Refused THEN Refused
                          ELSE Kept(docs, {i \in DOMAIN docs : Truthy(values[i])})

\* $group, given the values of its keys.  A key on its own is null if it is missing, as a field of a
\* document it is not there.
Group(s, docs, values) ==
    LET key(i) == IF DOMAIN s.key = {"_id"} THEN [n \in {"_id"} |-> OrNull(values[i]["_id"])]
                  ELSE Put(EmptyDoc, values[i])
        group(k) == Kept(docs, {i \in DOMAIN docs : key(i) = k})
        output(k, members) == Put(IF DOMAIN s.key = {"_id"} THEN k ELSE [n \in {"_id"} |-> k],
                                  [n \in DOMAIN s.accumulators |-> Accumulate(s.accumulators[n], members)])
        keys == Distinct([i \in DOMAIN docs |-> key(i)])
    IN  IF \E i \in DOMAIN docs : \E n \in DOMAIN s.key : values[i][n] = Refused THEN Refused
        ELSE [i \in DOMAIN keys |-> output(keys[i], group(keys[i]))]

RECURSIVE Run(_, _, _, _)

Stage(s, docs, vars, documents) ==
    LET values(fields) == [i \in DOMAIN docs |-> [n \in DOMAIN fields |-> Eval(fields[n], docs[i], vars)]]
        put(i, name, value) == Put(docs[i], [n \in {name} |-> value])
    IN CASE s.op = "$match"     -> SelectSeq(docs, LAMBDA d : MatchesQuery(s.query, d))
         [] s.op = "$expr"      -> Filtered(docs, [i \in DOMAIN docs |-> Eval(s.expr, docs[i], vars)])
         [] s.op = "$sort"      -> Sorted(docs, LAMBDA a, b : BeforeInSort(s.keys, a, b))
         [] s.op = "$skip"      -> SubSeq(docs, s.count + 1, Len(docs))
         [] s.op = "$limit"     -> SubSeq(docs, 1, IF s.count < Len(docs) THEN s.count ELSE Len(docs))
         [] s.op = "$addFields" -> [i \in DOMAIN docs |-> Put(docs[i], values(s.fields)[i])]
         [] s.op = "$unset"     -> [i \in DOMAIN docs |-> Put(docs[i], [n \in s.names |-> Missing])]
         \* no field is a number or a truth value, that would say whether to include it
         [] s.op = "$project"   -> [i \in DOMAIN docs |-> Put(EmptyDoc, values(s.fields)[i])]
         [] s.op = "$group"     -> Group(s, docs, values(s.key))
         [] s.op = "$lookup"    -> [i \in DOMAIN docs |->
                                       put(i, "_joined", Run(s.from, s.pipeline, values(s.let)[i], documents))]
         [] s.op = "$nonempty"  -> SelectSeq(docs, LAMBDA d : (d["_joined"] # <<>>) = s.value)
         [] s.op = "$unwind"    ->
              LET joined(i) == Padded(docs[i]["_joined"], IF s.preserve THEN <<Missing>> ELSE <<>>)
              IN  FlattenSeq([i \in DOMAIN docs |-> [k \in DOMAIN joined(i) |-> put(i, "_joined", joined(i)[k])]])
         [] s.op = "$setWindowFields" -> [i \in DOMAIN docs |-> put(i, s.field, WindowOutput(s.output, docs, i))]
         [] s.op = "native"     -> <<>>
         [] s.op = "$unionWith" -> LET more == Run(s.coll, s.pipeline, EmptyDoc, documents)
                                   IN  IF more = Refused THEN Refused ELSE docs \o more

\* One failure fails the aggregation
Checked(docs) ==
    IF docs # Refused /\ \E i \in DOMAIN docs : \E n \in DOMAIN docs[i] : docs[i][n] = Refused THEN Refused ELSE docs

\* A collection that does not exist is empty.  A native query may have to be the first stage, and
\* has to run on its collection.
Run(collection, stages, vars, documents) ==
    LET scan   == IF collection \in DOMAIN documents \ DOMAIN NativeQueries THEN documents[collection] ELSE <<>>
        native == stages # <<>> /\ stages[1].op = "native"
        start  == IF ~native THEN scan
                  ELSE IF collection = NativeQueries[stages[1].query] THEN documents[stages[1].query] ELSE <<>>
    IN  FoldLeft(LAMBDA docs, s : IF docs = Refused THEN Refused ELSE Checked(Stage(s, docs, vars, documents)),
                 start, IF native THEN Tail(stages) ELSE stages)
=============================================================================
