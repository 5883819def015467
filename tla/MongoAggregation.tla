-------------------------- MODULE MongoAggregation --------------------------
(***************************************************************************)
(* What MongoDB does with the aggregation pipelines of query requests:     *)
(* query documents, aggregation expressions and stages.  None of it is     *)
(* code of the connector: it is what the connector relies on.              *)
(*                                                                         *)
(* A value is Null, or a record whose only field says what it is.  What a  *)
(* path does not lead to is Missing, and what cannot be computed Failed:   *)
(* an error in one document is an error of the whole command.  Where       *)
(* MongoDB leaves an order open it is the order of the input.              *)
(***************************************************************************)
EXTENDS Integers, Sequences, FiniteSets, SequencesExt

CONSTANTS
    Null, Missing, Failed,
    UnsafeNames,        \* names that start with a dollar sign or contain a dot
    Strings,            \* the strings that values may be, in their order
    NativeQueries       \* for each native query its input collection, or Null

Int_(n)  == [int |-> n]
Str(n)   == [string |-> n]
Bool(b)  == [bool |-> b]
Arr(s)   == [array |-> s]
Doc(f)   == [doc |-> f]
Nullish(v)  == v \in {Null, Missing}
OrNull(v)   == IF v = Missing THEN Null ELSE v
Is(kind, v) == v \notin {Null, Missing, Failed} /\ kind \in DOMAIN v
Truthy(v)   == ~Nullish(v) /\ v \notin {Bool(FALSE), Int_(0)}

With(f, key, x) == [k \in DOMAIN f \cup {key} |-> IF k = key THEN x ELSE f[k]]
Without(f, x)   == [k \in {j \in DOMAIN f : f[j] # x} |-> f[k]]
FieldOf(v, n)   == IF Is("doc", v) /\ n \in DOMAIN v.doc THEN v.doc[n] ELSE Missing

\* Missing, null, numbers, strings, documents, arrays: the order of values of any types
Rank(v) == CASE v = Missing -> 0 [] v = Null -> 1 [] Is("int", v) -> 2 [] Is("string", v) -> 3
             [] Is("doc", v) -> 4 [] Is("array", v) -> 5 [] OTHER -> 6
Less(a, b) == \/ Rank(a) < Rank(b)
              \/ Is("int", a) /\ Is("int", b) /\ a.int < b.int
              \/ Is("string", a) /\ Is("string", b)
                 /\ \E i, j \in DOMAIN Strings : i < j /\ Strings[i] = a.string /\ Strings[j] = b.string

\* What a path leads to in an expression: in an array, to the array of what it leads to in each element
RECURSIVE At(_, _)
At(v, path) ==
    IF path = <<>> THEN v
    ELSE IF Is("array", v)
         THEN Arr(SelectSeq([i \in DOMAIN v.array |-> At(v.array[i], path)], LAMBDA x : x # Missing))
         ELSE At(FieldOf(v, Head(path)), Tail(path))

\* All that a path leads to in a query document: an array, and each of its elements
RECURSIVE Candidates(_, _)
Candidates(v, path) ==
    IF path = <<>> THEN {v} \cup IF Is("array", v) THEN ToSet(v.array) ELSE {}
    ELSE IF Is("array", v) THEN UNION {Candidates(x, path) : x \in ToSet(v.array)}
         ELSE Candidates(FieldOf(v, Head(path)), Tail(path))

-----------------------------------------------------------------------------
(* Query documents                                                         *)

RECURSIVE MatchesQuery(_, _)
MatchesQuery(q, v) ==
    LET found    == {OrNull(c) : c \in Candidates(v, q.path)}
        elements == UNION {ToSet(c.array) : c \in {x \in Candidates(v, q.path) : Is("array", x)}}
    IN  CASE q.op = "$and" -> \A i \in DOMAIN q.of : MatchesQuery(q.of[i], v)
          [] q.op = "$or"  -> \E i \in DOMAIN q.of : MatchesQuery(q.of[i], v)
          [] q.op = "$nor" -> ~ \E i \in DOMAIN q.of : MatchesQuery(q.of[i], v)
          [] q.op = "$eq"  -> q.value \in found
          [] q.op = "$ne"  -> q.value \notin found
          [] q.op = "$lt"  -> \E c \in found : Rank(c) = Rank(q.value) /\ Less(c, q.value)
          [] q.op = "$in"  -> found \cap ToSet(q.value.array) # {}
          [] q.op = "$nin" -> found \cap ToSet(q.value.array) = {}
          [] q.op = "contains"  -> q.value \in elements
          [] q.op = "elemMatch" -> \E x \in elements : MatchesQuery(q.query, x)
          [] q.op = "nonempty"  -> Candidates(v, q.path) \ {Missing} # {} /\ Arr(<<>>) \notin found
          [] q.op = "empty"     -> Arr(<<>>) \in found

-----------------------------------------------------------------------------
(* Aggregation expressions.  An operator has its operands in args.         *)

E(op, args)      == [op |-> op, args |-> args]
PathE(path)      == [op |-> "path", args |-> <<>>, path |-> path]
VarE(name, path) == [op |-> "var", args |-> <<>>, name |-> name, path |-> path]
LiteralE(v)      == [op |-> "literal", args |-> <<>>, value |-> v]
GetFieldE(e, n)  == [op |-> "$getField", args |-> <<e>>, field |-> n]
SetFieldE(e, n, value) == [op |-> "$setField", args |-> <<e, value>>, field |-> n]
MapE(e, as, in)  == [op |-> "$map", args |-> <<e, in>>, as |-> as]
LetE(name, e, in) == [op |-> "$let", args |-> <<e, in>>, name |-> name]
DocumentE(fields) == LET names == SetToSeq(DOMAIN fields)
                     IN  [op |-> "document", args |-> [i \in DOMAIN names |-> fields[names[i]]], names |-> names]

Operators == {"path", "var", "literal", "document", "array", "$getField", "$setField", "$map", "$let",
              "$and", "$or", "$eq", "$ne", "$lt", "$gt", "$in", "$anyElementTrue", "$size", "$first",
              "$ifNull", "$cond", "$toLong", "countNonNull"}

\* What MongoDB takes for an expression when it parses a pipeline
RECURSIVE WellFormed(_)
WellFormed(e) == /\ e.op \in Operators
                 /\ e.op = "document" => ToSet(e.names) \cap UnsafeNames = {}
                 /\ \A i \in DOMAIN e.args : WellFormed(e.args[i])

\* An operator of values
Apply(e, a) ==
    CASE e.op = "array"     -> Arr([i \in DOMAIN a |-> OrNull(a[i])])
      [] e.op = "document"  -> Doc(Without([n \in ToSet(e.names) |->
                                               a[CHOOSE i \in DOMAIN e.names : e.names[i] = n]], Missing))
      [] e.op = "$getField" -> IF Nullish(a[1]) THEN a[1] ELSE FieldOf(a[1], e.field)
      [] e.op = "$setField" -> IF Nullish(a[1]) THEN Null
                               ELSE IF Is("doc", a[1]) THEN Doc(Without(With(a[1].doc, e.field, a[2]), Missing))
                               ELSE Failed
      [] e.op = "$eq" -> Bool(a[1] = a[2])
      [] e.op = "$ne" -> Bool(a[1] # a[2])
      [] e.op = "$lt" -> Bool(Less(a[1], a[2]))
      [] e.op = "$gt" -> Bool(Less(a[2], a[1]))
      [] e.op = "$in" -> IF Is("array", a[2]) THEN Bool(a[1] \in ToSet(a[2].array)) ELSE Failed
      [] e.op = "$anyElementTrue" ->
             IF Is("array", a[1]) THEN Bool(\E x \in ToSet(a[1].array) : Truthy(x)) ELSE Failed
      [] e.op = "$size"   -> IF Is("array", a[1]) THEN Int_(Len(a[1].array)) ELSE Failed
      [] e.op = "$first"  -> IF Nullish(a[1]) THEN Null
                             ELSE IF ~Is("array", a[1]) THEN Failed
                             ELSE IF a[1].array = <<>> THEN Missing ELSE a[1].array[1]
      [] e.op = "$ifNull" -> IF Nullish(a[1]) THEN a[2] ELSE a[1]
      [] e.op = "$toLong" -> IF Nullish(a[1]) THEN Null
                             ELSE IF Is("int", a[1]) THEN [long |-> a[1].int] ELSE Failed
      [] e.op = "countNonNull" ->
             IF Nullish(a[1]) THEN Null ELSE Int_(Len(SelectSeq(a[1].array, LAMBDA x : x # Null)))

\* $and and $or stop at the first operand that decides
Decide(a, decisive) ==
    IF \E i \in DOMAIN a : /\ a[i] # Failed /\ Truthy(a[i]) = decisive
                           /\ \A j \in 1..(i - 1) : a[j] # Failed
    THEN Bool(decisive) ELSE IF Failed \in ToSet(a) THEN Failed ELSE Bool(~decisive)

\* vars: the values of variables, CURRENT and ROOT among them
RECURSIVE Eval(_, _)
Eval(e, vars) ==
    CASE e.op = "path"    -> At(vars["CURRENT"], e.path)
      [] e.op = "var"     -> IF e.name \in DOMAIN vars THEN At(vars[e.name], e.path) ELSE Failed
      [] e.op = "literal" -> e.value
      [] e.op \in {"$and", "$or"} -> Decide([i \in DOMAIN e.args |-> Eval(e.args[i], vars)], e.op = "$or")
      [] e.op = "$cond"   -> LET if == Eval(e.args[1], vars)
                             IN  IF if = Failed THEN Failed ELSE Eval(e.args[IF Truthy(if) THEN 2 ELSE 3], vars)
      [] e.op = "$let"    -> LET v == Eval(e.args[1], vars)
                             IN  IF v = Failed THEN Failed ELSE Eval(e.args[2], With(vars, e.name, v))
      [] e.op = "$map"    ->
             LET v == Eval(e.args[1], vars)
                 mapped == [i \in DOMAIN v.array |-> OrNull(Eval(e.args[2], With(vars, e.as, v.array[i])))]
             IN  IF Nullish(v) THEN Null
                 ELSE IF ~Is("array", v) \/ Failed \in ToSet(mapped) THEN Failed ELSE Arr(mapped)
      [] OTHER -> LET a == [i \in DOMAIN e.args |-> Eval(e.args[i], vars)]
                  IN  IF Failed \in ToSet(a) THEN Failed ELSE Apply(e, a)

-----------------------------------------------------------------------------
(* Stages                                                                  *)

On(doc, vars) == With(With(vars, "ROOT", doc), "CURRENT", doc)

\* All or nothing
Each(s) == IF Failed \in ToSet(s) THEN Failed ELSE s

\* The values a document is sorted by: the least, or the greatest if it descends
RECURSIVE SortValues(_, _)
SortValues(v, path) ==
    IF Is("array", v) THEN IF v.array = <<>> THEN {Missing}
                           ELSE UNION {SortValues(x, path) : x \in ToSet(v.array)}
    ELSE IF path = <<>> THEN {OrNull(v)} ELSE SortValues(FieldOf(v, Head(path)), Tail(path))

SortKey(key, doc) == CHOOSE v \in SortValues(doc, key.path) :
                        \A w \in SortValues(doc, key.path) : ~ IF key.desc THEN Less(v, w) ELSE Less(w, v)

SortsBefore(keys, d, e) ==
    \E i \in DOMAIN keys :
        /\ IF keys[i].desc THEN Less(SortKey(keys[i], e), SortKey(keys[i], d))
                           ELSE Less(SortKey(keys[i], d), SortKey(keys[i], e))
        /\ \A j \in 1..(i - 1) : SortKey(keys[j], d) = SortKey(keys[j], e)

\* A sequence in an order, equals in the order they have
InOrder(s, Before(_, _)) ==
    LET place(i) == 1 + Cardinality({j \in DOMAIN s : Before(s[j], s[i]) \/ (~Before(s[i], s[j]) /\ j < i)})
    IN  [p \in DOMAIN s |-> s[CHOOSE i \in DOMAIN s : place(i) = p]]

\* The distinct elements of a sequence, in the order in which they first occur
Uniques(s) == FoldLeft(LAMBDA seen, x : IF x \in ToSet(seen) THEN seen ELSE Append(seen, x), <<>>, s)

Extreme(values, Before(_, _)) ==
    IF values = {} THEN Null ELSE CHOOSE v \in values : \A w \in values : ~Before(w, v)

Accumulate(op, values) ==
    LET there == {v \in ToSet(values) : ~Nullish(v)}
    IN  CASE op = "$min" -> Extreme(there, LAMBDA v, w : Less(v, w))
          [] op = "$max" -> Extreme(there, LAMBDA v, w : Less(w, v))
          [] op = "$sum" -> Int_(FoldLeft(LAMBDA sum, v : IF Is("int", v) THEN sum + v.int ELSE sum, 0, values))
          [] op = "$addToSet" -> Arr(SelectSeq(Uniques(values), LAMBDA v : v # Missing))

RECURSIVE Run(_, _, _, _), Accepted(_)

\* What MongoDB checks of a stage before it reads a document
AcceptedStage(s) ==
    CASE s.op = "$limit" -> s.count > 0
      [] s.op \in {"$expr", "$replaceWith"} -> WellFormed(s.expr)
      [] s.op = "$addFields" -> \A n \in DOMAIN s.fields : WellFormed(s.fields[n])
      [] s.op = "$group"  -> WellFormed(s.key) /\ \A n \in DOMAIN s.accumulators : /\ WellFormed(s.accumulators[n].expr)
                                                                                  /\ n \notin UnsafeNames
      [] s.op = "$facet"  -> \A n \in DOMAIN s.pipelines : Accepted(s.pipelines[n])
      [] s.op = "$lookup" -> Accepted(s.pipeline) /\ \A n \in DOMAIN s.let : WellFormed(s.let[n])
      [] OTHER -> TRUE
Accepted(stages) == \A i \in DOMAIN stages : AcceptedStage(stages[i])

Faceted(facets) == IF \E n \in DOMAIN facets : facets[n] = Failed THEN Failed
                   ELSE << Doc([n \in DOMAIN facets |-> Arr(facets[n])]) >>
Joined(doc, as, found) == IF found = Failed THEN Failed ELSE Doc(With(doc.doc, as, Arr(found)))

Stage(s, docs, vars, db) ==
  LET eval(e) == Each([i \in DOMAIN docs |-> Eval(e, On(docs[i], vars))])
  IN  CASE s.op = "$match" -> SelectSeq(docs, LAMBDA d : MatchesQuery(s.query, d))
        [] s.op = "$expr"  -> LET holds == eval(s.expr)
                              IN  IF holds = Failed THEN Failed
                                  ELSE LET places == SelectSeq([i \in DOMAIN docs |-> i], LAMBDA i : Truthy(holds[i]))
                                       IN  [i \in DOMAIN places |-> docs[places[i]]]
        [] s.op = "$sort"  -> InOrder(docs, LAMBDA d, e : SortsBefore(s.keys, d, e))
        [] s.op = "$skip"  -> SubSeq(docs, s.count + 1, Len(docs))
        [] s.op = "$limit" -> SubSeq(docs, 1, IF s.count < Len(docs) THEN s.count ELSE Len(docs))
        [] s.op = "$addFields" ->
             [i \in DOMAIN docs |-> Doc([n \in DOMAIN docs[i].doc \cup DOMAIN s.fields |->
                 IF n \in DOMAIN s.fields THEN OrNull(Eval(s.fields[n], On(docs[i], vars))) ELSE docs[i].doc[n]])]
        [] s.op = "$replaceWith" -> LET new == eval(s.expr)
                                    IN  IF new # Failed /\ \A i \in DOMAIN new : Is("doc", new[i]) THEN new ELSE Failed
        [] s.op = "$group" ->
             LET keys == [i \in DOMAIN docs |-> OrNull(Eval(s.key, On(docs[i], vars)))]
                 group(key, e) == LET members == SelectSeq([i \in DOMAIN docs |-> i], LAMBDA i : keys[i] = key)
                                  IN  [i \in DOMAIN members |-> Eval(e, On(docs[members[i]], vars))]
             IN  [k \in DOMAIN Uniques(keys) |->
                     Doc([n \in {"_id"} \cup DOMAIN s.accumulators |->
                         IF n = "_id" THEN Uniques(keys)[k]
                         ELSE LET a == s.accumulators[n] IN Accumulate(a.op, group(Uniques(keys)[k], a.expr))])]
        [] s.op = "$facet" ->
             Faceted([n \in DOMAIN s.pipelines |-> Run(s.pipelines[n], docs, vars, db)])
        [] s.op = "$lookup" ->
             Each([i \in DOMAIN docs |->
                 LET let    == [n \in DOMAIN vars \cup DOMAIN s.let |->
                                   IF n \in DOMAIN s.let THEN Eval(s.let[n], On(docs[i], vars)) ELSE vars[n]]
                     local  == Candidates(docs[i], s.local)
                     joined(d) == \/ s.local = Null
                                  \/ {OrNull(v) : v \in local} \cap {OrNull(v) : v \in Candidates(d, s.foreign)} # {}
                     from   == IF s.from \in DOMAIN db THEN SelectSeq(db[s.from], joined) ELSE <<>>
                 IN  Joined(docs[i], s.as, Run(s.pipeline, from, let, db))])
        [] s.op = "$documents" -> s.documents
        [] s.op = "native" ->
             \* the pipeline of a native query, on the collection it is written for or on none
             IF s.on # NativeQueries[s.query] THEN IF NativeQueries[s.query] = Null THEN Failed ELSE <<>>
             ELSE SelectSeq(db[s.query], LAMBDA d : \A n \in DOMAIN s.arguments :
                                            FieldOf(d, n) = Eval(s.arguments[n], On(d, vars)))

Run(stages, docs, vars, db) ==
    FoldLeft(LAMBDA ds, s : IF ds = Failed THEN Failed ELSE Stage(s, ds, vars, db), docs, stages)

NoVariables == [n \in {} |-> Null]

\* The aggregate command
AggregateCommand(collection, stages, db) ==
    IF ~Accepted(stages) THEN Failed
    ELSE Run(stages, IF collection \in DOMAIN db THEN db[collection] ELSE <<>>, NoVariables, db)
=============================================================================
