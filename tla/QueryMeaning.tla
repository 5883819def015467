----------------------------- MODULE QueryMeaning ----------------------------
(***************************************************************************)
(* What a query asks for, read off the request and the database alone:     *)
(* the reference that pipelines and responses are compared with.  A column *)
(* that is missing is null, null is equal to null, and values have the     *)
(* order of MongoDB.                                                       *)
(***************************************************************************)
EXTENDS QueryResponse

ValueOfArgument(a, set) == IF IsA("variable", a) THEN set[a.variable] ELSE a.literal

RowsOf(collection, arguments, set, db) ==
    IF collection \notin DOMAIN db THEN <<>>
    ELSE IF collection \notin DOMAIN NativeQueries THEN db[collection]
    ELSE SelectSeq(db[collection], LAMBDA d :
             \A n \in DOMAIN arguments : FieldOf(d, n) = ValueOfArgument(arguments[n], set))

RelatedRows(name, arguments, row, set, db) ==
    LET r == Relationships[name]
    IN  SelectSeq(RowsOf(r.target, arguments, set, db), LAMBDA d :
            \A s \in DOMAIN r.mapping : OrNull(FieldOf(row, s)) = OrNull(At(d, r.mapping[s])))

\* Values of requests are JSON, where a date is a string
Json(v) == IF Is("date", v) THEN Str(v.date) ELSE v
ColumnOf(name, field_path, row) == OrNull(At(row, <<name>> \o field_path))

-----------------------------------------------------------------------------
(* Predicates and paths                                                    *)

Compares(op, a, b) == CASE op = "eq"  -> a = b
                        [] op = "ne"  -> a # b
                        [] op = "lt"  -> Is("int", a) /\ Is("int", b) /\ a.int < b.int
                        [] op = "in"  -> a \in ToSet(b.array)
                        [] op = "nin" -> a \notin ToSet(b.array)
                        [] op = "contains" -> Is("array", a) /\ b \in ToSet(a.array)

RECURSIVE Holds(_, _, _, _), Reached(_, _, _, _)

\* The rows that a path leads to
Reached(path, row, set, db) ==
    IF path = <<>> THEN <<row>>
    ELSE LET next == SelectSeq(RelatedRows(path[1].relationship, path[1].arguments, row, set, db),
                               LAMBDA d : path[1].predicate = Null \/ Holds(path[1].predicate, d, set, db))
         IN  FlattenSeq([i \in DOMAIN next |-> Reached(Tail(path), next[i], set, db)])

ComparedWith(v, row, set, db) ==
    CASE IsA("scalar", v)   -> {v.scalar}
      [] IsA("variable", v) -> {set[v.variable]}
      [] IsA("column", v)   -> {Json(ColumnOf(v.column.name, v.column.field_path, r)) : r \in ToSet(Reached(v.path, row, set, db))}

Exists(in, row, set, db) ==
    CASE in.kind = "related"   -> RelatedRows(in.relationship, in.arguments, row, set, db)
      [] in.kind = "unrelated" -> RowsOf(in.collection, in.arguments, set, db)
      [] in.kind = "nested"    -> LET v == At(row, Append(in.field_path, in.column_name))
                                  IN  IF Is("array", v) THEN v.array ELSE <<>>

Holds(e, row, set, db) ==
    CASE e.op = "and" -> \A i \in DOMAIN e.of : Holds(e.of[i], row, set, db)
      [] e.op = "or"  -> \E i \in DOMAIN e.of : Holds(e.of[i], row, set, db)
      [] e.op = "not" -> ~Holds(e.of[1], row, set, db)
      [] e.op = "is_null"  -> ColumnOf(e.column.name, e.column.field_path, row) = Null
      [] e.op = "is_empty" -> ColumnOf(e.column.name, e.column.field_path, row) = Arr(<<>>)
      [] e.op = "exists"   -> \E d \in ToSet(Exists(e.in, row, set, db)) :
                                  e.predicate = Null \/ Holds(e.predicate, d, set, db)
      [] OTHER -> \E v \in ComparedWith(e.value, row, set, db) :
                      Compares(e.op, Json(ColumnOf(e.column.name, e.column.field_path, row)), v)

-----------------------------------------------------------------------------
(* Orders, aggregates and groups                                           *)

\* Of several related rows the one that comes first counts; no row comes before null
FirstOf(values, desc) ==
    IF values = {} THEN Missing
    ELSE CHOOSE v \in values : \A w \in values : ~ IF desc THEN Less(v, w) ELSE Less(w, v)

OrderKeys(order_by, row, set, db) ==
    [i \in DOMAIN order_by |->
        FirstOf({ColumnOf(order_by[i].name, order_by[i].field_path, r) :
                    r \in ToSet(Reached(order_by[i].path, row, set, db))}, order_by[i].desc)]

ComesFirst(order_by, a, b) ==
    \E i \in DOMAIN order_by : /\ IF order_by[i].desc THEN Less(b[i], a[i]) ELSE Less(a[i], b[i])
                               /\ \A j \in 1..(i - 1) : a[j] = b[j]

Page(q, rows) == LET from == IF q.offset = Null THEN 0 ELSE q.offset
                 IN  SubSeq(rows, from + 1, IF q.limit = Null THEN Len(rows) ELSE Min({Len(rows), from + q.limit}))

\* The rows that a query selects of those that it is asked of
Selected(q, rows, set, db) ==
    LET matching == SelectSeq(rows, LAMBDA d : q.predicate = Null \/ Holds(q.predicate, d, set, db))
        keyed    == [i \in DOMAIN matching |-> <<matching[i], OrderKeys(q.order_by, matching[i], set, db)>>]
        sorted   == InOrder(keyed, LAMBDA d, e : ComesFirst(q.order_by, d[2], e[2]))
    IN  Page(q, [i \in DOMAIN sorted |-> sorted[i][1]])

\* The sum of no row is null, that of rows without a number is zero
AggregateOf(type, a, rows) ==
    LET values == SelectSeq([i \in DOMAIN rows |-> ColumnOf(a.column, a.field_path, rows[i])], LAMBDA v : v # Null)
    IN  CASE a.op = "star_count"   -> Int_(Len(rows))
          [] a.op = "column_count" -> Int_(IF a.distinct THEN Cardinality(ToSet(values)) ELSE Len(values))
          [] a.op = "single_column" ->
                IF rows = <<>> THEN Null
                ELSE IF a.function = "sum"
                THEN [long |-> FoldLeft(LAMBDA sum, v : sum + IF Is("int", v) THEN v.int ELSE 0, 0, values)]
                ELSE IF values = <<>> THEN Null
                ELSE BsonToJson(TypeAt(type, <<a.column>> \o a.field_path),
                                CHOOSE v \in ToSet(values) : \A w \in ToSet(values) :
                                    ~ IF a.function = "min" THEN Less(w, v) ELSE Less(v, w))

AggregatesOf(type, aggregates, rows) ==
    DocOf([n \in DOMAIN aggregates |-> AggregateOf(type, aggregates[n], rows)])

DimensionIn(d, reached) ==
    LET values == [i \in DOMAIN reached |-> ColumnOf(d.column_name, d.field_path, reached[i])]
    IN  IF d.path = <<>> THEN values[1] ELSE Arr(values)

DimensionsOf(dimensions, row, set, db) ==
    Arr([i \in DOMAIN dimensions |-> DimensionIn(dimensions[i], Reached(dimensions[i].path, row, set, db))])

DimensionType(type, d) == LET t == TypeAt(EndOfPath(type, d.path), <<d.column_name>> \o d.field_path)
                          IN  IF d.path = <<>> THEN t ELSE ArrayOf(t)

WithDimensions(aggregates, d) == IF {aggregates, d} \cap Errors # {} THEN Collected({aggregates, d}, Null)
                                 ELSE Doc(With(aggregates.doc, "dimensions", d))

GroupsBy(type, grouping, rows, keys) ==
    LET types == [i \in DOMAIN grouping.dimensions |-> DimensionType(type, grouping.dimensions[i])]
        members(k) == LET places == SelectSeq([i \in DOMAIN rows |-> i], LAMBDA i : keys[i] = k)
                      IN  [i \in DOMAIN places |-> rows[places[i]]]
        distinct == Uniques(keys)
    IN  ArrayOf_([i \in DOMAIN distinct |->
            WithDimensions(AggregatesOf(type, grouping.aggregates, members(distinct[i])),
                           BsonToJson(Tuple_(types), distinct[i]))])

GroupsOf(type, grouping, rows, set, db) ==
    GroupsBy(type, grouping, rows, [i \in DOMAIN rows |-> DimensionsOf(grouping.dimensions, rows[i], set, db)])

-----------------------------------------------------------------------------
(* Responses                                                               *)

RECURSIVE ShownColumn(_, _, _, _, _), ShownRow(_, _, _, _, _), RowSetOf(_, _, _, _, _, _)

ShownColumn(t, nested, v, set, db) ==
    IF nested = Null THEN BsonToJson(t, v)
    ELSE IF IsA("nullable", t) THEN IF v = Null THEN Null ELSE ShownColumn(t.nullable, nested, v, set, db)
    ELSE IF IsA("object", nested) THEN IF Is("doc", v) THEN ShownRow(t, nested.object, v, set, db) ELSE TypeMismatch
    ELSE IF ~Is("array", v) THEN TypeMismatch
    ELSE ArrayOf_([i \in DOMAIN v.array |-> ShownColumn(t.arrayOf, nested.array, v.array[i], set, db)])

ShownRow(type, fields, row, set, db) ==
    DocOf([n \in DOMAIN fields |->
        LET f == fields[n]
        IN  IF IsA("column", f)
            THEN ShownColumn(TypeAt(type, <<f.column>>), f.fields, OrNull(FieldOf(row, f.column)), set, db)
            ELSE RowSetOf(CollectionTypes[Relationships[f.relationship].target], f.query,
                          RelatedRows(f.relationship, f.arguments, row, set, db), set, db, FALSE)])

Kept(rows, skip_row) == IF skip_row THEN SelectSeq(rows, LAMBDA r : r # TypeMismatch) ELSE rows

PartsOfRowSet(type, q, selected, set, db, skip_row) ==
    LET asked_of == [rows |-> q.fields, aggregates |-> q.aggregates, groups |-> q.groups]
    IN  DocOf([p \in {p \in DOMAIN asked_of : asked_of[p] # Null} |->
            CASE p = "rows"       -> ArrayOf_(Kept([i \in DOMAIN selected |->
                                                       ShownRow(type, q.fields, selected[i], set, db)], skip_row))
              [] p = "aggregates" -> AggregatesOf(type, q.aggregates, selected)
              [] p = "groups"     -> GroupsOf(type, q.groups, selected, set, db)])

RowSetOf(type, q, asked, set, db, skip_row) ==
    PartsOfRowSet(type, q, Selected(q, asked, set, db), set, db, skip_row)

\* The row set of a request for one set of variables
Meaning(request, set, skip_row, db) ==
    RowSetOf(CollectionTypes[request.collection], request.query,
             RowsOf(request.collection, request.arguments, set, db), set, db, skip_row)

VariableSets(request) == IF request.variables = Null THEN <<NoVariables>> ELSE request.variables

\* A row set of a response, in the same form; groups come in any order
InGroupsOfAnyOrder(rowSet) == IF "groups" \notin DOMAIN rowSet THEN rowSet
                              ELSE With(rowSet, "groups", ToSet(rowSet["groups"].array))

AsDocument(rowSet) ==
    LET group(g) == Doc(With(g.aggregates, "dimensions", g.dimensions))
        parts == [p \in {"rows", "aggregates", "groups"} |->
                     IF rowSet[p] = Null THEN Null
                     ELSE IF p = "rows" THEN Arr(rowSet.rows)
                     ELSE IF p = "aggregates" THEN Doc(rowSet.aggregates)
                     ELSE Arr([i \in DOMAIN rowSet.groups |-> group(rowSet.groups[i])])]
    IN  Without(parts, Null)
=============================================================================
