---------------------------- MODULE QueryResponse ----------------------------
(***************************************************************************)
(* From the documents that MongoDB returns to the response of a query      *)
(* (mongodb-agent-common, query/response.rs and                            *)
(* query/serialization/bson_to_json.rs).                                   *)
(*                                                                         *)
(* A JSON value is written as the BSON value it stands for; a long is a    *)
(* string in JSON, an int a number.  A conversion that fails is a          *)
(* TypeMismatch, the one error that can make a row be skipped, or Failed.  *)
(* If an object has both, which comes first is a matter of the order of    *)
(* names: Failed here.                                                     *)
(***************************************************************************)
EXTENDS QueryPipeline

CONSTANTS TypeMismatch

Errors == {TypeMismatch, Failed}

\* try_collect
Collected(parts, whole) == IF Failed \in parts THEN Failed
                           ELSE IF TypeMismatch \in parts THEN TypeMismatch ELSE whole

AllOf(s)   == Collected(ToSet(s), s)
ArrayOf_(s) == Collected(ToSet(s), Arr(s))
DocOf(f)   == Collected({f[n] : n \in DOMAIN f}, Doc(f))

MayBeMissing(t) == IsA("nullable", t) \/ t \in {Scalar("extendedJSON"), Scalar("null")}

ScalarToJson(s, v) == CASE s = "extendedJSON" -> v
                        [] s = "long" /\ Is("int", v) -> [long |-> v.int]
                        [] s = "date" /\ Is("date", v) -> Str(v.date)
                        [] OTHER -> IF Is(s, v) THEN v ELSE TypeMismatch

RECURSIVE BsonToJson(_, _)

ArrayToJson(t, v) == IF ~Is("array", v) THEN TypeMismatch
                     ELSE ArrayOf_([i \in DOMAIN v.array |-> BsonToJson(t, v.array[i])])

\* As many elements as there are types, or fewer
TupleToJson(ts, v) == IF ~Is("array", v) THEN TypeMismatch
                      ELSE ArrayOf_([i \in DOMAIN ts \cap DOMAIN v.array |-> BsonToJson(ts[i], v.array[i])])

\* A field of the type that the document lacks is left out if it may be missing
ObjectToJson(types, v) ==
    IF ~Is("doc", v) THEN TypeMismatch
    ELSE LET there == {n \in DOMAIN types : n \in DOMAIN v.doc \/ ~MayBeMissing(types[n])}
         IN  DocOf([n \in there |-> IF n \in DOMAIN v.doc THEN BsonToJson(types[n], v.doc[n]) ELSE Failed])

BsonToJson(t, v) ==
    CASE IsA("nullable", t) -> IF v = Null THEN Null ELSE BsonToJson(t.nullable, v)
      [] IsA("scalar", t)   -> ScalarToJson(t.scalar, v)
      [] IsA("arrayOf", t)  -> ArrayToJson(t.arrayOf, v)
      [] IsA("tuple", t)    -> TupleToJson(t.tuple, v)
      [] IsA("object", t)   -> ObjectToJson(t.object, v)

-----------------------------------------------------------------------------
(* The types of what was selected                                          *)

TypeForAggregate(a) == IF IsCount(a) THEN Scalar("int") ELSE a.result_type
TypeForAggregates(aggregates) == [n \in DOMAIN aggregates |-> TypeForAggregate(aggregates[n])]
DimensionTypes(grouping) == [i \in DOMAIN grouping.dimensions |-> grouping.dimensions[i].field_type]

RECURSIVE TypeForRow(_), TypeForNestedField(_, _)

TypeForRowSet(f) ==
    Object([k \in {IF p = "fields" THEN "rows" ELSE p : p \in {x \in {"aggregates", "fields", "groups"} : f[x] # Null}} |->
        CASE k = "aggregates" -> Object(TypeForAggregates(f.aggregates))
          [] k = "rows"       -> ArrayOf(TypeForRow(f.fields))
          [] k = "groups"     -> ArrayOf(Object(With(TypeForAggregates(f.groups.aggregates), "dimensions",
                                                     Tuple_(DimensionTypes(f.groups)))))])

TypeForField(f) == CASE IsA("relationship", f) -> TypeForRowSet(f)
                     [] IsA("column", f) /\ f.fields = Null -> f.type
                     [] OTHER -> TypeForNestedField(f.type, f.fields)

TypeForRow(fields) == Object([n \in DOMAIN fields |-> TypeForField(fields[n])])

\* Nullable where the column is
TypeForNestedField(parent, nested) ==
    LET u == Underlying(parent)
        t == IF IsA("object", nested) THEN TypeForRow(nested.object)
             ELSE ArrayOf(TypeForNestedField(IF IsA("arrayOf", u) THEN u.arrayOf ELSE u, nested.array))
    IN  IF MayBeMissing(parent) THEN Nullable(t) ELSE t

-----------------------------------------------------------------------------
(* Row sets                                                                *)

RowSet(aggregates, rows, groups) ==
    Collected({e \in Errors : aggregates = e \/ rows = e \/ groups = e},
              [aggregates |-> aggregates, rows |-> rows, groups |-> groups])

\* Without rows $group yields no document: what it lacks is zero or null
SerializeAggregates(aggregates, doc) ==
    LET f == [n \in DOMAIN aggregates |->
                 IF FieldOf(doc, n) # Missing THEN BsonToJson(TypeForAggregate(aggregates[n]), FieldOf(doc, n))
                 ELSE IF IsCount(aggregates[n]) THEN Int_(0) ELSE Null]
    IN  Collected({f[n] : n \in DOMAIN f}, f)

\* Mutant of SerializeRows: a row that is skipped takes the rest with it
SerializeRowsUntil(fields, docs, skip_row) ==
    LET rows == [i \in DOMAIN docs |-> BsonToJson(TypeForRow(fields), docs[i])]
        kept == {i \in DOMAIN rows : \A j \in 1..i : rows[j] # TypeMismatch}
    IN  IF skip_row THEN Collected(ToSet(rows) \ {TypeMismatch}, SubSeq(rows, 1, Cardinality(kept)))
        ELSE Collected(ToSet(rows), rows)

\* on_response_type_mismatch: a row that does not fit its type is skipped, or fails the query
SerializeRows(fields, docs, skip_row) ==
    LET rows == [i \in DOMAIN docs |-> BsonToJson(TypeForRow(fields), docs[i])]
        kept == IF skip_row THEN SelectSeq(rows, LAMBDA r : r # TypeMismatch) ELSE rows
    IN  AllOf(kept)

SerializeGroups(grouping, docs) ==
    LET types == DimensionTypes(grouping)
        group(d) ==
            LET found == FieldOf(d, "dimensions")
                dimensions == TupleToJson(types, IF Is("array", found) THEN found ELSE Arr(<<found>>))
                aggregates == SerializeAggregates(grouping.aggregates, d)
            IN  IF found = Missing THEN Failed
                ELSE Collected({e \in Errors : dimensions = e \/ aggregates = e},
                               [dimensions |-> dimensions, aggregates |-> aggregates])
        groups == [i \in DOMAIN docs |-> group(docs[i])]
    IN  AllOf(groups)

\* serialize_row_set, of a BsonRowSet
SerializeRowSet(q, doc, skip_row) ==
    LET listed(key) == LET v == FieldOf(doc, key) IN IF v = Missing THEN <<>> ELSE v.array
    IN  RowSet(IF q.aggregates = Null THEN Null
               ELSE SerializeAggregates(q.aggregates, FieldOf(doc, "aggregates")),
               IF q.fields = Null THEN Null ELSE SerializeRows(q.fields, listed("rows"), skip_row),
               IF q.groups = Null THEN Null ELSE SerializeGroups(q.groups, listed("groups")))

\* serialize_query_response: without variables there is one row set
SerializeSingle(q, docs, skip_row) ==
    LET facets == ResponseFacets(q)
        first  == IF docs = <<>> THEN Doc(EmptyMap) ELSE docs[1]
    IN  CASE facets = "combination" -> IF docs = <<>> THEN Failed ELSE SerializeRowSet(q, first, skip_row)
          [] facets = "aggregates"  -> RowSet(SerializeAggregates(q.aggregates, first), Null, Null)
          [] facets = "fields" ->
                 RowSet(Null, IF q.fields = Null THEN Null ELSE SerializeRows(q.fields, docs, skip_row), Null)
          [] facets = "groups" -> RowSet(Null, Null, SerializeGroups(q.groups, docs))

\* With variables there is one for each set of them
SerializeQueryResponse(plan, docs, skip_row) ==
    AllOf(IF HasVariables(plan) THEN [i \in DOMAIN docs |-> SerializeRowSet(plan.query, docs[i], skip_row)]
          ELSE <<SerializeSingle(plan.query, docs, skip_row)>>)
=============================================================================
