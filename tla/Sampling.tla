------------------------------- MODULE Sampling -------------------------------
(***************************************************************************)
(* Deriving the schema of one collection from sample documents             *)
(* (cli/src/introspection/sampling.rs, sample_schema_from_collection and   *)
(* what it calls).  $sample returns the documents in any order, with       *)
(* repetition, and its cursor may fail at any time.                        *)
(*                                                                         *)
(* A BSON value is <<"scalar", s>>, <<"array", elements>> or               *)
(* <<"document", fields>>, fields being a sequence of [name, value]: a     *)
(* document is ordered.  A set of object types is a function from type     *)
(* names to functions from field names to types.                           *)
(***************************************************************************)
EXTENDS TypeUnification, FiniteSets

CONSTANTS
    CollectionTypeName, \* the name of the collection's object type
    MaxNesting,         \* bound on how deep a document is nested
    Documents,          \* the documents the collection may hold
    CandidateTypes,     \* the types a derived type is compared with
    MaxSample           \* bound on the number of documents sampled

IdField == <<"_id">>

\* The documents over a set of values: their fields are ordered, and have different names
DocumentsOver(S) ==
    {doc \in Seq([name : Seq(STRING) \ {<<>>}, value : S]) :
        \A i, j \in DOMAIN doc : doc[i].name = doc[j].name => i = j}

\* BSON values that are nested no deeper
Nested[depth \in Nat] ==
    IF depth = 0 THEN {"scalar"} \X BsonScalarTypes
    ELSE LET inner == Nested[depth - 1]
         IN  ({"array"} \X Seq(inner)) \cup ({"document"} \X DocumentsOver(inner)) \cup inner

Value == Nested[MaxNesting]

ASSUME NestingAssumption   == MaxNesting \in Nat
ASSUME NameAssumption      == CollectionTypeName \in Seq(STRING)
ASSUME DocumentsAssumption == \A doc \in Documents : <<"document", doc>> \in Value
\* Sampling derives normalized types, no predicate types, and nothing from Undefined
ASSUME CandidatesAssumption ==
    \A t \in CandidateTypes :
        t \in Type /\ NormalizeType(t) = t /\ t.base[1] # "predicate" /\ t.base # Undefined.base

\* Types unified one after the other, from Undefined
UnifyTypes(types) ==
    LET result[i \in 0..Len(types)] ==
            IF i = 0 THEN Undefined ELSE UnifyType(result[i - 1], types[i])
    IN  result[Len(types)]

\* Sets of object types unified one after the other: those of the elements of an array, and
\* those of the documents of a sample
CollectTypes(sets) ==
    LET collected[i \in 0..Len(sets)] ==
            IF i = 0 THEN <<>>
            ELSE IF collected[i - 1] = <<>> THEN sets[i]
            ELSE UnifyObjectTypes(collected[i - 1], sets[i])
    IN  collected[Len(sets)]

\* A list of definitions turned into a map: the last of a name wins
Concatenated(sets) ==
    [n \in UNION {DOMAIN sets[i] : i \in DOMAIN sets} |->
        sets[CHOOSE i \in DOMAIN sets :
                n \in DOMAIN sets[i] /\ \A j \in DOMAIN sets : n \in DOMAIN sets[j] => j <= i][n]]

\* make_object_type, with what make_field_type makes of values
ObjectTypeOver(madeFieldType, name, doc, isCollectionType, allNullable) ==
    LET made == [i \in DOMAIN doc |-> madeFieldType[<<name \o doc[i].name, doc[i].value, allNullable>>]]
        FieldType(i) ==
            IF allNullable /\ ~(isCollectionType /\ doc[i].name = IdField)
            THEN MakeNullable(made[i].type) ELSE made[i].type
        fields == [f \in {doc[i].name : i \in DOMAIN doc} |->
                    FieldType(CHOOSE i \in DOMAIN doc : doc[i].name = f)]
    IN  Concatenated(Append([i \in DOMAIN doc |-> made[i].defs], [n \in {name} |-> fields]))

\* make_field_type
MadeFieldType[call \in Seq(STRING) \X Value \X BOOLEAN] ==
    LET name == call[1]
        v    == call[2]
        made == [i \in DOMAIN v[2] |-> MadeFieldType[<<name, v[2][i], call[3]>>]]
    IN  CASE v[1] = "scalar"   -> [defs |-> <<>>, type |-> Scalar(v[2])]
          [] v[1] = "document" ->
                [defs |-> ObjectTypeOver(MadeFieldType, name, v[2], FALSE, call[3]), type |-> Object(name)]
          [] v[1] = "array"    ->
                [defs |-> CollectTypes([i \in DOMAIN v[2] |-> made[i].defs]),
                 type |-> ArrayOf(UnifyTypes([i \in DOMAIN v[2] |-> made[i].type]))]

\* make_object_type, for a document of the collection
MakeObjectType(doc, allNullable) ==
    ObjectTypeOver(MadeFieldType, CollectionTypeName, doc, TRUE, allNullable)

\* The object types of a whole sample, in the order given
Collected(docs, allNullable) ==
    CollectTypes([i \in DOMAIN docs |-> MakeObjectType(docs[i], allNullable)])

------------------------------------------------------------------------------
VARIABLES
    allSchemaNullable,  \* the option of the update
    collectedTypes,     \* collected_object_types, <<>> before the first document
    result,             \* "sampling", or how sample_schema_from_collection returned
    sample              \* history: the documents read

vars == <<allSchemaNullable, collectedTypes, result, sample>>

Init ==
    /\ allSchemaNullable \in BOOLEAN
    /\ collectedTypes = <<>>
    /\ result = "sampling"
    /\ sample = <<>>

\* One turn of the loop over the cursor
NextDocument(doc) ==
    /\ result = "sampling"
    /\ Len(sample) < MaxSample
    /\ LET made == MakeObjectType(doc, allSchemaNullable)
       IN  collectedTypes' = IF collectedTypes = <<>> THEN made
                             ELSE UnifyObjectTypes(collectedTypes, made)
    /\ sample' = Append(sample, doc)
    /\ UNCHANGED <<allSchemaNullable, result>>

\* cursor.try_next() fails: the ? drops what was collected
CursorFails ==
    /\ result = "sampling"
    /\ result' = "error"
    /\ collectedTypes' = <<>>
    /\ UNCHANGED <<allSchemaNullable, sample>>

\* The cursor ends: None without a document, the schema otherwise
CursorEnds ==
    /\ result = "sampling"
    /\ result' = IF collectedTypes = <<>> THEN "none" ELSE "schema"
    /\ UNCHANGED <<allSchemaNullable, collectedTypes, sample>>

Next == (\E doc \in Documents : NextDocument(doc)) \/ CursorFails \/ CursorEnds

Spec == Init /\ [][Next]_vars

------------------------------------------------------------------------------
\* The documents sampled so far
Sampled == {sample[i] : i \in DOMAIN sample}

\* The fields of a document have the types of an object type's fields, those that it lacks
\* admit null
FieldsHave(has, doc, fields) ==
    /\ \A i \in DOMAIN doc : /\ doc[i].name \in DOMAIN fields
                             /\ has[<<doc[i].value, fields[doc[i].name]>>]
    /\ \A f \in DOMAIN fields : (\A i \in DOMAIN doc : doc[i].name # f) => AdmitsNull(fields[f])

\* What it means for a value to have a type, a normalized one, given the definitions of object
\* types: the reference the derived schema is checked against.
TypesHeld(types) ==
    LET has[p \in Value \X Type] ==
            LET v == p[1]
                t == IF IsNullable(p[2]) THEN Underlying(p[2]) ELSE p[2]
            IN  \/ p[2] = ExtendedJSON
                \/ IsNullable(p[2]) /\ v = <<"scalar", "null">>
                \/ /\ v[1] = "scalar" /\ IsScalar(t)
                   /\ CommonSupertypes(v[2], t.base[2]) = {t.base[2]}
                \/ /\ v[1] = "array" /\ IsArray(t)
                   /\ \A i \in DOMAIN v[2] : has[<<v[2][i], Underlying(t)>>]
                \/ /\ v[1] = "document" /\ IsNamed(t) /\ t.base[2] \in DOMAIN types
                   /\ FieldsHave(has, v[2], types[t.base[2]])
    IN  has
HasType(v, t, types)         == TypesHeld(types)[<<v, t>>]
HasFields(doc, fields, types) == FieldsHave(TypesHeld(types), doc, fields)

\* The order the comment of unify_type describes, on normalized types:
\* Undefined is the bottom, ExtendedJSON the top, Nullable(T) is above T and
\* above Null, arrays are ordered by their elements, scalars by supertype.
Ordered[p \in Type \X Type] ==
    LET a == p[1]
        b == p[2]
    IN  \/ a = b
        \/ a = Undefined
        \/ b = ExtendedJSON
        \/ a = NullType /\ IsNullable(b)
        \/ IsNullable(b) /\ ~IsNullable(a) /\ Ordered[<<a, Underlying(b)>>]
        \/ IsNullable(a) /\ IsNullable(b) /\ Ordered[<<Underlying(a), Underlying(b)>>]
        \/ IsNullable(a) /\ Underlying(a) = Undefined /\ b = NullType
        \/ IsArray(a) /\ IsArray(b) /\ Ordered[<<Underlying(a), Underlying(b)>>]
        \/ /\ IsScalar(a) /\ IsScalar(b)
           /\ CommonSupertypes(a.base[2], b.base[2]) = {b.base[2]}
Below(a, b) == Ordered[<<a, b>>]

\* The words of one name begin with those of another one
Extends(long, short) == Len(short) <= Len(long) /\ \A k \in DOMAIN short : long[k] = short[k]

\* A set of values, with all that they are made of, that a schema can describe: "undefined"
\* does not occur, as unify_type takes it for no information, and in no document a field's name
\* begins with the words of another's, as the object types of both can have the same name then.
Describable(S) ==
    /\ <<"scalar", "undefined">> \notin S
    /\ \A v \in S :
        /\ v[1] = "array" => \A i \in DOMAIN v[2] : v[2][i] \in S
        /\ v[1] = "document" =>
            /\ \A i \in DOMAIN v[2] : v[2][i].value \in S
            /\ \A i, j \in DOMAIN v[2] : Extends(v[2][i].name, v[2][j].name) => i = j

\* A field of type t may hold what the document has there, which may be nothing
AdmitsField(t, doc, f, types) ==
    LET held == {doc[i].value : i \in {j \in DOMAIN doc : doc[j].name = f}}
    IN  IF held = {} THEN AdmitsNull(t) ELSE \A v \in held : HasType(v, t, types)

\* Every document sampled so far conforms to the schema collected so far, whatever was
\* merged in between: data the connector has seen can be returned under the schema.
SampledDocumentsConform ==
    collectedTypes # <<>> =>
        \A i \in DOMAIN sample :
            HasFields(sample[i], collectedTypes[CollectionTypeName], collectedTypes)

\* The schema depends on the set of documents sampled, not on the order $sample returns
\* them in nor on how often it returns one.
OrderIndependent ==
    result \in {"sampling", "schema"} =>
        \A n \in 0..Len(sample) : \A docs \in [1..n -> Sampled] :
            {docs[i] : i \in 1..n} = Sampled => collectedTypes = Collected(docs, allSchemaNullable)

\* unify_type computes the least upper bound its comment announces: the type derived for
\* a field is below every type that admits all the sampled values, so introspection never
\* gives up more precision than the data forces it to.  Of object types, only the one named
\* for the field is compared: another field's may have the same fields, and admits as much.
LeastFieldTypes ==
    collectedTypes # <<>> /\ ~allSchemaNullable =>
        \A f \in DOMAIN collectedTypes[CollectionTypeName], t \in CandidateTypes :
            /\ RefersToObject(t) => ObjectNameOf(t) = CollectionTypeName \o f
            /\ \A i \in DOMAIN sample : AdmitsField(t, sample[i], f, collectedTypes)
            => Below(collectedTypes[CollectionTypeName][f], t)

\* Every object type a field refers to is defined in the schema.
ReferencesClosed ==
    \A n \in DOMAIN collectedTypes : \A f \in DOMAIN collectedTypes[n] :
        RefersToObject(collectedTypes[n][f]) => ObjectNameOf(collectedTypes[n][f]) \in DOMAIN collectedTypes

==============================================================================
