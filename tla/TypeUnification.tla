--------------------------- MODULE TypeUnification ---------------------------
(***************************************************************************)
(* The unification of types the CLI uses to derive one schema from many    *)
(* sample documents (cli/src/introspection/type_unification.rs).  The      *)
(* functions are recursive, on types and on pairs of types.                *)
(***************************************************************************)
EXTENDS SchemaTypes

\* BsonScalarType, by the names of bson_name
BsonScalarTypes ==
    {"double", "decimal", "int", "long", "string", "date", "timestamp", "uuid", "binData", "objectId", "bool",
     "null", "regex", "javascript", "javascriptWithScope", "minKey", "maxKey", "undefined", "dbPointer", "symbol"}

\* All types: an ExtendedJSON may have wrappers too, until it is normalized
Bases == ({"scalar"} \X BsonScalarTypes) \cup ({"object", "predicate"} \X Seq(STRING)) \cup {ExtendedJSON.base}
Type  == [wrap : Seq(Wrapper), base : Bases]

\* The types that make_nullable leaves as they are
AdmitsNull(t) == t \in {ExtendedJSON, NullType} \/ IsNullable(t)

\* BsonScalarType::is_binary
Binary == {"binData", "uuid"}

\* BsonScalarType::common_supertype, {} standing for None
CommonSupertypes(a, b) ==
    IF a = b THEN {a}
    ELSE IF {a, b} \subseteq Binary THEN {"binData"}
    ELSE IF {a, b} = {"double", "int"} THEN {"double"}
    ELSE {}

\* Type::normalize_type
Normalized[t \in Type] ==
    IF IsArray(t) THEN ArrayOf(Normalized[Underlying(t)])
    ELSE IF ~IsNullable(t) THEN t
    ELSE LET inner == Underlying(t)
         IN  IF inner \in {ExtendedJSON, NullType} THEN inner
             ELSE IF IsNullable(inner) THEN Normalized[inner]
             ELSE Nullable(Normalized[inner])
NormalizeType(t) == Normalized[t]

\* unify_type: the arms of the match, in their order
Unified[pair \in Type \X Type] ==
    LET a == pair[1]
        b == pair[2]
        unified ==
            IF ExtendedJSON \in {a, b} THEN ExtendedJSON
            ELSE IF a = Undefined THEN b
            ELSE IF b = Undefined THEN a
            ELSE IF IsNullable(a) THEN MakeNullable(Unified[<<Underlying(a), b>>])
            ELSE IF IsNullable(b) THEN MakeNullable(Unified[<<a, Underlying(b)>>])
            ELSE IF a = NullType THEN MakeNullable(b)
            ELSE IF b = NullType THEN MakeNullable(a)
            ELSE IF IsScalar(a) /\ IsScalar(b)
                 THEN LET super == CommonSupertypes(a.base[2], b.base[2])
                      IN  IF super = {} THEN ExtendedJSON
                          ELSE Scalar(CHOOSE s \in super : TRUE)
            ELSE IF IsNamed(a) /\ a = b THEN a
            ELSE IF IsArray(a) /\ IsArray(b)
                 THEN ArrayOf(Unified[<<Underlying(a), Underlying(b)>>])
            ELSE ExtendedJSON
    IN  NormalizeType(unified)
UnifyType(a, b) == Unified[<<a, b>>]

\* Mutants of UnifyObjectType: a field of one side stays as it is, or every field becomes
\* nullable.
UnifyObjectTypeRequired(a, b) ==
    [f \in DOMAIN a \cup DOMAIN b |->
        IF f \notin DOMAIN b THEN a[f]
        ELSE IF f \notin DOMAIN a THEN b[f]
        ELSE UnifyType(a[f], b[f])]
UnifyObjectTypeNullable(a, b) ==
    [f \in DOMAIN a \cup DOMAIN b |->
        IF f \notin DOMAIN b THEN MakeNullable(a[f])
        ELSE IF f \notin DOMAIN a THEN MakeNullable(b[f])
        ELSE MakeNullable(UnifyType(a[f], b[f]))]

\* unify_object_type: a field on one side only becomes nullable
UnifyObjectType(a, b) ==
    [f \in DOMAIN a \cup DOMAIN b |->
        IF f \notin DOMAIN b THEN MakeNullable(a[f])
        ELSE IF f \notin DOMAIN a THEN MakeNullable(b[f])
        ELSE UnifyType(a[f], b[f])]

\* Mutants of UnifyObjectTypes: the first definition of a type wins; only the types both
\* sides define are kept.
UnifyObjectTypesFirstWins(a, b) ==
    [n \in DOMAIN a \cup DOMAIN b |-> IF n \in DOMAIN a THEN a[n] ELSE b[n]]
UnifyObjectTypesCommon(a, b) ==
    [n \in DOMAIN a \cap DOMAIN b |-> UnifyObjectType(a[n], b[n])]

\* unify_object_types: a type on one side only is unchanged
UnifyObjectTypes(a, b) ==
    [n \in DOMAIN a \cup DOMAIN b |->
        IF n \notin DOMAIN b THEN a[n]
        ELSE IF n \notin DOMAIN a THEN b[n]
        ELSE UnifyObjectType(a[n], b[n])]
==============================================================================
