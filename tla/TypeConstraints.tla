--------------------------- MODULE TypeConstraints ---------------------------
(***************************************************************************)
(* What type inference for native queries reasons with (the cli's          *)
(* native_query::type_constraint): type variables and constraints on them. *)
(* A constraint is a type that may refer to type variables, to elements    *)
(* and to fields of other types.  Constraints are kept in BTreeSets, whose *)
(* order decides which of them meet when they are simplified.              *)
(***************************************************************************)
EXTENDS SchemaTypes, Integers, FiniteSets, FiniteSetsExt, SequencesExt, TLC

CONSTANTS
    Null,
    Words       \* the words that names consist of, in the order of strings

\* The scalar types of the instance, in the order of BsonScalarType
ScalarTypes == <<"double", "int", "long", "string", "objectId", "bool", "null", "regex">>
NumericTypes    == {"double", "int", "long"}
ComparableTypes == ToSet(ScalarTypes) \ {"regex"}
IsSupertype(a, b) == a = b \/ (a = "double" /\ b = "int")

Var(id, variance) == [id |-> id, variance |-> variance]

Kinds == <<"extendedJSON", "scalar", "object", "arrayOf", "predicate", "union", "oneOf", "variable",
           "elementOf", "fieldOf", "withFieldOverrides">>
AnyC           == [kind |-> "extendedJSON"]
ScalarC(s)     == [kind |-> "scalar", scalar |-> s]
ObjectC(name)  == [kind |-> "object", name |-> name]
ArrayC(c)      == [kind |-> "arrayOf", of |-> c]
PredicateC(name) == [kind |-> "predicate", name |-> name]
UnionC(S)      == [kind |-> "union", among |-> S]
OneOfC(S)      == [kind |-> "oneOf", among |-> S]
VariableC(v)   == [kind |-> "variable", var |-> v]
ElementC(c)    == [kind |-> "elementOf", of |-> c]
FieldC(c, path) == [kind |-> "fieldOf", target |-> c, path |-> path]
\* fields: for each overridden field its constraint, or Null if it is removed
OverridesC(name, c, fields) ==
    [kind |-> "withFieldOverrides", name |-> name, target |-> c, fields |-> fields]

NullC      == ScalarC("null")
NumericC   == OneOfC({ScalarC(s) : s \in NumericTypes})
ComparableC == OneOfC({ScalarC(s) : s \in ComparableTypes})

UnionOf(a, b) == UnionC((IF a.kind = "union" THEN a.among ELSE {a}) \cup (IF b.kind = "union" THEN b.among ELSE {b}))
NullableC(c)  == IF c \in {AnyC, NullC} THEN c ELSE UnionOf(c, NullC)
IsNullableC(c) == c.kind = "union" /\ NullC \in c.among

\* What is left of a union without null: its only member, or a smaller union
NonNull(S) == LET rest == S \ {NullC} IN IF Cardinality(rest) = 1 THEN CHOOSE c \in rest : TRUE ELSE UnionC(rest)

\* map_nullable, for a callback that maps c to f[c]: the result of a union is always nullable
MapNullable(c, f(_)) == IF c.kind = "union" THEN UnionOf(f(NonNull(c.among)), NullC) ELSE f(c)

RECURSIVE IsNumeric(_)
IsNumeric(c) == \/ c.kind = "scalar" /\ c.scalar \in NumericTypes
                \/ c.kind \in {"oneOf", "union"} /\ \A d \in c.among : IsNumeric(d)

RECURSIVE Complexity(_)
Complexity(c) ==
    CASE c.kind \in {"extendedJSON", "scalar"} -> 0
      [] c.kind \in {"object", "predicate"}    -> 1
      [] c.kind = "variable"                   -> 2
      [] c.kind = "arrayOf"                    -> 1 + Complexity(c.of)
      [] c.kind \in {"union", "oneOf"}         -> 1 + MapThenSumSet(Complexity, c.among)
      [] c.kind = "elementOf"                  -> 2 + Complexity(c.of)
      [] c.kind = "fieldOf"                    -> 2 + Complexity(c.target) + Len(c.path)
      [] c.kind = "withFieldOverrides"         ->
             2 + Complexity(c.target)
               + MapThenSumSet(LAMBDA n : Complexity(c.fields[n]), {n \in DOMAIN c.fields : c.fields[n] # Null})

\* TypeConstraint::from(Type)
RECURSIVE ConstraintOf(_)
ConstraintOf(t) ==
    CASE IsNullable(t) -> NullableC(ConstraintOf(Underlying(t)))
      [] IsArray(t)    -> ArrayC(ConstraintOf(Underlying(t)))
      [] t = ExtendedJSON -> AnyC
      [] IsScalar(t)   -> ScalarC(t.base[2])
      [] OTHER         -> IF RefersToObject(t) THEN ObjectC(t.base[2]) ELSE PredicateC(t.base[2])

-----------------------------------------------------------------------------
(* The derived order of constraints.  Two overrides of one type under one  *)
(* name do not meet in a set, so their fields are not compared.            *)

Place(x, s) == CHOOSE i \in DOMAIN s : s[i] = x

Lexicographic(s, t, Less(_, _)) ==
    \E i \in 0..Len(s) : /\ i < Len(t)
                         /\ SubSeq(s, 1, i) = SubSeq(t, 1, i)
                         /\ i = Len(s) \/ Less(s[i + 1], t[i + 1])

WordLess(a, b) == Place(a, Words) < Place(b, Words)
NameLess(a, b) == Lexicographic(a, b, WordLess)

RECURSIVE Precedes(_, _), Sorted(_)
Precedes(a, b) ==
    IF a.kind # b.kind THEN Place(a.kind, Kinds) < Place(b.kind, Kinds)
    ELSE CASE a.kind = "extendedJSON" -> FALSE
           [] a.kind = "scalar"       -> Place(a.scalar, ScalarTypes) < Place(b.scalar, ScalarTypes)
           [] a.kind \in {"object", "predicate"} -> NameLess(a.name, b.name)
           [] a.kind \in {"arrayOf", "elementOf"} -> Precedes(a.of, b.of)
           [] a.kind \in {"union", "oneOf"} -> Lexicographic(Sorted(a.among), Sorted(b.among), Precedes)
           [] a.kind = "variable"     -> a.var.id < b.var.id
           [] a.kind = "fieldOf"      -> \/ Precedes(a.target, b.target)
                                         \/ a.target = b.target /\ NameLess(a.path, b.path)
           [] a.kind = "withFieldOverrides" -> \/ NameLess(a.name, b.name)
                                               \/ a.name = b.name /\ Precedes(a.target, b.target)
Sorted(S) == [p \in 1..Cardinality(S) |->
                 CHOOSE c \in S : Cardinality({d \in S : Precedes(d, c)}) = p - 1]

SortedNames(S) == [p \in 1..Cardinality(S) |->
                      CHOOSE c \in S : Cardinality({d \in S : WordLess(d, c)}) = p - 1]

-----------------------------------------------------------------------------
(* Names of object types, made unique by a number at their end             *)

Numerals == [i \in 1..9 |-> ToString(i)]

CounterOf(name) == IF Len(name) > 1 /\ Last(name) \in ToSet(Numerals) THEN Place(Last(name), Numerals) ELSE 0
RootOf(name)    == IF CounterOf(name) = 0 THEN name ELSE Front(name)

\* unique_type_name of the helpers: the name without its number, or the name with a greater one behind it
UniqueTypeName(taken, desired) ==
    LET name(i) == IF i = CounterOf(desired) THEN RootOf(desired) ELSE Append(desired, Numerals[i])
        free    == {i \in CounterOf(desired)..9 : name(i) \notin taken}
    IN  name(CHOOSE i \in free : \A j \in free : i <= j)

\* unique_type_name of the solver: the name, or the name with a number behind it
UniqueMergedName(taken, desired) ==
    LET name(i) == IF i = 0 THEN desired ELSE Append(desired, Numerals[i])
        free    == {i \in 0..9 : name(i) \notin taken}
    IN  name(CHOOSE i \in free : \A j \in free : i <= j)
=============================================================================
