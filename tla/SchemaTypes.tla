----------------------------- MODULE SchemaTypes -----------------------------
(***************************************************************************)
(* The types of the connector's configuration (configuration::schema).     *)
(*                                                                         *)
(* A type is a base type under a sequence of wrappers, the outermost       *)
(* first: Nullable(ArrayOf(Int)) is [wrap |-> <<"nullable", "array">>,     *)
(* base |-> <<"scalar", "int">>].  A base is tagged, so that bases of      *)
(* different kinds can be compared.  The name of an object type, like the  *)
(* name of a field, is the sequence of the words "_" joins: a field "a_b"  *)
(* is <<"a", "b">>, and posts_a_b is <<"posts", "a", "b">> whether it was  *)
(* made for field a_b of posts or for field b of posts_a.                  *)
(***************************************************************************)
EXTENDS Sequences, Naturals

Wrapper == {"nullable", "array"}

\* Type::Scalar, Type::Object, Type::Predicate and Type::ExtendedJSON
Scalar(s)       == [wrap |-> <<>>, base |-> <<"scalar", s>>]
Object(name)    == [wrap |-> <<>>, base |-> <<"object", name>>]
Predicate(name) == [wrap |-> <<>>, base |-> <<"predicate", name>>]
ExtendedJSON    == [wrap |-> <<>>, base |-> <<"ejson", "">>]

\* Type::Nullable and Type::ArrayOf: one more wrapper outside
Nullable(t) == [t EXCEPT !.wrap = <<"nullable">> \o t.wrap]
ArrayOf(t)  == [t EXCEPT !.wrap = <<"array">> \o t.wrap]

\* The type under the outermost wrapper
Underlying(t) == [t EXCEPT !.wrap = Tail(t.wrap)]

IsNullable(t) == t.wrap # <<>> /\ Head(t.wrap) = "nullable"
IsArray(t)    == t.wrap # <<>> /\ Head(t.wrap) = "array"
IsScalar(t)   == t.wrap = <<>> /\ t.base[1] = "scalar"
IsNamed(t)    == t.wrap = <<>> /\ t.base[1] \in {"object", "predicate"}

Undefined == Scalar("undefined")
NullType  == Scalar("null")

\* Type::make_nullable: ExtendedJSON and Null already admit null
MakeNullable(t) ==
    IF t \in {ExtendedJSON, NullType} \/ IsNullable(t) THEN t ELSE Nullable(t)

\* The types a base occurs in the definition of: a type refers to an object type
\* through its base alone, whatever wraps it.
RefersToObject(t)  == t.base[1] = "object"
ObjectNameOf(t)    == t.base[2]

\* The number of array wrappers, the nesting depth nullability does not count in
ArrayDepth(t) == Len(SelectSeq(t.wrap, LAMBDA w : w = "array"))

\* The wrappers and the base of a type are of the right kind
IsType(t, ScalarNames, ObjectNames) ==
    /\ t.wrap \in Seq(Wrapper)
    /\ \/ t.base[1] = "scalar" /\ t.base[2] \in ScalarNames
       \/ t.base[1] \in {"object", "predicate"} /\ t.base[2] \in ObjectNames
       \/ t.base = ExtendedJSON.base
==============================================================================
