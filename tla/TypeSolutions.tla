---------------------------- MODULE TypeSolutions ----------------------------
(***************************************************************************)
(* From a constraint to a type (type_solver::constraint_to_type), and what *)
(* is kept of the object types that this adds (prune_object_types).        *)
(*                                                                         *)
(* added are the object types defined so far.  An operator returns those   *)
(* it leaves behind, a type or Null if too little is known, and an error   *)
(* or Null.                                                                *)
(***************************************************************************)
EXTENDS TypeSimplification

Solved(added, t)  == [added |-> added, t |-> t, error |-> Null]
Stuck(added, err) == [added |-> added, t |-> Null, error |-> err]

\* Type::normalize_type: no layer that admits null around one that does
Normalized(t) ==
    FoldRight(LAMBDA w, u : IF w = "array" THEN ArrayOf(u) ELSE MakeNullable(u), t.wrap, [t EXCEPT !.wrap = <<>>])

RECURSIVE ElementOf(_)
ElementOf(t) == CASE IsArray(t)    -> Normalized(Underlying(t))
                  [] IsNullable(t) -> LET e == ElementOf(Underlying(t)) IN IF e = Null THEN Null ELSE Normalized(Nullable(e))
                  [] t = ExtendedJSON -> t
                  [] OTHER         -> Null

RECURSIVE ToType(_, _, _, _), ObjectToType(_, _, _, _), FieldType(_, _, _, _, _), Override(_, _, _, _, _, _)

\* What is known of a type that is made of another one, f of it
Wrapped(r, f(_)) == IF r.t = Null THEN r ELSE [r EXCEPT !.t = f(@)]
NullableLayer(t) == Normalized(Nullable(t))

\* The types of named constraints in the order of their names; Null from the first that has none
AndType(acc, f, r) == IF r.t = Null THEN r ELSE [r EXCEPT !.t = (f :> @) @@ acc.t]
ToTypes(sol, types, added, fields) ==
    FoldLeft(LAMBDA acc, f : IF acc.t = Null THEN acc ELSE AndType(acc, f, ToType(sol, types, acc.added, fields[f])),
             Solved(added, <<>>), SortedNames(DOMAIN fields))

ElementsOf(r) ==
    IF r.t = Null THEN r ELSE IF ElementOf(r.t) = Null THEN Stuck(r.added, "ExpectedArray") ELSE Solved(r.added, ElementOf(r.t))
FieldOf(sol, types, target, path) ==
    IF target.t = Null THEN target ELSE FieldType(sol, types, target.added, target.t, path)
Overridden(sol, types, c, target, changed) ==
    IF changed.t = Null \/ target.t = Null THEN Stuck(changed.added, changed.error)
    ELSE Override(sol, types, changed.added, target.t, c, changed.t)
Kept(fields) == [n \in {m \in DOMAIN fields : fields[m] # Null} |-> fields[n]]
OverridesOf(sol, types, c, target) ==
    IF target.error # Null THEN target ELSE Overridden(sol, types, c, target, ToTypes(sol, types, target.added, Kept(c.fields)))

ToType(sol, types, added, c) ==
    CASE c.kind = "extendedJSON" -> Solved(added, ExtendedJSON)
      [] c.kind = "scalar"    -> Solved(added, Scalar(c.scalar))
      [] c.kind = "arrayOf"   -> Wrapped(ToType(sol, types, added, c.of), ArrayOf)
      [] c.kind \in {"object", "predicate"} ->
             Wrapped(ObjectToType(sol, types, added, c.name),
                     LAMBDA t : IF c.kind = "object" THEN Object(c.name) ELSE Predicate(c.name))
      [] c.kind = "variable"  -> Solved(added, IF c.var \in DOMAIN sol THEN sol[c.var] ELSE Null)
      [] c.kind = "elementOf" -> ElementsOf(ToType(sol, types, added, c.of))
      [] c.kind = "fieldOf"   -> FieldOf(sol, types, ToType(sol, types, added, c.target), c.path)
      [] c.kind = "union"     -> IF IsNullableC(c) THEN Wrapped(ToType(sol, types, added, NonNull(c.among)), Nullable)
                                 ELSE Solved(added, ExtendedJSON)
      [] c.kind = "oneOf"     -> Solved(added, IF IsNumeric(c) THEN Scalar("double") ELSE ExtendedJSON)
      [] c.kind = "withFieldOverrides" -> OverridesOf(sol, types, c, ToType(sol, types, added, c.target))

\* The fields of an object type, which is added with its types if it is not known
AddType(name, r) == IF r.t = Null THEN r ELSE [r EXCEPT !.added = (name :> r.t) @@ @]
ObjectToType(sol, types, added, name) ==
    IF name \in DOMAIN ObjectTypes THEN Solved(added, ObjectTypes[name])
    ELSE IF name \in DOMAIN added THEN Solved(added, added[name])
    ELSE IF name \notin DOMAIN types THEN Stuck(added, "UnknownObjectType")
    ELSE AddType(name, ToTypes(sol, types, added, types[name]))

FieldIn(sol, types, object, path) ==
    IF object.t = Null THEN object
    ELSE IF Head(path) \notin DOMAIN object.t THEN Stuck(object.added, "ObjectMissingField")
    ELSE IF Tail(path) = <<>> THEN Solved(object.added, Normalized(object.t[Head(path)]))
    ELSE FieldType(sol, types, object.added, object.t[Head(path)], Tail(path))
FieldType(sol, types, added, t, path) ==
    CASE IsNullable(t) -> Wrapped(FieldType(sol, types, added, Underlying(t), path), NullableLayer)
      [] t = ExtendedJSON -> Solved(added, t)
      [] IsNamed(t) /\ RefersToObject(t) -> FieldIn(sol, types, ObjectToType(sol, types, added, t.base[2]), path)
      [] OTHER -> Stuck(added, "ExpectedObject")

\* with_field_overrides: the type under its new name takes the place of what had that name
Without(fields, removed) == [n \in DOMAIN fields \ {m \in DOMAIN removed : removed[m] = Null} |-> fields[n]]
OverrideIn(c, object, changed) ==
    IF object.t = Null THEN object
    ELSE Solved((c.name :> Without(changed @@ object.t, c.fields)) @@ object.added, Object(c.name))
Override(sol, types, added, t, c, changed) ==
    CASE IsNullable(t) -> Wrapped(Override(sol, types, added, Underlying(t), c, changed), NullableLayer)
      [] t = ExtendedJSON -> Solved(added, t)
      [] IsNamed(t) /\ RefersToObject(t) -> OverrideIn(c, ObjectToType(sol, types, added, t.base[2]), changed)
      [] OTHER -> Stuck(added, "ExpectedObject")

-----------------------------------------------------------------------------
(* prune_object_types: what the types of the result refer to, by shorter   *)
(* names                                                                   *)

\* The object types a type refers to, itself or through others; the configured ones lead no further
RECURSIVE NamesIn(_, _)
NamesIn(added, t) ==
    IF t.base[1] \notin {"object", "predicate"} THEN {}
    ELSE {t.base[2]} \cup (IF t.base[2] \in DOMAIN ObjectTypes \/ t.base[2] \notin DOMAIN added THEN {}
                           ELSE UNION {NamesIn(added, added[t.base[2]][f]) : f \in DOMAIN added[t.base[2]]})

Renamed(old, new, t) == IF t.base[1] \in {"object", "predicate"} /\ t.base[2] = old THEN [t EXCEPT !.base[2] = new] ELSE t

\* The result of inference: the type of the documents, of each parameter, and the object types
Answer(result, params, types) == [result |-> result, params |-> params, types |-> types]

RenameType(a, old, new) ==
    Answer(Renamed(old, new, a.result), [p \in DOMAIN a.params |-> Renamed(old, new, a.params[p])],
           [n \in {IF m = old THEN new ELSE m : m \in DOMAIN a.types} |->
               LET fields == a.types[IF n = new THEN old ELSE n]
               IN  [f \in DOMAIN fields |-> Renamed(old, new, fields[f])]])

\* Mutant: the numbers stay in the names
KeepTypeNames(a) == a
SimplifyTypeNames(a) ==
    FoldLeft(LAMBDA b, name :
        LET simple == UniqueTypeName(DOMAIN ObjectTypes \cup DOMAIN b.types, RootOf(name))
        IN  IF CounterOf(simple) < CounterOf(name) THEN RenameType(b, name, simple) ELSE b,
        a, [p \in 1..Cardinality(DOMAIN a.types) |->
               CHOOSE n \in DOMAIN a.types : Cardinality({m \in DOMAIN a.types : NameLess(m, n)}) = p - 1])

\* Null if a type is referred to that nobody has defined
PruneObjectTypes(result, params, added) ==
    LET needed == NamesIn(added, result) \cup UNION {NamesIn(added, params[p]) : p \in DOMAIN params}
    IN  IF needed \ (DOMAIN ObjectTypes \cup DOMAIN added) # {} THEN Null
        ELSE SimplifyTypeNames(Answer(result, params, [n \in needed \cap DOMAIN added |-> added[n]]))
=============================================================================
