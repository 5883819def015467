-------------------------- MODULE TypeSimplification --------------------------
(***************************************************************************)
(* The simplification of a set of constraints (type_solver::simplify):     *)
(* every constraint by itself, then neighbours in pairs.                   *)
(*                                                                         *)
(* types are the object types that inference has made so far: merging two  *)
(* of them makes another, so every operator returns the types it leaves    *)
(* behind, next to what it finds and to the set of its errors.             *)
(***************************************************************************)
EXTENDS TypeConstraints

CONSTANT
    ObjectTypes     \* configuration.object_types: for each name its fields and their types

\* An error of simplification; a panic; the stack exhausted by a recursion that does not end
Errors == {"mismatch", "unreachable", "overflow"}
Found(types, out)    == [types |-> types, out |-> out, errs |-> {}]
Fails(types, errs)   == [types |-> types, out |-> Null, errs |-> errs]
Fatal(errs)          == errs \ {"mismatch"}
Mapped(found, f(_))  == [found EXCEPT !.out = f(found.out)]
After(acc, found, out) == [acc EXCEPT !.types = found.types, !.errs = @ \cup found.errs, !.out = out]

TheOnly(S)     == CHOOSE c \in S : TRUE
IsOnly(S)      == Cardinality(S) = 1
OneOrUnion(S)  == IF IsOnly(S) THEN TheOnly(S) ELSE UnionC(S)
OneOrOneOf(S)  == IF S = {} THEN Null ELSE IF IsOnly(S) THEN TheOnly(S) ELSE OneOfC(S)
ArrayOrNull(c) == IF c = Null THEN Null ELSE ArrayC(c)

\* What is common to two scalar types where a type may be used, must be given, or both
SolveScalar(variance, a, b) ==
    CASE variance = "covariant" ->
             IF IsSupertype(a, b) THEN ScalarC(a) ELSE IF IsSupertype(b, a) THEN ScalarC(b)
             ELSE UnionC({ScalarC(a), ScalarC(b)})
      [] variance = "contravariant" ->
             IF IsSupertype(a, b) THEN ScalarC(b) ELSE IF IsSupertype(b, a) THEN ScalarC(a) ELSE Null
      [] variance = "invariant" -> IF a = b THEN ScalarC(a) ELSE Null

FieldsOf(types, name) ==
    IF name \in DOMAIN ObjectTypes THEN [f \in DOMAIN ObjectTypes[name] |-> ConstraintOf(ObjectTypes[name][f])]
    ELSE types[name]

\* The type at a path of configured object types, which no nullable type may be on the way of
RECURSIVE ConfiguredField(_, _)
ConfiguredField(name, path) ==
    IF name \notin DOMAIN ObjectTypes \/ Head(path) \notin DOMAIN ObjectTypes[name] THEN Null
    ELSE LET t == ObjectTypes[name][Head(path)]
         IN  IF Tail(path) = <<>> THEN t
             ELSE IF IsNamed(t) /\ RefersToObject(t) THEN ConfiguredField(t.base[2], Tail(path)) ELSE Null

RECURSIVE Simplify(_, _, _, _), Single(_, _, _, _), Pair(_, _, _, _, _), Merge(_, _, _, _, _),
          Expand(_, _, _, _), ObjectField(_, _, _, _)

\* Each constraint by itself, then each with what the one before it has come to
AndSingle(acc, s)  == After(acc, s, acc.out \o (IF s.out = Null THEN <<>> ELSE s.out))
AndPair(acc, c, p) == After(acc, p, IF p.out = Null THEN Append(acc.out, c) ELSE Append(Front(acc.out), p.out))
Singles(types, subs, v, constraints) ==
    FoldLeft(LAMBDA acc, c : AndSingle(acc, Single(acc.types, subs, v, c)), Found(types, <<>>), constraints)
Coalesced(subs, v, found) ==
    FoldLeft(LAMBDA acc, c : IF acc.out = <<>> THEN [acc EXCEPT !.out = <<c>>]
                             ELSE AndPair(acc, c, Pair(acc.types, subs, v, Last(acc.out), c)),
             [found EXCEPT !.out = <<>>], found.out)

\* A sequence of constraints to a set of constraints
Simplify(types, subs, v, constraints) == Mapped(Coalesced(subs, v, Singles(types, subs, v, constraints)), ToSet)

\* Simplification where branches may exclude each other: their errors do not count
Counted(found) == [found EXCEPT !.errs = Fatal(@)]
Branches(types, subs, v, S) == Counted(Simplify(types, subs, v, Sorted(S)))

\* A constraint by itself: a sequence of constraints in its place
OrUnchanged(found, c) == IF found.errs = {} /\ found.out = Null THEN [found EXCEPT !.out = <<c>>] ELSE found
SingleField(subs, c, target) ==
    IF target.errs # {} THEN Fails(target.types, target.errs)
    ELSE IF Len(target.out) # 1 THEN Found(target.types, <<c>>)
    ELSE OrUnchanged(Expand(target.types, subs, target.out[1], c.path), c)
Single(types, subs, v, c) ==
    CASE c.kind = "variable" -> Found(types, IF c.var = v THEN <<>>
                                            ELSE IF c.var \in DOMAIN subs THEN Sorted(subs[c.var]) ELSE <<c>>)
      [] c.kind = "fieldOf"  -> SingleField(subs, c, Single(types, subs, v, c.target))
      [] c.kind \in {"union", "oneOf"} -> Mapped(Branches(types, subs, v, c.among), LAMBDA S : <<[c EXCEPT !.among = S]>>)
      [] OTHER -> Found(types, <<c>>)

\* Each branch of a union with b, up to one of which nothing can be said yet; each alternative with b
AndBranch(acc, p) == [After(acc, p, acc.out \cup ({p.out} \ {Null})) EXCEPT !.undecided = p.out = Null /\ p.errs = {}]
EachBranch(types, subs, v, S, b) ==
    FoldLeft(LAMBDA acc, c : IF acc.undecided THEN acc ELSE AndBranch(acc, Pair(acc.types, subs, v, b, c)),
             [types |-> types, out |-> {}, errs |-> {}, undecided |-> FALSE], Sorted(S))
AndAlternative(acc, p) == After(acc, p, acc.out \cup ({p.out} \ {Null}))
EachAlternative(types, subs, v, S, b) ==
    FoldLeft(LAMBDA acc, c : AndAlternative(acc, Pair(acc.types, subs, v, c, b)), Found(types, {}), Sorted(S))
FromBranches(subs, v, found) ==
    IF Fatal(found.errs) # {} \/ (found.out = {} /\ ~found.undecided) THEN Fails(found.types, found.errs)
    ELSE IF found.undecided THEN Found(found.types, Null)
    ELSE Mapped(Branches(found.types, subs, v, found.out), OneOrUnion)

FoundUnless(types, c, err) == IF c = Null THEN Fails(types, {err}) ELSE Found(types, c)
VarianceOf(v) == IF v = Null THEN "invariant" ELSE v.variance

\* Two different constraints in one, Null if nothing can be said yet
Pair(types, subs, v, a, b) ==
    IF a = b THEN Found(types, a)
    ELSE
    CASE "extendedJSON" \in {a.kind, b.kind} /\ VarianceOf(v) = "covariant" -> Found(types, AnyC)
      [] a.kind = "extendedJSON" /\ VarianceOf(v) = "contravariant" -> Found(types, b)
      [] b.kind = "extendedJSON" /\ VarianceOf(v) = "contravariant" -> Found(types, a)
      [] {a.kind, b.kind} = {"scalar"} ->
             FoundUnless(types, SolveScalar(VarianceOf(v), a.scalar, b.scalar), "mismatch")
      [] a.kind = "union" /\ b.kind # "extendedJSON" /\ VarianceOf(v) = "covariant" ->
             Mapped(Branches(types, subs, v, UnionOf(a, b).among), UnionC)
      [] {a.kind, b.kind} = {"union"} /\ VarianceOf(v) # "covariant" ->
             Found(types, IF a.among \cap b.among = {} THEN Null ELSE OneOrUnion(a.among \cap b.among))
      [] a.kind = "union" /\ b.kind \notin {"union", "extendedJSON"} /\ VarianceOf(v) = "contravariant" ->
             FromBranches(subs, v, EachBranch(types, subs, v, a.among, b))
      \* Where types must be equal, the arm that puts the union first and the arm that
      \* puts the alternatives first call each other until the stack is exhausted
      [] {a.kind, b.kind} = {"union", "oneOf"} /\ VarianceOf(v) = "invariant" -> Fails(types, {"overflow"})
      [] {a.kind, b.kind} = {"oneOf"} -> Found(types, OneOfC(a.among \cup b.among))
      [] a.kind = "oneOf" /\ b.kind \notin {"oneOf", "union"} /\ (b.kind = "extendedJSON" => VarianceOf(v) = "invariant") ->
             Mapped(Counted(EachAlternative(types, subs, v, a.among, b)), OneOrOneOf)
      [] /\ \/ a.kind # "union" /\ b.kind = "union" /\ (VarianceOf(v) = "invariant" => a.kind # "oneOf")
            \/ a.kind \notin {"union", "oneOf"} /\ b.kind = "oneOf"
         /\ a.kind = "extendedJSON" => VarianceOf(v) = "invariant" -> Pair(types, subs, v, b, a)
      [] {a.kind, b.kind} = {"object"}  -> Merge(types, subs, v, a.name, b.name)
      [] {a.kind, b.kind} = {"arrayOf"} -> Mapped(Pair(types, subs, v, a.of, b.of), ArrayOrNull)
      [] OTHER -> Found(types, Null)

\* A new object type for two: fields of one of them are nullable
AndField(acc, f, p) == After(acc, p, IF p.out = Null THEN Null ELSE (f :> p.out) @@ acc.out)
SharedFields(types, subs, v, fa, fb) ==
    FoldLeft(LAMBDA acc, f : IF acc.out = Null THEN acc ELSE AndField(acc, f, Counted(Pair(acc.types, subs, v, fa[f], fb[f]))),
             Found(types, <<>>), SortedNames(DOMAIN fa \cap DOMAIN fb))
\* Mutant: a field that one of two documents lacks is not nullable
OnlyInAsIs(f, g) == [n \in DOMAIN f \ DOMAIN g |-> f[n]]
OnlyIn(f, g) == [n \in DOMAIN f \ DOMAIN g |-> NullableC(f[n])]
MergedObject(name, fa, fb, shared) ==
    IF shared.out = Null THEN shared
    ELSE [shared EXCEPT !.types = (name :> (shared.out @@ OnlyIn(fa, fb) @@ OnlyIn(fb, fa))) @@ @, !.out = ObjectC(name)]
MergeFields(types, subs, v, name, fa, fb) == MergedObject(name, fa, fb, SharedFields(types, subs, v, fa, fb))
KnownTypes(types) == DOMAIN ObjectTypes \cup DOMAIN types
Merge(types, subs, v, a, b) ==
    IF {a, b} \ KnownTypes(types) # {} THEN Fails(types, {"unreachable"})
    ELSE MergeFields(types, subs, v, UniqueMergedName(KnownTypes(types), IF NameLess(b, a) THEN b ELSE a),
                     FieldsOf(types, a), FieldsOf(types, b))

\* The type of a field: a sequence of constraints, or Null if it cannot be told yet
AndVariant(acc, t, c, e) ==
    After(acc, e, acc.out \cup (IF e.out # Null /\ Len(e.out) <= 1 THEN ToSet(e.out) ELSE IF t.kind = "union" THEN {c} ELSE {}))
Variants(types, subs, t, path) ==
    FoldLeft(LAMBDA acc, c : AndVariant(acc, t, c, Expand(acc.types, subs, c, path)), Found(types, {}), Sorted(t.among))
FromVariants(t, found) ==
    IF found.errs # {} \/ (t.kind = "oneOf" /\ found.out = {}) THEN Fails(found.types, found.errs \cup {"mismatch"})
    ELSE [found EXCEPT !.out = <<IF t.kind = "oneOf" THEN OneOrUnion(@) ELSE UnionC(@)>>]
Expand(types, subs, t, path) ==
    CASE t.kind = "extendedJSON" -> Found(types, <<AnyC>>)
      [] t.kind = "object" -> ObjectField(types, subs, t.name, path)
      [] t.kind \in {"union", "oneOf"} -> FromVariants(t, Variants(types, subs, t, path))
      [] OTHER -> Found(types, Null)

BelowField(subs, path, field) ==
    IF field.errs # {} \/ path = <<>> THEN field
    ELSE IF Len(field.out) > 1 THEN Found(field.types, Null)
    ELSE IF field.out # <<>> /\ field.out[1].kind = "object" THEN ObjectField(field.types, subs, field.out[1].name, path)
    ELSE Fails(field.types, {"mismatch"})
ObjectField(types, subs, name, path) ==
    IF name \in DOMAIN ObjectTypes
    THEN IF ConfiguredField(name, path) = Null THEN Fails(types, {"mismatch"})
         ELSE Found(types, <<ConstraintOf(ConfiguredField(name, path))>>)
    ELSE IF name \notin DOMAIN types \/ Head(path) \notin DOMAIN types[name] THEN Fails(types, {"mismatch"})
    ELSE BelowField(subs, Tail(path), Single(types, subs, Null, types[name][Head(path)]))
=============================================================================
