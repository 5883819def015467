----------------------------- MODULE SchemaMerge -----------------------------
(***************************************************************************)
(* How re-introspection merges a freshly sampled schema into the one that  *)
(* is configured (cli/src/introspection/sampling/                          *)
(* keep_backward_compatible_changes.rs).                                   *)
(*                                                                         *)
(* A field is [type, desc], an object type [desc, fields], fields being a  *)
(* function from field names; a set of object types is a function from     *)
(* type names, and the schema of one collection is [type, desc, types]:    *)
(* the name of its object type, its description, its object types.         *)
(***************************************************************************)
EXTENDS SchemaTypes

CONSTANT NoDescription

IsField(f) == DOMAIN f = {"type", "desc"} /\ DOMAIN f.type = {"wrap", "base"}
IsObjectTypes(types) ==
    \A n \in DOMAIN types :
        /\ n \in Seq(STRING) /\ DOMAIN types[n] = {"desc", "fields"}
        /\ \A f \in DOMAIN types[n].fields : IsField(types[n].fields[f])
IsSchema(s) ==
    DOMAIN s = {"type", "desc", "types"} /\ s.type \in Seq(STRING) /\ IsObjectTypes(s.types)

\* Option::or
OrDescription(a, b) == IF a = NoDescription THEN b ELSE a

\* reconcile_types descends through the array wrappers of both types, keeping the
\* nullability of the existing one and dropping that of the updated one, and meets two
\* object types exactly here.
MeetsObjects(existing, updated) ==
    /\ RefersToObject(existing) /\ RefersToObject(updated)
    /\ ArrayDepth(existing) = ArrayDepth(updated)

\* Mutant of ReconcileTypes: the merged type is wrapped once more
ReconcileTypesNullable(existing, updated) ==
    IF MeetsObjects(existing, updated)
    THEN [existing EXCEPT !.base = updated.base]
    ELSE Nullable(existing)

\* reconcile_types: the existing type, naming the updated object type where both are
ReconcileTypes(existing, updated) ==
    IF MeetsObjects(existing, updated)
    THEN [existing EXCEPT !.base = updated.base]
    ELSE existing

\* The object types reconcile_types calls backward_compatible_helper for, out of the
\* object type named n
Followed(previous, updated, n) ==
    IF n \in DOMAIN previous /\ n \in DOMAIN updated
    THEN LET old == previous[n].fields
             new == updated[n].fields
         IN  {ObjectNameOf(new[f].type) :
                f \in {g \in DOMAIN old \cap DOMAIN new :
                            MeetsObjects(old[g].type, new[g].type)}}
    ELSE {}

\* The names backward_compatible_helper is called with, from the collection's type on:
\* the least set that holds the root and what is followed out of its members.  The
\* helper takes each name out of both maps the first time, so the order of the calls
\* does not matter.
Visited(previous, updated, root) ==
    LET names == {root} \cup DOMAIN previous \cup DOMAIN updated
        Closed(S) == \A n \in S : Followed(previous, updated, n) \cap names \subseteq S
    IN  {n \in names : \A S \in SUBSET names : root \in S /\ Closed(S) => n \in S}

\* Mutant of BackwardCompatibleObjectType: only the configured fields are considered
BackwardCompatibleExisting(existing, updated) ==
    [desc   |-> OrDescription(existing.desc, updated.desc),
     fields |-> existing.fields]

\* backward_compatible_object_type.  A field both sides have is given the description of
\* the existing OBJECT TYPE where that has one.
BackwardCompatibleObjectType(existing, updated) ==
    LET old == existing.fields
        new == updated.fields
        Field(f) ==
            IF f \notin DOMAIN new THEN old[f]
            ELSE IF f \notin DOMAIN old THEN new[f]
            ELSE [type |-> ReconcileTypes(old[f].type, new[f].type),
                  desc |-> OrDescription(existing.desc, new[f].desc)]
    IN  [desc   |-> OrDescription(existing.desc, updated.desc),
         fields |-> [f \in DOMAIN old \cup DOMAIN new |-> Field(f)]]

\* keep_backward_compatible_changes: only the visited object types are accumulated
KeepBackwardCompatibleChanges(existing, updated) ==
    LET previous == existing.types
        visited  == Visited(previous, updated, existing.type)
                        \cap (DOMAIN previous \cup DOMAIN updated)
        Merged(n) ==
            IF n \notin DOMAIN updated THEN previous[n]
            ELSE IF n \notin DOMAIN previous THEN updated[n]
            ELSE BackwardCompatibleObjectType(previous[n], updated[n])
    IN  [existing EXCEPT !.types = [n \in visited |-> Merged(n)]]

------------------------------------------------------------------------------
\* Vocabulary of the properties.

\* The fields of the collection's own object type, the top level of its documents
TopFields(schema) ==
    IF schema.type \in DOMAIN schema.types THEN schema.types[schema.type].fields ELSE <<>>

\* The same type up to the name of the object type it refers to
SameShape(t, u) == t.wrap = u.wrap /\ t.base[1] = u.base[1]

\* A schema that keeps what another one configures at the top level: no field lost, no
\* type changed but for the object type it names.
KeepsTopLevel(old, new) ==
    /\ new.type = old.type /\ new.desc = old.desc
    /\ \A f \in DOMAIN TopFields(old) :
            /\ f \in DOMAIN TopFields(new)
            /\ SameShape(TopFields(old)[f].type, TopFields(new)[f].type)
            /\ ~RefersToObject(TopFields(old)[f].type)
                    => TopFields(new)[f].type = TopFields(old)[f].type
==============================================================================
