---------------------------- MODULE MergeTraversal ----------------------------
(***************************************************************************)
(* The calls by which the update command merges a sampled schema into the  *)
(* configured one (cli/src/introspection/sampling/                         *)
(* keep_backward_compatible_changes.rs).                                   *)
(*                                                                         *)
(* Three functions call each other, on three maps they share: each object  *)
(* type is taken out of the configured and of the sampled ones when it is  *)
(* first come upon, and is accumulated when its fields are reconciled,     *)
(* which is where further object types are come upon.  Module SchemaMerge  *)
(* says at once what comes of it.                                          *)
(*                                                                         *)
(* The fields of an object type are reconciled in any order here, those of *)
(* the sample first in the code.                                           *)
(***************************************************************************)
EXTENDS SchemaMerge

CONSTANTS
    Schemas,    \* the schemas that may be configured
    Updates     \* the object types that may have been sampled

VARIABLES
    schema,         \* existing_collection
    sampled,        \* updated_object_types, as they came
    previous,       \* previously_defined_object_types, what is left of them
    updated,        \* updated_object_types, what is left of them
    accumulated,    \* accumulated_new_object_types
    called,         \* the name backward_compatible_helper is called with, {} if none
    calls           \* the calls of backward_compatible_object_type, the innermost last

vars == <<schema, sampled, previous, updated, accumulated, called, calls>>

\* A map without a key, and with one more
Without(map, key)    == [k \in DOMAIN map \ {key} |-> map[k]]
With(map, key, item) == [k \in DOMAIN map \cup {key} |-> IF k = key THEN item ELSE map[k]]

\* keep_backward_compatible_changes calls the helper with the type of the collection
Init ==
    /\ schema \in Schemas /\ sampled \in Updates
    /\ previous = schema.types /\ updated = sampled
    /\ accumulated = <<>>
    /\ called = {schema.type}
    /\ calls = <<>>

------------------------------------------------------------------------------
\* backward_compatible_helper.

\* The object type is already accumulated, or is nowhere: not defined, or the one of a call
\* that has not returned yet
NothingToTake(n) ==
    /\ n \in DOMAIN accumulated \/ n \notin DOMAIN previous \cup DOMAIN updated
    /\ UNCHANGED <<previous, updated, accumulated, calls>>

\* It is there on one side only
TakeOne(n) ==
    /\ n \notin DOMAIN accumulated
    /\ \/ n \in DOMAIN previous \ DOMAIN updated /\ accumulated' = With(accumulated, n, previous[n])
       \/ n \in DOMAIN updated \ DOMAIN previous /\ accumulated' = With(accumulated, n, updated[n])
    /\ previous' = Without(previous, n) /\ updated' = Without(updated, n)
    /\ UNCHANGED calls

\* It is there on both sides: backward_compatible_object_type is called
TakeBoth(n) ==
    /\ n \notin DOMAIN accumulated
    /\ n \in DOMAIN previous \cap DOMAIN updated
    /\ calls' = Append(calls, [name |-> n, existing |-> previous[n], updated |-> updated[n],
                               todo |-> DOMAIN previous[n].fields \cup DOMAIN updated[n].fields,
                               fields |-> <<>>])
    /\ previous' = Without(previous, n) /\ updated' = Without(updated, n)
    /\ UNCHANGED accumulated

BackwardCompatibleHelper ==
    \E n \in called :
        /\ NothingToTake(n) \/ TakeOne(n) \/ TakeBoth(n)
        /\ called' = {}
        /\ UNCHANGED <<schema, sampled>>

------------------------------------------------------------------------------
\* backward_compatible_object_type, in the innermost call.

InProgress == called = {} /\ calls # <<>>
Innermost  == calls[Len(calls)]

\* A field that both sides have, of object types on both: reconcile_types calls the helper
\* with the one of the sample
Refers(existing, new, f) ==
    /\ f \in DOMAIN existing.fields \cap DOMAIN new.fields
    /\ MeetsObjects(existing.fields[f].type, new.fields[f].type)

ReconciledField(existing, new, f) ==
    IF f \notin DOMAIN new.fields THEN existing.fields[f]
    ELSE IF f \notin DOMAIN existing.fields THEN new.fields[f]
    ELSE [type |-> ReconcileTypes(existing.fields[f].type, new.fields[f].type),
          desc |-> OrDescription(existing.desc, new.fields[f].desc)]

\* The call when one of its fields is reconciled
WithField(call, f) ==
    [call EXCEPT !.todo   = call.todo \ {f},
                 !.fields = With(call.fields, f, ReconciledField(call.existing, call.updated, f))]

\* One turn of the loop over the fields
ReconcileField ==
    /\ InProgress
    /\ \E f \in Innermost.todo :
        /\ calls' = [calls EXCEPT ![Len(calls)] = WithField(Innermost, f)]
        /\ called' = IF Refers(Innermost.existing, Innermost.updated, f)
                     THEN {ObjectNameOf(Innermost.updated.fields[f].type)} ELSE {}
    /\ UNCHANGED <<schema, sampled, previous, updated, accumulated>>

\* It returns, and the helper that called it accumulates the object type
ReturnObjectType ==
    /\ InProgress
    /\ Innermost.todo = {}
    /\ accumulated' = With(accumulated, Innermost.name,
                           [desc   |-> OrDescription(Innermost.existing.desc, Innermost.updated.desc),
                            fields |-> Innermost.fields])
    /\ calls' = SubSeq(calls, 1, Len(calls) - 1)
    /\ UNCHANGED <<schema, sampled, previous, updated, called>>

Next == BackwardCompatibleHelper \/ ReconcileField \/ ReturnObjectType

Spec == Init /\ [][Next]_vars

------------------------------------------------------------------------------
\* The helper that was called first has returned
Returned == called = {} /\ calls = <<>>

\* The schema that is returned is the one SchemaMerge says, whatever the order in which the
\* object types are come upon, whatever refers to a type that is still being merged, and
\* though no type is looked at twice.
MergesAtOnce ==
    Returned => [schema EXCEPT !.types = accumulated] = KeepBackwardCompatibleChanges(schema, sampled)

\* No object type is merged twice, nor while it is being merged
TakenOnce ==
    /\ \A i, j \in DOMAIN calls : calls[i].name = calls[j].name => i = j
    /\ \A i \in DOMAIN calls : calls[i].name \notin DOMAIN accumulated
=============================================================================
