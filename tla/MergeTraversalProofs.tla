------------------------ MODULE MergeTraversalProofs ------------------------
(***************************************************************************)
(* The recursive merge comes to what SchemaMerge says at once, for every   *)
(* configured and every sampled schema: however their object types refer   *)
(* to each other, and though each is looked at only once.                  *)
(***************************************************************************)
EXTENDS MergeTraversal, TLAPS

\* The names some object type has, those that were taken out of the maps, those that were or
\* are about to be, and those of the calls that have not returned
Defined     == DOMAIN schema.types \cup DOMAIN sampled
Taken       == Defined \ (DOMAIN previous \cup DOMAIN updated)
Reached     == (Taken \cup called) \cap Defined
BeingMerged == {calls[i].name : i \in DOMAIN calls}

\* What an object type is merged to
MergedType(P, U, n) ==
    IF n \notin DOMAIN U THEN P[n]
    ELSE IF n \notin DOMAIN P THEN U[n]
    ELSE BackwardCompatibleObjectType(P[n], U[n])

\* An object type is taken out of both maps at once, and what is left is as it came.
RestsAreAsTheyCame ==
    /\ DOMAIN previous \subseteq DOMAIN schema.types /\ DOMAIN updated \subseteq DOMAIN sampled
    /\ \A n \in DOMAIN previous : previous[n] = schema.types[n]
    /\ \A n \in DOMAIN updated : updated[n] = sampled[n]
    /\ DOMAIN previous \cap DOMAIN sampled \subseteq DOMAIN updated
    /\ DOMAIN updated \cap DOMAIN schema.types \subseteq DOMAIN previous

\* What was taken is accumulated or being merged.
TakenIsKept == Taken = DOMAIN accumulated \cup BeingMerged

\* The helper is called for the type of the collection and for what is followed from there.
OnlyFollowed ==
    /\ called = {} \/ \E n : called = {n}
    /\ Reached \subseteq Visited(schema.types, sampled, schema.type)
    /\ schema.type \in Defined => schema.type \in Reached

\* A call has reconciled some of its fields, and reached the object types they refer to.
CallSound(P, U, reached, call) ==
    LET all == DOMAIN P[call.name].fields \cup DOMAIN U[call.name].fields
    IN  /\ DOMAIN call = {"name", "existing", "updated", "todo", "fields"}
        /\ call.name \in DOMAIN P \cap DOMAIN U
        /\ call.existing = P[call.name] /\ call.updated = U[call.name]
        /\ call.todo \subseteq all
        /\ call.fields = [f \in all \ call.todo |-> ReconciledField(P[call.name], U[call.name], f)]
        /\ \A f \in all \ call.todo : Refers(P[call.name], U[call.name], f) =>
                {ObjectNameOf(U[call.name].fields[f].type)} \cap (DOMAIN P \cup DOMAIN U) \subseteq reached

CallsSound ==
    /\ \E S : calls \in Seq(S)
    /\ \A i \in DOMAIN calls : CallSound(schema.types, sampled, Reached, calls[i])

\* What is accumulated is merged, and the object types it refers to were reached.
AccumulatedSound ==
    /\ accumulated = [n \in DOMAIN accumulated |-> MergedType(schema.types, sampled, n)]
    /\ \A n \in DOMAIN accumulated :
            Followed(schema.types, sampled, n) \cap Defined \subseteq Reached

IInv ==
    /\ RestsAreAsTheyCame
    /\ TakenIsKept
    /\ TakenOnce
    /\ OnlyFollowed
    /\ CallsSound
    /\ AccumulatedSound

------------------------------------------------------------------------------
\* Lemmas about the merge and about stacks.

\* The root is visited, and what is followed from what is visited.
LEMMA VisitedGrows ==
    ASSUME NEW P, NEW U, NEW root
    PROVE  /\ root \in Visited(P, U, root)
           /\ \A n \in Visited(P, U, root) :
                Followed(P, U, n) \cap (DOMAIN P \cup DOMAIN U) \subseteq Visited(P, U, root)
BY DEF Visited

\* Nothing else is: a set that holds the root and what is followed from its members holds
\* all that is visited.
LEMMA VisitedLeast ==
    ASSUME NEW P, NEW U, NEW root, NEW S, S \subseteq {root} \cup DOMAIN P \cup DOMAIN U, root \in S,
           \A n \in S : Followed(P, U, n) \cap ({root} \cup DOMAIN P \cup DOMAIN U) \subseteq S
    PROVE  Visited(P, U, root) \subseteq S
BY DEF Visited

\* The merge of SchemaMerge, without its local definitions.
LEMMA MergeIs ==
    ASSUME NEW s, NEW U
    PROVE  KeepBackwardCompatibleChanges(s, U) =
                [s EXCEPT !.types = [n \in Visited(s.types, U, s.type) \cap (DOMAIN s.types \cup DOMAIN U) |->
                                        MergedType(s.types, U, n)]]
BY DEF KeepBackwardCompatibleChanges, MergedType

\* An object type whose fields are all reconciled is merged.
LEMMA MergedFieldByField ==
    ASSUME NEW existing, NEW new
    PROVE  [desc   |-> OrDescription(existing.desc, new.desc),
            fields |-> [f \in DOMAIN existing.fields \cup DOMAIN new.fields |->
                            ReconciledField(existing, new, f)]]
                = BackwardCompatibleObjectType(existing, new)
BY DEF BackwardCompatibleObjectType, ReconciledField

\* What is followed out of an object type is what its fields refer to.
LEMMA FollowedIsReferred ==
    ASSUME NEW P, NEW U, NEW n \in DOMAIN P \cap DOMAIN U
    PROVE  Followed(P, U, n) =
                {ObjectNameOf(U[n].fields[f].type) :
                    f \in {g \in DOMAIN P[n].fields \cap DOMAIN U[n].fields : Refers(P[n], U[n], g)}}
BY DEF Followed, Refers

\* A call is pushed.
LEMMA Pushed ==
    ASSUME NEW S, NEW s \in Seq(S), NEW x
    PROVE  LET t == Append(s, x)
           IN  /\ t \in Seq(S \cup {x})
               /\ DOMAIN t = DOMAIN s \cup {Len(s) + 1} /\ Len(s) + 1 \notin DOMAIN s
               /\ \A i \in DOMAIN s : t[i] = s[i]
               /\ t[Len(s) + 1] = x
<1>1. s \in Seq(S \cup {x})
  OBVIOUS
<1> QED
  BY <1>1

\* The last call is replaced, or popped.
LEMMA Popped ==
    ASSUME NEW S, NEW s \in Seq(S), s # <<>>
    PROVE  LET t == SubSeq(s, 1, Len(s) - 1)
           IN  /\ t \in Seq(S)
               /\ DOMAIN t = DOMAIN s \ {Len(s)} /\ Len(s) \in DOMAIN s
               /\ \A i \in DOMAIN t : t[i] = s[i]
OBVIOUS

LEMMA Replaced ==
    ASSUME NEW S, NEW s \in Seq(S), s # <<>>, NEW x
    PROVE  LET t == [s EXCEPT ![Len(s)] = x]
           IN  /\ t \in Seq(S \cup {x})
               /\ DOMAIN t = DOMAIN s /\ Len(s) \in DOMAIN s
               /\ \A i \in DOMAIN s \ {Len(s)} : t[i] = s[i]
               /\ t[Len(s)] = x
<1>1. s \in Seq(S \cup {x})
  OBVIOUS
<1> QED
  BY <1>1

------------------------------------------------------------------------------
\* The invariant.

\* It holds when the helper is called first.
LEMMA InitInvariant == Init => IInv
<1> SUFFICES ASSUME Init PROVE IInv
  OBVIOUS
<1>1. Taken = {} /\ BeingMerged = {} /\ DOMAIN accumulated = {} /\ DOMAIN calls = {}
  BY DEF Init, Taken, Defined, BeingMerged
<1>2. Reached = {schema.type} \cap Defined
  BY <1>1 DEF Init, Reached
<1>3. RestsAreAsTheyCame /\ TakenIsKept /\ TakenOnce
  BY <1>1 DEF Init, RestsAreAsTheyCame, TakenIsKept, TakenOnce
<1>4. OnlyFollowed
  BY <1>2, VisitedGrows DEF Init, OnlyFollowed
<1>5. CallsSound
  <2>1. calls \in Seq({})
    BY DEF Init
  <2> QED
    BY <1>1, <2>1 DEF CallsSound
<1>6. AccumulatedSound
  BY <1>1 DEF Init, AccumulatedSound
<1> QED
  BY <1>3, <1>4, <1>5, <1>6 DEF IInv

\* A call of the helper takes the object type it is called for, if it is still there, and
\* reaches nothing.
LEMMA HelperTakes ==
    ASSUME IInv, NEW n, called = {n}, called' = {}, UNCHANGED <<schema, sampled>>,
           previous' = Without(previous, n), updated' = Without(updated, n)
    PROVE  /\ Defined' = Defined /\ Taken' = Taken \cup ({n} \cap Defined) /\ Reached' = Reached
           /\ RestsAreAsTheyCame' /\ OnlyFollowed'
<1>1. /\ DOMAIN previous' = DOMAIN previous \ {n} /\ DOMAIN updated' = DOMAIN updated \ {n}
      /\ \A k \in DOMAIN previous' : previous'[k] = previous[k]
      /\ \A k \in DOMAIN updated' : updated'[k] = updated[k]
  BY DEF Without
<1>2. Defined' = Defined /\ Taken' = Taken \cup ({n} \cap Defined)
  BY <1>1 DEF Defined, Taken
<1>3. Reached' = Reached
  BY <1>2 DEF Reached
<1>4. RestsAreAsTheyCame'
  BY <1>1 DEF IInv, RestsAreAsTheyCame
<1>5. OnlyFollowed'
  BY <1>2, <1>3 DEF IInv, OnlyFollowed
<1> QED
  BY <1>2, <1>3, <1>4, <1>5

\* The helper preserves it where it finds nothing to take.
LEMMA NothingToTakeInvariant ==
    ASSUME IInv, NEW n, called = {n}, called' = {}, UNCHANGED <<schema, sampled>>, NothingToTake(n)
    PROVE  IInv'
<1>1. n \notin DOMAIN previous \cup DOMAIN updated
  BY DEF NothingToTake, IInv, TakenIsKept, Taken
<1>2. Defined' = Defined /\ Taken' = Taken /\ BeingMerged' = BeingMerged
  BY DEF NothingToTake, Defined, Taken, BeingMerged
<1>3. Reached' = Reached
  BY <1>1, <1>2 DEF Reached, Taken
<1>4. UNCHANGED <<schema, sampled, previous, updated, accumulated, calls>>
  BY DEF NothingToTake
<1>5. RestsAreAsTheyCame' /\ TakenIsKept' /\ TakenOnce'
  BY <1>2, <1>4 DEF IInv, RestsAreAsTheyCame, TakenIsKept, TakenOnce
<1>6. OnlyFollowed'
  BY <1>2, <1>3, <1>4 DEF IInv, OnlyFollowed
<1>7. CallsSound' /\ AccumulatedSound'
  BY <1>2, <1>3, <1>4 DEF IInv, CallsSound, AccumulatedSound
<1> QED
  BY <1>5, <1>6, <1>7 DEF IInv

\* An object type that is there on one side only is accumulated as it is.
LEMMA TakeOneInvariant ==
    ASSUME IInv, NEW n, called = {n}, called' = {}, UNCHANGED <<schema, sampled>>, TakeOne(n)
    PROVE  IInv'
<1>1. /\ Defined' = Defined /\ Taken' = Taken \cup ({n} \cap Defined) /\ Reached' = Reached
      /\ RestsAreAsTheyCame' /\ OnlyFollowed'
  BY HelperTakes DEF TakeOne
<1>2. /\ n \in Defined /\ n \notin Taken /\ BeingMerged' = BeingMerged
      /\ UNCHANGED <<schema, sampled, calls>>
  BY DEF TakeOne, IInv, RestsAreAsTheyCame, Defined, Taken, BeingMerged
<1>3. /\ ~(n \in DOMAIN schema.types /\ n \in DOMAIN sampled)
      /\ accumulated' = With(accumulated, n, MergedType(schema.types, sampled, n))
  BY DEF TakeOne, IInv, RestsAreAsTheyCame, MergedType
<1>4. /\ DOMAIN accumulated' = DOMAIN accumulated \cup {n}
      /\ accumulated' = [k \in DOMAIN accumulated' |-> accumulated'[k]]
      /\ \A k \in DOMAIN accumulated : k # n => accumulated'[k] = accumulated[k]
      /\ accumulated'[n] = MergedType(schema.types, sampled, n)
  BY <1>3 DEF With
<1>5. TakenIsKept'
  BY <1>1, <1>2, <1>4 DEF IInv, TakenIsKept
<1>6. TakenOnce'
  <2>1. \A i \in DOMAIN calls : calls[i].name # n
    BY <1>2 DEF IInv, TakenIsKept, BeingMerged
  <2> QED
    BY <2>1, <1>2, <1>4 DEF IInv, TakenOnce
<1>7. CallsSound'
  BY <1>1, <1>2 DEF IInv, CallsSound
<1>8. AccumulatedSound'
  <2>1. Followed(schema.types, sampled, n) = {}
    BY <1>3 DEF Followed
  <2>2. \A k \in DOMAIN accumulated : accumulated[k] = MergedType(schema.types, sampled, k)
    BY DEF IInv, AccumulatedSound
  <2>3. \A k \in DOMAIN accumulated' : accumulated'[k] = MergedType(schema.types, sampled, k)
    BY <1>4, <2>2
  <2>4. accumulated' = [k \in DOMAIN accumulated' |-> MergedType(schema.types, sampled, k)]
    BY <1>4, <2>3
  <2> QED
    BY <1>1, <1>2, <1>4, <2>1, <2>4 DEF IInv, AccumulatedSound
<1> QED
  BY <1>1, <1>5, <1>6, <1>7, <1>8 DEF IInv

\* Two object types begin to be merged.
LEMMA TakeBothInvariant ==
    ASSUME IInv, NEW n, called = {n}, called' = {}, UNCHANGED <<schema, sampled>>, TakeBoth(n)
    PROVE  IInv'
<1> DEFINE call == [name |-> n, existing |-> previous[n], updated |-> updated[n],
                    todo |-> DOMAIN previous[n].fields \cup DOMAIN updated[n].fields,
                    fields |-> <<>>]
<1>1. /\ Defined' = Defined /\ Taken' = Taken \cup ({n} \cap Defined) /\ Reached' = Reached
      /\ RestsAreAsTheyCame' /\ OnlyFollowed'
  BY HelperTakes DEF TakeBoth
<1>2. /\ n \in Defined /\ n \notin Taken /\ n \in DOMAIN schema.types \cap DOMAIN sampled
      /\ previous[n] = schema.types[n] /\ updated[n] = sampled[n]
      /\ UNCHANGED <<schema, sampled, accumulated>>
  BY DEF TakeBoth, IInv, RestsAreAsTheyCame, Defined, Taken
<1>3. PICK S : calls \in Seq(S)
  BY DEF IInv, CallsSound
<1>4. calls' = Append(calls, call)
  BY DEF TakeBoth
<1>5. /\ call.name = n /\ call.existing = schema.types[n] /\ call.updated = sampled[n]
      /\ call.todo = DOMAIN schema.types[n].fields \cup DOMAIN sampled[n].fields
      /\ call.fields = <<>> /\ DOMAIN call = {"name", "existing", "updated", "todo", "fields"}
  BY <1>2
<1> HIDE DEF call
<1>6. /\ calls' \in Seq(S \cup {call})
      /\ DOMAIN calls' = DOMAIN calls \cup {Len(calls) + 1} /\ Len(calls) + 1 \notin DOMAIN calls
      /\ \A i \in DOMAIN calls : calls'[i] = calls[i]
      /\ calls'[Len(calls) + 1] = call
  BY <1>3, <1>4, Pushed
<1>7. BeingMerged' = BeingMerged \cup {n}
  BY <1>5, <1>6 DEF BeingMerged
<1>8. TakenIsKept'
  BY <1>1, <1>2, <1>7 DEF IInv, TakenIsKept
<1>9. TakenOnce'
  <2>1. n \notin DOMAIN accumulated /\ \A i \in DOMAIN calls : calls[i].name # n
    BY <1>2 DEF IInv, TakenIsKept, BeingMerged
  <2> QED
    BY <2>1, <1>2, <1>5, <1>6 DEF IInv, TakenOnce
<1>10. CallSound(schema.types, sampled, Reached, call)
  <2>1. call.todo = DOMAIN schema.types[call.name].fields \cup DOMAIN sampled[call.name].fields
    BY <1>5
  <2>2. call.fields = [f \in {} |-> ReconciledField(schema.types[call.name], sampled[call.name], f)]
    BY <1>5
  <2> QED
    BY <1>2, <1>5, <2>1, <2>2 DEF CallSound
<1>11. CallsSound'
  <2>1. \A i \in DOMAIN calls : CallSound(schema.types, sampled, Reached, calls[i])
    BY DEF IInv, CallsSound
  <2>2. \A i \in DOMAIN calls' : CallSound(schema.types, sampled, Reached, calls'[i])
    BY <1>6, <1>10, <2>1
  <2> QED
    BY <1>1, <1>2, <1>6, <2>2 DEF CallsSound
<1>12. AccumulatedSound'
  BY <1>1, <1>2 DEF IInv, AccumulatedSound
<1> QED
  BY <1>1, <1>8, <1>9, <1>11, <1>12 DEF IInv

\* A field is reconciled, and an object type it may refer to is reached.
LEMMA ReconcileFieldInvariant == IInv /\ ReconcileField => IInv'
<1> SUFFICES ASSUME IInv, ReconcileField PROVE IInv'
  OBVIOUS
<1> DEFINE last == Len(calls)
           old  == schema.types[Innermost.name]
           new  == sampled[Innermost.name]
           all  == DOMAIN old.fields \cup DOMAIN new.fields
<1>1. PICK S : calls \in Seq(S)
  BY DEF IInv, CallsSound
<1>2. calls # <<>> /\ called = {} /\ last \in DOMAIN calls
  BY <1>1 DEF ReconcileField, InProgress
<1>3. CallSound(schema.types, sampled, Reached, Innermost)
  BY <1>2 DEF IInv, CallsSound, Innermost
<1>4. /\ DOMAIN Innermost = {"name", "existing", "updated", "todo", "fields"}
      /\ Innermost.name \in DOMAIN schema.types \cap DOMAIN sampled
      /\ Innermost.existing = old /\ Innermost.updated = new
      /\ Innermost.todo \subseteq all
      /\ Innermost.fields = [f \in all \ Innermost.todo |-> ReconciledField(old, new, f)]
      /\ \A f \in all \ Innermost.todo : Refers(old, new, f) =>
            {ObjectNameOf(new.fields[f].type)} \cap Defined \subseteq Reached
  BY <1>3 DEF CallSound, Defined
<1>5. PICK f \in Innermost.todo :
            /\ calls' = [calls EXCEPT ![last] =
                            [Innermost EXCEPT !.todo = Innermost.todo \ {f},
                                              !.fields = With(Innermost.fields, f, ReconciledField(old, new, f))]]
            /\ called' = IF Refers(old, new, f) THEN {ObjectNameOf(new.fields[f].type)} ELSE {}
  <2> HIDE DEF old, new, last
  <2>1. \E f \in Innermost.todo :
            /\ calls' = [calls EXCEPT ![last] = WithField(Innermost, f)]
            /\ called' = IF Refers(old, new, f) THEN {ObjectNameOf(new.fields[f].type)} ELSE {}
    BY <1>4 DEF ReconcileField, last
  <2>2. \A f : WithField(Innermost, f) =
            [Innermost EXCEPT !.todo = Innermost.todo \ {f},
                              !.fields = With(Innermost.fields, f, ReconciledField(old, new, f))]
    BY <1>4 DEF WithField
  <2> QED
    BY <2>1, <2>2
<1> DEFINE call == [Innermost EXCEPT !.todo = Innermost.todo \ {f},
                                     !.fields = With(Innermost.fields, f, ReconciledField(old, new, f))]
<1>6. /\ call.name = Innermost.name /\ call.existing = old /\ call.updated = new
      /\ call.todo = Innermost.todo \ {f}
      /\ call.fields = With(Innermost.fields, f, ReconciledField(old, new, f))
      /\ DOMAIN call = {"name", "existing", "updated", "todo", "fields"}
  BY <1>4
<1> HIDE DEF call
<1>7. /\ calls' \in Seq(S \cup {call})
      /\ DOMAIN calls' = DOMAIN calls
      /\ \A i \in DOMAIN calls \ {last} : calls'[i] = calls[i]
      /\ calls'[last] = call
  BY <1>1, <1>2, <1>5, Replaced DEF call
<1>8. UNCHANGED <<schema, sampled, previous, updated, accumulated>>
  BY DEF ReconcileField
<1>9. Defined' = Defined /\ Taken' = Taken /\ RestsAreAsTheyCame'
  BY <1>8 DEF Defined, Taken, IInv, RestsAreAsTheyCame
<1>10. Reached \subseteq Reached'
  BY <1>2, <1>9 DEF Reached
<1>11. \A i \in DOMAIN calls : calls'[i].name = calls[i].name
  BY <1>6, <1>7 DEF Innermost
<1>12. TakenIsKept' /\ TakenOnce'
  <2>1. BeingMerged' = BeingMerged
    BY <1>7, <1>11 DEF BeingMerged
  <2> QED
    BY <2>1, <1>7, <1>8, <1>9, <1>11 DEF IInv, TakenIsKept, TakenOnce
<1>13. \A m \in called' : Refers(old, new, f) /\ m = ObjectNameOf(new.fields[f].type)
  BY <1>5
<1>14. OnlyFollowed'
  <2>1. \A m \in called' : m \in Followed(schema.types, sampled, Innermost.name)
    <3>1. \A m \in called' : f \in DOMAIN old.fields \cap DOMAIN new.fields
      BY <1>13 DEF Refers
    <3> QED
      BY <1>4, <1>13, <3>1, FollowedIsReferred
  <2>2. Innermost.name \in Reached
    <3>1. Innermost.name \in BeingMerged
      BY <1>2 DEF BeingMerged, Innermost
    <3> QED
      BY <3>1 DEF IInv, TakenIsKept, Taken, Reached
  <2>3. called' \cap Defined \subseteq Visited(schema.types, sampled, schema.type)
    BY <2>1, <2>2, VisitedGrows DEF IInv, OnlyFollowed, Defined
  <2>4. Reached' \subseteq Reached \cup (called' \cap Defined)
    BY <1>2, <1>9 DEF Reached
  <2>5. called' = {} \/ \E m : called' = {m}
    BY <1>5
  <2> QED
    BY <1>8, <1>9, <1>10, <2>3, <2>4, <2>5 DEF IInv, OnlyFollowed
<1>15. CallSound(schema.types, sampled, Reached', call)
  <2>1. call.fields = [g \in all \ call.todo |-> ReconciledField(old, new, g)]
    <3>1. DOMAIN Innermost.fields \cup {f} = all \ call.todo
      BY <1>4, <1>6
    <3>2. \A g \in all \ call.todo : g # f => Innermost.fields[g] = ReconciledField(old, new, g)
      BY <1>4, <1>6
    <3> HIDE DEF old, new, all
    <3> QED
      BY <1>6, <3>1, <3>2 DEF With
  <2>2. ASSUME NEW g \in all \ call.todo, Refers(old, new, g)
        PROVE  {ObjectNameOf(new.fields[g].type)} \cap Defined \subseteq Reached'
    <3>1. CASE g = f
      BY <1>5, <1>9, <2>2, <3>1 DEF Reached
    <3>2. CASE g # f
      BY <1>4, <1>6, <1>10, <2>2, <3>2
    <3> QED
      BY <3>1, <3>2
  <2> QED
    BY <1>4, <1>6, <2>1, <2>2 DEF CallSound, Defined
<1>16. CallsSound'
  <2>1. ASSUME NEW i \in DOMAIN calls PROVE CallSound(schema.types, sampled, Reached', calls'[i])
    <3>1. CASE i = last
      BY <1>7, <1>15, <3>1
    <3>2. CASE i # last
      <4>1. CallSound(schema.types, sampled, Reached, calls[i])
        BY DEF IInv, CallsSound
      <4>2. CallSound(schema.types, sampled, Reached', calls[i])
        BY <4>1, <1>10 DEF CallSound
      <4> QED
        BY <1>7, <3>2, <4>2
    <3> QED
      BY <3>1, <3>2
  <2> QED
    BY <1>7, <1>8, <2>1 DEF CallsSound
<1>17. AccumulatedSound'
  BY <1>8, <1>9, <1>10 DEF IInv, AccumulatedSound
<1> QED
  BY <1>9, <1>12, <1>14, <1>16, <1>17 DEF IInv

\* An object type is merged when its fields are, and accumulated.
LEMMA ReturnObjectTypeInvariant == IInv /\ ReturnObjectType => IInv'
<1> SUFFICES ASSUME IInv, ReturnObjectType PROVE IInv'
  OBVIOUS
<1> DEFINE last == Len(calls)
           n    == Innermost.name
           old  == schema.types[n]
           new  == sampled[n]
           all  == DOMAIN old.fields \cup DOMAIN new.fields
<1>1. PICK S : calls \in Seq(S)
  BY DEF IInv, CallsSound
<1>2. calls # <<>> /\ called = {} /\ last \in DOMAIN calls
  BY <1>1 DEF ReturnObjectType, InProgress
<1>3. CallSound(schema.types, sampled, Reached, Innermost)
  BY <1>2 DEF IInv, CallsSound, Innermost
<1>4. /\ n \in DOMAIN schema.types \cap DOMAIN sampled
      /\ Innermost.existing = old /\ Innermost.updated = new
      /\ Innermost.fields = [f \in all |-> ReconciledField(old, new, f)]
      /\ \A f \in all : Refers(old, new, f) =>
            {ObjectNameOf(new.fields[f].type)} \cap Defined \subseteq Reached
  <2>1. Innermost.todo = {}
    BY DEF ReturnObjectType
  <2>2. all \ Innermost.todo = all
    BY <2>1
  <2> QED
    BY <1>3, <2>2 DEF CallSound, Defined
<1>5. accumulated' = With(accumulated, n, MergedType(schema.types, sampled, n))
  <2>1. accumulated' = With(accumulated, n, [desc |-> OrDescription(old.desc, new.desc), fields |-> Innermost.fields])
    BY <1>4 DEF ReturnObjectType
  <2>2. [desc |-> OrDescription(old.desc, new.desc), fields |-> Innermost.fields]
            = BackwardCompatibleObjectType(old, new)
    BY <1>4, MergedFieldByField
  <2> QED
    BY <1>4, <2>1, <2>2 DEF MergedType
<1>6. /\ calls' \in Seq(S)
      /\ DOMAIN calls' = DOMAIN calls \ {last}
      /\ \A i \in DOMAIN calls' : calls'[i] = calls[i]
  BY <1>1, <1>2, Popped DEF ReturnObjectType
<1>7. UNCHANGED <<schema, sampled, previous, updated, called>>
  BY DEF ReturnObjectType
<1>8. Defined' = Defined /\ Taken' = Taken /\ Reached' = Reached /\ RestsAreAsTheyCame' /\ OnlyFollowed'
  <2>1. Defined' = Defined /\ Taken' = Taken
    BY <1>7 DEF Defined, Taken
  <2>2. Reached' = Reached
    BY <1>7, <2>1 DEF Reached
  <2> QED
    BY <1>7, <2>1, <2>2 DEF IInv, RestsAreAsTheyCame, OnlyFollowed
<1>9. n \notin DOMAIN accumulated /\ \A i \in DOMAIN calls' : calls[i].name # n
  BY <1>2, <1>6 DEF IInv, TakenOnce, Innermost
<1>10. /\ DOMAIN accumulated' = DOMAIN accumulated \cup {n}
       /\ accumulated' = [k \in DOMAIN accumulated' |-> accumulated'[k]]
       /\ \A k \in DOMAIN accumulated : accumulated'[k] = accumulated[k]
       /\ accumulated'[n] = MergedType(schema.types, sampled, n)
  BY <1>5, <1>9 DEF With
<1>11. BeingMerged' = BeingMerged \ {n} /\ n \in BeingMerged
  BY <1>2, <1>6, <1>9 DEF BeingMerged, Innermost
<1>12. TakenIsKept'
  BY <1>8, <1>10, <1>11 DEF IInv, TakenIsKept
<1>13. TakenOnce'
  BY <1>6, <1>9, <1>10 DEF IInv, TakenOnce
<1>14. CallsSound'
  BY <1>6, <1>7, <1>8 DEF IInv, CallsSound
<1>15. AccumulatedSound'
  <2>1. Followed(schema.types, sampled, n) \cap Defined \subseteq Reached
    BY <1>4, FollowedIsReferred
  <2>2. \A k \in DOMAIN accumulated : accumulated[k] = MergedType(schema.types, sampled, k)
    BY DEF IInv, AccumulatedSound
  <2>3. \A k \in DOMAIN accumulated' : accumulated'[k] = MergedType(schema.types, sampled, k)
    BY <1>10, <2>2
  <2>4. accumulated' = [k \in DOMAIN accumulated' |-> MergedType(schema.types, sampled, k)]
    BY <1>10, <2>3
  <2> QED
    BY <1>7, <1>8, <1>10, <2>1, <2>4 DEF IInv, AccumulatedSound
<1> QED
  BY <1>8, <1>12, <1>13, <1>14, <1>15 DEF IInv

\* Every step preserves it.
LEMMA NextInvariant == IInv /\ [Next]_vars => IInv'
<1> SUFFICES ASSUME IInv, [Next]_vars PROVE IInv'
  OBVIOUS
<1>1. CASE BackwardCompatibleHelper
  <2>1. PICK n \in called : /\ NothingToTake(n) \/ TakeOne(n) \/ TakeBoth(n)
                            /\ called' = {} /\ UNCHANGED <<schema, sampled>>
    BY <1>1 DEF BackwardCompatibleHelper
  <2>2. called = {n}
    BY DEF IInv, OnlyFollowed
  <2> QED
    BY <2>1, <2>2, NothingToTakeInvariant, TakeOneInvariant, TakeBothInvariant
<1>2. CASE ReconcileField
  BY <1>2, ReconcileFieldInvariant
<1>3. CASE ReturnObjectType
  BY <1>3, ReturnObjectTypeInvariant
<1>4. CASE UNCHANGED vars
  <2>1. Defined' = Defined /\ Taken' = Taken /\ BeingMerged' = BeingMerged
    BY <1>4 DEF vars, Defined, Taken, BeingMerged
  <2>2. Reached' = Reached
    BY <1>4, <2>1 DEF vars, Reached
  <2> QED
    BY <1>4, <2>1, <2>2 DEF vars, IInv, RestsAreAsTheyCame, TakenIsKept, TakenOnce, OnlyFollowed,
                            CallsSound, AccumulatedSound
<1> QED
  BY <1>1, <1>2, <1>3, <1>4 DEF Next

\* When the first call has returned, what was taken is all that SchemaMerge visits.
LEMMA MergedWhenReturned == IInv => MergesAtOnce
<1> SUFFICES ASSUME IInv, Returned
             PROVE  [schema EXCEPT !.types = accumulated] = KeepBackwardCompatibleChanges(schema, sampled)
  BY DEF MergesAtOnce
<1> DEFINE P == schema.types
           U == sampled
           root == schema.type
<1>1. BeingMerged = {}
  BY DEF Returned, BeingMerged
<1>2. Reached = Taken /\ Taken = DOMAIN accumulated
  BY <1>1 DEF Returned, Reached, Taken, IInv, TakenIsKept
<1>3. Taken \subseteq Visited(P, U, root) \cap Defined /\ (root \in Defined => root \in Taken)
  BY <1>2 DEF IInv, OnlyFollowed, Taken
<1>4. Visited(P, U, root) \subseteq {root} \cup Taken
  <2>1. \A n \in Taken : Followed(P, U, n) \cap Defined \subseteq Taken
    BY <1>2 DEF IInv, AccumulatedSound
  <2>2. root \notin Taken => Followed(P, U, root) = {}
    BY <1>3 DEF Followed, Defined
  <2>3. \A n \in {root} \cup Taken : Followed(P, U, n) \cap ({root} \cup Defined) \subseteq {root} \cup Taken
    BY <2>1, <2>2
  <2>4. {root} \cup Taken \subseteq {root} \cup DOMAIN P \cup DOMAIN U
    BY DEF Taken, Defined
  <2>5. \A n \in {root} \cup Taken :
            Followed(P, U, n) \cap ({root} \cup DOMAIN P \cup DOMAIN U) \subseteq {root} \cup Taken
    BY <2>3 DEF Defined
  <2> HIDE DEF P, U, root
  <2> QED
    BY <2>4, <2>5, VisitedLeast
<1>5. Visited(P, U, root) \cap (DOMAIN P \cup DOMAIN U) = DOMAIN accumulated
  BY <1>2, <1>3, <1>4 DEF Defined
<1>6. accumulated = [n \in Visited(P, U, root) \cap (DOMAIN P \cup DOMAIN U) |-> MergedType(P, U, n)]
  BY <1>5 DEF IInv, AccumulatedSound
<1> QED
  BY <1>6, MergeIs

------------------------------------------------------------------------------
\* keep_backward_compatible_changes: the three functions return the merge of SchemaMerge.
THEOREM TraversalMerges == Spec => []MergesAtOnce
<1>1. Init => IInv
  BY InitInvariant
<1>2. IInv /\ [Next]_vars => IInv'
  BY NextInvariant
<1>3. IInv => MergesAtOnce
  BY MergedWhenReturned
<1> QED
  BY <1>1, <1>2, <1>3, PTL DEF Spec

\* backward_compatible_helper: no object type is merged twice, nor while it is being merged.
THEOREM TraversalTakesOnce == Spec => []TakenOnce
<1>1. Init => IInv
  BY InitInvariant
<1>2. IInv /\ [Next]_vars => IInv'
  BY NextInvariant
<1>3. IInv => TakenOnce
  BY DEF IInv
<1> QED
  BY <1>1, <1>2, <1>3, PTL DEF Spec
=============================================================================
