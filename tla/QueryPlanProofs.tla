--------------------------- MODULE QueryPlanProofs ---------------------------
(***************************************************************************)
(* The registry of joins, for any relationships, fields and predicates and *)
(* for scopes nested and references repeated as often as one likes.        *)
(*                                                                         *)
(* Of keys that are generated it is used that no relationship has such a   *)
(* name: they are pairs <<name, count>>, for "{name}_{count}".             *)
(***************************************************************************)
EXTENDS QueryPlanState, SequenceTheorems, TLAPS

\* A join is at the end of a non-empty place, and has the name of the last key on it
IsMap(m) == \A p \in DOMAIN m : /\ p \in Seq(Keys) /\ p # <<>>
                                /\ m[p].name = p[Len(p)][1]
                                /\ IsFields(m[p].query.fields)

IsUse(u) == /\ DOMAIN u = {"at", "key", "kind", "need"}
            /\ u.at \in Seq(Keys) /\ u.key \in Keys
            /\ DOMAIN u.need \subseteq Seq(Keys) /\ u.need[<<>>].name \in Relationships

IsQueryRecord(q) ==
    /\ DOMAIN q = {"aggregates", "fields", "groups", "limit", "order_by", "predicate", "scope"}
    /\ IsFields(q.fields)

IsFrame(f) ==
    /\ DOMAIN f = {"kind", "name", "arguments", "query", "relationships", "uses", "phase", "into", "rest"}
    /\ f.kind \in {"field", "exists", "path"} => f.name \in Relationships
    /\ IsQueryRecord(f.query)
    /\ IsMap(f.relationships)
    /\ \A u \in f.uses : IsUse(u)

StackSound ==
    /\ frames \in Seq({frames[i] : i \in DOMAIN frames}) /\ frames # <<>>
    /\ frames[1].kind = "query"
    /\ \A i \in DOMAIN frames : IsFrame(frames[i])
    /\ relationship_name_counter \in Nat /\ scope_name_counter \in Nat

\* A key that was made unique has a number that is not given out again
KeysFresh ==
    /\ \A i \in DOMAIN frames : \A p \in DOMAIN frames[i].relationships :
           Len(p[1]) = 2 => p[1][2] \in 0 .. relationship_name_counter - 1
    /\ \A k \in DOMAIN unrelated_joins : k[3] \in 0 .. relationship_name_counter - 1

\* The scopes that were named: those of the joins of a scope
JoinScopes(f) == {f.relationships[p].query.scope : p \in DOMAIN f.relationships} \ {None}

\* A scope is given to one join, in the scope it is planned in or in one around it.  While it
\* is being planned no join has it yet.
ScopesSound ==
    /\ \A o \in Owners : JoinScopes(ScopeOf(o)) \subseteq 0 .. scope_name_counter - 1
    /\ \A i \in DOMAIN frames : frames[i].query.scope # None =>
           /\ frames[i].query.scope \in 0 .. scope_name_counter - 1
           /\ \A j \in DOMAIN frames : frames[j].query.scope = frames[i].query.scope => i = j
           /\ \A o \in Owners : frames[i].query.scope \notin JoinScopes(ScopeOf(o))

IInv ==
    /\ StackSound
    /\ KeysFresh
    /\ ScopesSound
    /\ UsesCovered
    /\ ScopesUnique
    /\ SeparateOnlyIfIncompatible

-----------------------------------------------------------------------------
(* What unification does to fields, queries and joins                      *)

\* Selecting the same is reflexive
LEMMA SameFieldReflexive == ASSUME NEW a PROVE SameField(a, a)
BY DEF SameField

\* ... and transitive
LEMMA SameFieldTransitive ==
    ASSUME NEW a, NEW b, NEW c, SameField(a, b), SameField(b, c)
    PROVE  SameField(a, c)
BY DEF SameField

\* A column that was unified selects the column of both, a relationship the key of both, and
\* it goes together only with what goes together with both
LEMMA FieldUnified ==
    ASSUME NEW a \in Field, NEW b \in Field, SameField(a, b)
    PROVE  /\ UnifyField(a, b) \in Field
           /\ SameField(UnifyField(a, b), a) /\ SameField(UnifyField(a, b), b)
           /\ \A c : SameField(UnifyField(a, b), c) => SameField(a, c) /\ SameField(b, c)
<1>1. CASE "column" \in DOMAIN a
  <2>1. "column" \in DOMAIN b
    BY <1>1 DEF SameField
  <2>2. a.column = b.column
    BY <1>1, <2>1 DEF SameField
  <2>3. /\ a \in [column : FieldNames, nested : {None} \cup SUBSET NestedNames]
        /\ b \in [column : FieldNames, nested : {None} \cup SUBSET NestedNames]
    BY <1>1, <2>1 DEF Field
  <2> DEFINE nested == UnifyNested(a.nested, b.nested)
  <2>4. nested \in {None} \cup SUBSET NestedNames
    BY <2>3 DEF UnifyNested
  <2>5. UnifyField(a, b) = [column |-> a.column, nested |-> nested]
    BY <1>1 DEF UnifyField, Column
  <2> HIDE DEF nested
  <2>6. UnifyField(a, b) \in [column : FieldNames, nested : {None} \cup SUBSET NestedNames]
    BY <2>3, <2>4, <2>5
  <2>7. "column" \in DOMAIN UnifyField(a, b) /\ UnifyField(a, b).column = a.column
    BY <2>5
  <2>8. SameField(UnifyField(a, b), a) /\ SameField(UnifyField(a, b), b)
    BY <1>1, <2>1, <2>2, <2>7 DEF SameField
  <2>9. ASSUME NEW c, SameField(UnifyField(a, b), c) PROVE SameField(a, c) /\ SameField(b, c)
    <3>1. SameField(a, UnifyField(a, b)) /\ SameField(b, UnifyField(a, b))
      BY <2>8 DEF SameField
    <3> QED
      BY <2>9, <3>1, SameFieldTransitive
  <2> QED
    BY <2>6, <2>8, <2>9 DEF Field
<1>2. CASE "column" \notin DOMAIN a
  BY <1>2 DEF SameField, UnifyField
<1> QED
  BY <1>1, <1>2

\* The fields of two references that agree, unified: both are still there
LEMMA FieldsUnified ==
    ASSUME NEW f, NEW g, IsFields(f), IsFields(g), FieldsAgree(f, g)
    PROVE  /\ IsFields(UnifyFields(f, g))
           /\ CoversFields(UnifyFields(f, g), f) /\ CoversFields(UnifyFields(f, g), g)
           /\ \A h : FieldsAgree(UnifyFields(f, g), h) => FieldsAgree(f, h) /\ FieldsAgree(g, h)
<1> DEFINE u == UnifyFields(f, g)
<1>1. CASE f = None
  BY <1>1, SameFieldReflexive DEF UnifyFields, CoversFields, FieldsAgree
<1>2. CASE f # None /\ g = None
  BY <1>2, SameFieldReflexive DEF UnifyFields, CoversFields, FieldsAgree
<1>3. CASE f # None /\ g # None
  <2> DEFINE names == DOMAIN f \cup DOMAIN g
             field(n) == IF n \notin DOMAIN g THEN f[n]
                         ELSE IF n \notin DOMAIN f THEN g[n] ELSE UnifyField(f[n], g[n])
  <2>1. u = [n \in names |-> field(n)]
    BY <1>3 DEF UnifyFields
  <2>2. names \subseteq FieldNames
    BY <1>3 DEF IsFields
  <2>3. ASSUME NEW n \in names
        PROVE  /\ field(n) \in Field
               /\ n \in DOMAIN f => SameField(field(n), f[n])
               /\ n \in DOMAIN g => SameField(field(n), g[n])
               /\ \A c : SameField(field(n), c) => /\ n \in DOMAIN f => SameField(f[n], c)
                                                   /\ n \in DOMAIN g => SameField(g[n], c)
    <3>1. CASE n \notin DOMAIN g
      BY <1>3, <3>1, SameFieldReflexive DEF IsFields
    <3>2. CASE n \notin DOMAIN f
      BY <1>3, <2>3, <3>2, SameFieldReflexive DEF IsFields
    <3>3. CASE n \in DOMAIN f \cap DOMAIN g
      <4>1. f[n] \in Field /\ g[n] \in Field /\ SameField(f[n], g[n])
        BY <1>3, <3>3 DEF IsFields, FieldsAgree
      <4>2. field(n) = UnifyField(f[n], g[n])
        BY <3>3
      <4> HIDE DEF field
      <4> QED
        BY <4>1, <4>2, FieldUnified
    <3> QED
      BY <3>1, <3>2, <3>3
  <2> HIDE DEF field
  <2>4. u \in [names -> Field] /\ DOMAIN u = names /\ \A n \in names : u[n] = field(n)
    BY <2>1, <2>3
  <2>5. u # None
    BY <2>2, <2>4, NoneAssumption
  <2>6. IsFields(u)
    BY <2>2, <2>4 DEF IsFields
  <2>7. CoversFields(u, f) /\ CoversFields(u, g)
    BY <2>3, <2>4, <2>5 DEF CoversFields
  <2>8. ASSUME NEW h, FieldsAgree(u, h) PROVE FieldsAgree(f, h) /\ FieldsAgree(g, h)
    BY <2>3, <2>4, <2>5, <2>8 DEF FieldsAgree
  <2> QED
    BY <2>6, <2>7, <2>8
<1> QED
  BY <1>1, <1>2, <1>3

\* The queries of two references that are compatible, unified
LEMMA QueriesUnified ==
    ASSUME NEW a, NEW b, IsFields(a.fields), IsFields(b.fields), CompatibleQueries(a, b)
    PROVE  LET u == UnifyQuery(a, b)
           IN  /\ IsFields(u.fields)
               /\ u.scope = Either(a.scope, b.scope) /\ Agree(a.scope, b.scope)
               /\ CoversQuery(u, a) /\ CoversQuery(u, b)
               /\ \A c : CompatibleQueries(u, c) => CompatibleQueries(a, c) /\ CompatibleQueries(b, c)
<1> DEFINE u == UnifyQuery(a, b)
<1>1. /\ u.aggregates = Either(a.aggregates, b.aggregates)
      /\ u.fields = UnifyFields(a.fields, b.fields)
      /\ u.groups = Either(a.groups, b.groups)
      /\ u.limit = a.limit /\ u.order_by = a.order_by
      /\ u.predicate = Simplify(a.predicate)
      /\ u.scope = Either(a.scope, b.scope)
  BY DEF UnifyQuery
<1>2. /\ a.limit = b.limit /\ a.order_by = b.order_by
      /\ Simplify(a.predicate) = Simplify(b.predicate)
      /\ Agree(a.scope, b.scope) /\ Agree(a.aggregates, b.aggregates) /\ Agree(a.groups, b.groups)
      /\ FieldsAgree(a.fields, b.fields)
  BY DEF CompatibleQueries
<1>3. Simplify(Simplify(a.predicate)) = Simplify(a.predicate)
  BY NoneAssumption DEF Simplify
<1>4. /\ IsFields(u.fields)
      /\ CoversFields(u.fields, a.fields) /\ CoversFields(u.fields, b.fields)
      /\ \A h : FieldsAgree(u.fields, h) => FieldsAgree(a.fields, h) /\ FieldsAgree(b.fields, h)
  BY <1>1, <1>2, FieldsUnified
<1> HIDE DEF u
<1>5. CoversQuery(u, a) /\ CoversQuery(u, b)
  BY <1>1, <1>2, <1>3, <1>4 DEF CoversQuery, Either, Agree
<1>6. ASSUME NEW c, CompatibleQueries(u, c) PROVE CompatibleQueries(a, c) /\ CompatibleQueries(b, c)
  BY <1>1, <1>2, <1>3, <1>4, <1>6 DEF CompatibleQueries, Either, Agree
<1> QED
  BY <1>1, <1>2, <1>4, <1>5, <1>6 DEF u

\* The joins of two references to the same relationship that are compatible, unified
LEMMA JoinsUnified ==
    ASSUME NEW a, NEW b, a.name = b.name, CompatibleJoins(a, b),
           IsFields(a.query.fields), IsFields(b.query.fields)
    PROVE  LET u == UnifyJoin(a, b)
           IN  /\ u.name = a.name /\ IsFields(u.query.fields)
               /\ u.query.scope = Either(a.query.scope, b.query.scope)
               /\ Agree(a.query.scope, b.query.scope)
               /\ CoversJoin(u, a) /\ CoversJoin(u, b)
               /\ \A c : CompatibleJoins(u, c) => CompatibleJoins(a, c) /\ CompatibleJoins(b, c)
<1> DEFINE u == UnifyJoin(a, b)
<1>1. u.name = a.name /\ u.arguments = a.arguments /\ u.query = UnifyQuery(a.query, b.query)
  BY DEF UnifyJoin
<1>2. a.arguments = b.arguments /\ CompatibleQueries(a.query, b.query)
  BY DEF CompatibleJoins
<1> HIDE DEF u
<1> QED
  BY <1>1, <1>2, QueriesUnified DEF u, CoversJoin, CompatibleJoins

-----------------------------------------------------------------------------
(* What registering a relationship does to a map                           *)

\* Yielding what is needed is reflexive
LEMMA CoversReflexive == ASSUME NEW m PROVE Covers(m, m)
BY SameFieldReflexive DEF Covers, CoversJoin, CoversQuery, CoversFields

\* ... and transitive
LEMMA CoversTransitive ==
    ASSUME NEW a, NEW b, NEW c, Covers(a, b), Covers(b, c)
    PROVE  Covers(a, c)
<1>1. ASSUME NEW f, NEW g, NEW h, CoversFields(f, g), CoversFields(g, h) PROVE CoversFields(f, h)
  BY <1>1, SameFieldTransitive DEF CoversFields
<1>2. ASSUME NEW p, NEW q, NEW r, CoversQuery(p, q), CoversQuery(q, r) PROVE CoversQuery(p, r)
  BY <1>1, <1>2 DEF CoversQuery
<1>3. ASSUME NEW p, NEW q, NEW r, CoversJoin(p, q), CoversJoin(q, r) PROVE CoversJoin(p, r)
  BY <1>2, <1>3 DEF CoversJoin
<1> QED
  BY <1>3 DEF Covers

\* A join of u has the scope that it has in a or in b
ScopesFrom(u, a, b) ==
    \A p \in DOMAIN u : u[p].query.scope # None =>
        \/ p \in DOMAIN a /\ u[p].query.scope = a[p].query.scope
        \/ p \in DOMAIN b /\ u[p].query.scope = b[p].query.scope

\* Two maps that are compatible, unified: nothing of either is lost, and what is compatible
\* with the result is compatible with both.  A join has the scope it had in one of them.
LEMMA MapsUnified ==
    ASSUME NEW a, NEW b, IsMap(a), IsMap(b), Compatible(a, b)
    PROVE  LET u == Unify(a, b)
           IN  /\ IsMap(u) /\ DOMAIN u = DOMAIN a \cup DOMAIN b
               /\ Covers(u, a) /\ Covers(u, b)
               /\ \A c : Compatible(u, c) => Compatible(a, c) /\ Compatible(b, c)
               /\ ScopesFrom(u, a, b)
<1> DEFINE u == Unify(a, b)
<1>1. DOMAIN u = DOMAIN a \cup DOMAIN b
  BY DEF Unify
<1>2. ASSUME NEW p \in DOMAIN u
      PROVE  /\ u[p].name = p[Len(p)][1] /\ IsFields(u[p].query.fields)
             /\ p \in DOMAIN a => CoversJoin(u[p], a[p])
             /\ p \in DOMAIN b => CoversJoin(u[p], b[p])
             /\ u[p].query.scope # None => \/ p \in DOMAIN a /\ u[p].query.scope = a[p].query.scope
                                           \/ p \in DOMAIN b /\ u[p].query.scope = b[p].query.scope
             /\ \A c : CompatibleJoins(u[p], c) => /\ p \in DOMAIN a => CompatibleJoins(a[p], c)
                                                   /\ p \in DOMAIN b => CompatibleJoins(b[p], c)
  <2>1. CASE p \notin DOMAIN b
    <3>1. u[p] = a[p] /\ p \in DOMAIN a
      BY <1>1, <2>1 DEF Unify
    <3>2. CoversJoin(a[p], a[p])
      BY SameFieldReflexive DEF CoversJoin, CoversQuery, CoversFields
    <3> QED
      BY <2>1, <3>1, <3>2 DEF IsMap
  <2>2. CASE p \notin DOMAIN a
    <3>1. u[p] = b[p] /\ p \in DOMAIN b
      BY <1>1, <2>2 DEF Unify
    <3>2. CoversJoin(b[p], b[p])
      BY SameFieldReflexive DEF CoversJoin, CoversQuery, CoversFields
    <3> QED
      BY <2>2, <3>1, <3>2 DEF IsMap
  <2>3. CASE p \in DOMAIN a \cap DOMAIN b
    <3>1. u[p] = UnifyJoin(a[p], b[p])
      BY <2>3 DEF Unify
    <3>2. CompatibleJoins(a[p], b[p])
      BY <2>3 DEF Compatible
    <3>3. /\ a[p].name = p[Len(p)][1] /\ b[p].name = p[Len(p)][1]
          /\ IsFields(a[p].query.fields) /\ IsFields(b[p].query.fields)
      BY <2>3 DEF IsMap
    <3> HIDE DEF u
    <3> QED
      BY <2>3, <3>1, <3>2, <3>3, JoinsUnified DEF Either
  <2> QED
    BY <1>1, <2>1, <2>2, <2>3
<1> HIDE DEF u
<1>3. IsMap(u)
  BY <1>1, <1>2 DEF IsMap
<1>4. Covers(u, a) /\ Covers(u, b)
  BY <1>1, <1>2 DEF Covers
<1>5. ASSUME NEW c, Compatible(u, c) PROVE Compatible(a, c) /\ Compatible(b, c)
  BY <1>1, <1>2, <1>5 DEF Compatible
<1>6. ScopesFrom(u, a, b)
  BY <1>2 DEF ScopesFrom
<1> QED
  BY <1>1, <1>3, <1>4, <1>5, <1>6 DEF u

\* A relationship value as part of a map: its joins are there, each further down
LEMMA UnderPlace ==
    ASSUME NEW place \in Seq(Keys), NEW r, DOMAIN r \subseteq Seq(Keys)
    PROVE  /\ \A p \in DOMAIN Under(place, r) : \E q \in DOMAIN r : p = place \o q
           /\ \A q \in DOMAIN r : /\ place \o q \in DOMAIN Under(place, r)
                                 /\ Under(place, r)[place \o q] = r[q]
<1>1. DOMAIN Under(place, r) = {place \o q : q \in DOMAIN r}
  BY DEF Under
<1>2. ASSUME NEW q \in DOMAIN r PROVE SubSeq(place \o q, Len(place) + 1, Len(place \o q)) = q
  <2>1. q \in Seq(Keys) /\ Len(q) \in Nat /\ Len(place) \in Nat
    OBVIOUS
  <2>2. /\ place \o q \in Seq(Keys)
        /\ Len(place \o q) = Len(place) + Len(q)
        /\ \A i \in 1 .. Len(place) + Len(q) :
               (place \o q)[i] = IF i <= Len(place) THEN place[i] ELSE q[i - Len(place)]
    BY <2>1, ConcatProperties
  <2> DEFINE s == place \o q
             k == Len(place)
             t == SubSeq(s, k + 1, k + Len(q))
  <2>3. \A i \in k + 1 .. k + Len(q) : s[i] \in Keys
    BY <2>1, <2>2
  <2> HIDE DEF s, k
  <2>4. /\ t \in Seq(Keys)
        /\ Len(t) = IF k + 1 <= k + Len(q) THEN (k + Len(q)) - (k + 1) + 1 ELSE 0
        /\ \A i \in 1 .. (k + Len(q)) - (k + 1) + 1 : t[i] = s[k + 1 + i - 1]
    BY <2>1, <2>3, SubSeqProperties DEF k
  <2>5. Len(t) = Len(q) /\ \A i \in 1 .. Len(q) : t[i] = s[k + i]
    BY <2>1, <2>4 DEF k
  <2>6. \A i \in 1 .. Len(q) : s[k + i] = q[i]
    BY <2>1, <2>2 DEF s, k
  <2>7. t = q
    BY <2>1, <2>4, <2>5, <2>6, SeqEqual
  <2> QED
    BY <2>2, <2>7 DEF s, k
<1> QED
  BY <1>1, <1>2 DEF Under

\* A place seen from further up
LEMMA FurtherUp ==
    ASSUME NEW up \in Seq(Keys), NEW place \in Seq(Keys), NEW key \in Keys
    PROVE  /\ place \o <<key>> \in Seq(Keys)
           /\ (up \o place) \o <<key>> = up \o (place \o <<key>>)
<1> DEFINE last == <<key>>
<1>1. last \in Seq(Keys)
  OBVIOUS
<1> HIDE DEF last
<1>2. place \o last \in Seq(Keys) /\ (up \o place) \o last = up \o (place \o last)
  BY <1>1, ConcatProperties, ConcatAssociative
<1> QED
  BY <1>2 DEF last

\* What a value yields, it yields as part of a map
LEMMA CoversUnder ==
    ASSUME NEW place \in Seq(Keys), NEW inner \in Seq(Keys), NEW v, NEW r,
           DOMAIN v \subseteq Seq(Keys), DOMAIN r \subseteq Seq(Keys),
           Covers(v, Under(inner, r))
    PROVE  Covers(Under(place, v), Under(place \o inner, r))
<1>1. place \o inner \in Seq(Keys)
  BY ConcatProperties
<1>2. ASSUME NEW p \in DOMAIN Under(place \o inner, r)
      PROVE  p \in DOMAIN Under(place, v) /\ CoversJoin(Under(place, v)[p], Under(place \o inner, r)[p])
  <2>1. PICK q \in DOMAIN r : p = (place \o inner) \o q
    BY <1>1, <1>2, UnderPlace
  <2>2. p = place \o (inner \o q)
    BY <2>1, ConcatAssociative
  <2>3. inner \o q \in DOMAIN Under(inner, r) /\ Under(inner, r)[inner \o q] = r[q]
    BY UnderPlace
  <2>4. Under(place \o inner, r)[p] = r[q]
    BY <1>1, <2>1, UnderPlace
  <2>5. inner \o q \in DOMAIN v /\ CoversJoin(v[inner \o q], r[q])
    BY <2>3 DEF Covers
  <2> QED
    BY <2>2, <2>4, <2>5, UnderPlace
<1> QED
  BY <1>2 DEF Covers

\* What goes together with a value as part of a map, goes together with the value
LEMMA CompatibleUnder ==
    ASSUME NEW place \in Seq(Keys), NEW inner \in Seq(Keys), NEW v, NEW r,
           DOMAIN v \subseteq Seq(Keys), DOMAIN r \subseteq Seq(Keys),
           Compatible(Under(place, v), Under(place \o inner, r))
    PROVE  Compatible(v, Under(inner, r))
<1>1. place \o inner \in Seq(Keys)
  BY ConcatProperties
<1>2. ASSUME NEW p \in DOMAIN v, p \in DOMAIN Under(inner, r)
      PROVE  CompatibleJoins(v[p], Under(inner, r)[p])
  <2>1. PICK q \in DOMAIN r : p = inner \o q
    BY <1>2, UnderPlace
  <2>2. place \o p = (place \o inner) \o q
    BY <2>1, ConcatAssociative
  <2> DEFINE whole == place \o inner
  <2>3. whole \o q \in DOMAIN Under(whole, r) /\ Under(whole, r)[whole \o q] = r[q]
    <3> HIDE DEF whole
    <3>1. whole \in Seq(Keys)
      BY <1>1 DEF whole
    <3> QED
      BY <3>1, UnderPlace
  <2>4. place \o p \in DOMAIN Under(place, v) /\ Under(place, v)[place \o p] = v[p]
    BY UnderPlace
  <2>5. Under(inner, r)[p] = r[q]
    BY <2>1, UnderPlace
  <2> QED
    BY <2>2, <2>3, <2>4, <2>5 DEF Compatible
<1> QED
  BY <1>2 DEF Compatible

-----------------------------------------------------------------------------
(* The frame on top, and the value that is registered for it               *)

\* A relationship as it is registered: the joins planned in its scope, below the one it is
LEMMA ValueSound ==
    ASSUME IsFrame(Top)
    PROVE  /\ DOMAIN Value = {<<>>} \cup DOMAIN Top.relationships
           /\ DOMAIN Value \subseteq Seq(Keys)
           /\ Value[<<>>].name = Top.name
           /\ Value[<<>>].query.scope = Top.query.scope
           /\ IsFields(Value[<<>>].query.fields)
           /\ \A p \in DOMAIN Top.relationships : p # <<>> /\ Value[p] = Top.relationships[p]
<1> DEFINE query == IF Top.kind = "exists" THEN [Top.query EXCEPT !.predicate = None] ELSE Top.query
<1>1. Value = [p \in {<<>>} \cup DOMAIN Top.relationships |->
                   IF p = <<>> THEN [name |-> Top.name, arguments |-> Top.arguments, query |-> query]
                   ELSE Top.relationships[p]]
  BY DEF Value
<1>2. query.scope = Top.query.scope /\ query.fields = Top.query.fields
  BY DEF IsFrame, IsQueryRecord
<1>3. \A p \in DOMAIN Top.relationships : p \in Seq(Keys) /\ p # <<>>
  BY DEF IsFrame, IsMap
<1>4. IsFields(Top.query.fields)
  BY DEF IsFrame, IsQueryRecord
<1>5. <<>> \in Seq(Keys)
  BY EmptySeq
<1> HIDE DEF query
<1> QED
  BY <1>1, <1>2, <1>3, <1>4, <1>5

\* The key a reference is given is made of the name of its relationship; under it nothing is
\* incompatible.  It is a unique one only if sharing the name is out of the question.
LEMMA KeySound ==
    ASSUME IsFrame(Top), IsFrame(Below), Top.name \in Relationships,
           relationship_name_counter \in Nat,
           \A p \in DOMAIN Below.relationships : Len(p[1]) = 2 => p[1][2] < relationship_name_counter
    PROVE  /\ Key \in Keys /\ Key[1] = Top.name /\ <<Key>> \in Seq(Keys)
           /\ IsMap(Under(<<Key>>, Value))
           /\ \A p \in DOMAIN Under(<<Key>>, Value) : p[1] = Key
           /\ Compatible(Below.relationships, Under(<<Key>>, Value))
           /\ \/ /\ Key = NameKey(Top.name)
                 /\ CountAfter(Below.relationships, Top.name, Value) = relationship_name_counter
                 /\ Len(Key) = 1
              \/ /\ Key # NameKey(Top.name)
                 /\ CountAfter(Below.relationships, Top.name, Value) = relationship_name_counter + 1
                 /\ Len(Key) = 2 /\ Key[2] = relationship_name_counter
                 /\ ~Compatible(Below.relationships, Under(<<NameKey(Top.name)>>, Value))
<1>1. /\ NameKey(Top.name) \in Keys /\ NameKey(Top.name)[1] = Top.name /\ Len(NameKey(Top.name)) = 1
      /\ UniqueKey(Top.name, relationship_name_counter) \in Keys
      /\ UniqueKey(Top.name, relationship_name_counter)[1] = Top.name
      /\ UniqueKey(Top.name, relationship_name_counter)[2] = relationship_name_counter
      /\ Len(UniqueKey(Top.name, relationship_name_counter)) = 2
  BY DEF NameKey, UniqueKey, Keys
<1>2. /\ Key = NameKey(Top.name) \/ Key = UniqueKey(Top.name, relationship_name_counter)
      /\ Key = NameKey(Top.name) <=> Compatible(Below.relationships, Under(<<NameKey(Top.name)>>, Value))
  <2>1. NameKey(Top.name) # UniqueKey(Top.name, relationship_name_counter)
    BY <1>1
  <2> QED
    BY <2>1 DEF Key, KeyFor
<1>3. Key \in Keys /\ Key[1] = Top.name /\ <<Key>> \in Seq(Keys) /\ Len(<<Key>>) = 1 /\ <<Key>>[1] = Key
  BY <1>1, <1>2
<1>4. ASSUME NEW p \in DOMAIN Under(<<Key>>, Value)
      PROVE  /\ p \in Seq(Keys) /\ p # <<>> /\ p[1] = Key
             /\ Under(<<Key>>, Value)[p].name = p[Len(p)][1]
             /\ IsFields(Under(<<Key>>, Value)[p].query.fields)
  <2>1. PICK q \in DOMAIN Value : p = <<Key>> \o q
    BY <1>3, <1>4, UnderPlace, ValueSound
  <2>2. q \in Seq(Keys) /\ Under(<<Key>>, Value)[p] = Value[q]
    <3>1. <<Key>> \in Seq(Keys) /\ DOMAIN Value \subseteq Seq(Keys) /\ q \in DOMAIN Value
      BY <1>3, <2>1, ValueSound
    <3>2. Under(<<Key>>, Value)[<<Key>> \o q] = Value[q]
      BY <3>1, UnderPlace
    <3> QED
      BY <2>1, <3>1, <3>2
  <2>3. /\ p \in Seq(Keys) /\ Len(p) = 1 + Len(q) /\ Len(q) \in Nat
        /\ p[1] = Key /\ (Len(q) > 0 => p[Len(p)] = q[Len(q)])
    BY <1>3, <2>1, <2>2, ConcatProperties
  <2>4. CASE q = <<>>
    <3>1. Value[q].name = Key[1] /\ IsFields(Value[q].query.fields)
      BY <1>3, <2>4, ValueSound
    <3>2. Len(p) = 1 /\ p # <<>>
      BY <2>3, <2>4
    <3> QED
      BY <2>2, <2>3, <3>1, <3>2
  <2>5. CASE q # <<>>
    <3>1. q \in DOMAIN Top.relationships /\ Value[q] = Top.relationships[q]
      BY <2>5, ValueSound
    <3>2. Value[q].name = q[Len(q)][1] /\ IsFields(Value[q].query.fields)
      BY <3>1 DEF IsFrame, IsMap
    <3>3. Len(q) > 0
      BY <2>2, <2>5, EmptySeq
    <3> QED
      BY <2>2, <2>3, <3>2, <3>3
  <2> QED
    BY <2>4, <2>5
<1>5. IsMap(Under(<<Key>>, Value))
  BY <1>4 DEF IsMap
<1>6. Compatible(Below.relationships, Under(<<Key>>, Value))
  <2>1. CASE Key = NameKey(Top.name)
    BY <1>2, <2>1
  <2>2. CASE Key # NameKey(Top.name)
    <3>1. Len(Key) = 2 /\ Key[2] = relationship_name_counter
      BY <1>1, <1>2, <2>2
    <3>2. \A p \in DOMAIN Below.relationships : p[1] # Key
      BY <3>1
    <3> QED
      BY <1>4, <3>2 DEF Compatible
  <2> QED
    BY <2>1, <2>2
<1>7. CountAfter(Below.relationships, Top.name, Value) =
          IF Key = NameKey(Top.name) THEN relationship_name_counter ELSE relationship_name_counter + 1
  BY DEF CountAfter, Key
<1> QED
  BY <1>1, <1>2, <1>3, <1>4, <1>5, <1>6, <1>7

-----------------------------------------------------------------------------
(* The stack of frames                                                     *)

\* A sequence is one of its own elements
LEMMA OwnElements ==
    ASSUME NEW S, NEW s \in Seq(S)
    PROVE  s \in Seq({s[i] : i \in DOMAIN s})
<1> DEFINE T == {s[i] : i \in DOMAIN s}
<1>1. Len(s) \in Nat /\ DOMAIN s = 1 .. Len(s)
  BY LenProperties
<1>2. \A i \in 1 .. Len(s) : s[i] \in T
  BY <1>1
<1> HIDE DEF T
<1>3. SubSeq(s, 1, Len(s)) \in Seq(T)
  BY <1>1, <1>2, SubSeqProperties
<1>4. SubSeq(s, 1, Len(s)) = s
  BY SubSeqFull
<1> QED
  BY <1>3, <1>4 DEF T

\* Entering a scope puts its frame on top, the others keep all but a phase
LEMMA Entered ==
    ASSUME StackSound, NEW frame, NEW phase, Enter(frame, phase)
    PROVE  LET n == Len(frames)
           IN  /\ n \in Nat \ {0} /\ DOMAIN frames = 1 .. n /\ DOMAIN frames' = 1 .. n + 1
               /\ frames' \in Seq({frames'[i] : i \in DOMAIN frames'}) /\ frames' # <<>>
               /\ frames'[n + 1] = frame
               /\ \A i \in 1 .. n :
                      /\ DOMAIN frames'[i] = DOMAIN frames[i]
                      /\ frames'[i].kind = frames[i].kind /\ frames'[i].name = frames[i].name
                      /\ frames'[i].query = frames[i].query
                      /\ frames'[i].relationships = frames[i].relationships
                      /\ frames'[i].uses = frames[i].uses
<1> DEFINE n == Len(frames)
           on == [frames EXCEPT ![n].phase = phase]
           top == [frames[n] EXCEPT !.phase = phase]
           S == {frames[i] : i \in DOMAIN frames} \cup {top, frame}
<1>1. /\ n \in Nat \ {0} /\ DOMAIN frames = 1 .. n
      /\ frames \in Seq({frames[i] : i \in DOMAIN frames})
  BY EmptySeq, LenProperties DEF StackSound
<1>2. frames \in Seq(S) /\ top \in S /\ frame \in S
  <2>1. {frames[i] : i \in DOMAIN frames} \subseteq S
    OBVIOUS
  <2> HIDE DEF S
  <2>2. \A i \in 1 .. n : frames[i] \in S
    BY <1>1, <2>1
  <2>3. SubSeq(frames, 1, n) \in Seq(S) /\ SubSeq(frames, 1, n) = frames
    BY <1>1, <2>2, SubSeqProperties, SubSeqFull
  <2> QED
    BY <2>3 DEF S
<1>3. on = [frames EXCEPT ![n] = top]
  OBVIOUS
<1>4. frames' = Append(on, frame)
  BY DEF Enter
<1> HIDE DEF S, on
<1>5. /\ on \in Seq(S) /\ Len(on) = n
      /\ \A i \in 1 .. n : on[i] = IF i = n THEN top ELSE frames[i]
  <2> HIDE DEF top
  <2> QED
    BY <1>1, <1>2, <1>3, ExceptSeq
<1>6. /\ frames' \in Seq(S) /\ Len(frames') = n + 1 /\ frames'[n + 1] = frame
      /\ \A i \in 1 .. n : frames'[i] = IF i = n THEN top ELSE frames[i]
  <2> DEFINE pushed == Append(on, frame)
  <2>1. /\ pushed \in Seq(S) /\ Len(pushed) = Len(on) + 1 /\ pushed[Len(on) + 1] = frame
        /\ \A i \in 1 .. Len(on) : pushed[i] = on[i]
    BY <1>2, <1>5, AppendProperties
  <2> HIDE DEF top, pushed
  <2>2. /\ pushed \in Seq(S) /\ Len(pushed) = n + 1 /\ pushed[n + 1] = frame
        /\ \A i \in 1 .. n : pushed[i] = IF i = n THEN top ELSE frames[i]
    BY <1>5, <2>1
  <2>3. frames' = pushed
    BY <1>4 DEF pushed
  <2> QED
    BY <2>2, <2>3
<1>7. frames' \in Seq({frames'[i] : i \in DOMAIN frames'}) /\ DOMAIN frames' = 1 .. n + 1 /\ frames' # <<>>
  BY <1>1, <1>6, OwnElements, LenProperties, EmptySeq
<1>8. ASSUME NEW i \in 1 .. n
      PROVE  /\ DOMAIN frames'[i] = DOMAIN frames[i]
             /\ frames'[i].kind = frames[i].kind /\ frames'[i].name = frames[i].name
             /\ frames'[i].query = frames[i].query
             /\ frames'[i].relationships = frames[i].relationships
             /\ frames'[i].uses = frames[i].uses
  <2>1. IsFrame(frames[i])
    BY <1>1 DEF StackSound
  <2> QED
    BY <1>6, <2>1 DEF IsFrame
<1> QED
  BY <1>1, <1>6, <1>7, <1>8

\* Leaving a scope takes the frame on top away and replaces the one below
LEMMA Left ==
    ASSUME StackSound, Top.kind # "query", NEW new
    PROVE  LET n == Len(frames)
               after == [SubSeq(frames, 1, n - 1) EXCEPT ![n - 1] = new]
           IN  /\ n \in Nat \ {0, 1} /\ DOMAIN frames = 1 .. n /\ DOMAIN after = 1 .. n - 1
               /\ after \in Seq({after[i] : i \in DOMAIN after}) /\ after # <<>>
               /\ after[n - 1] = new
               /\ \A i \in 1 .. n - 2 : after[i] = frames[i]
<1> DEFINE n == Len(frames)
           start == SubSeq(frames, 1, n - 1)
           after == [start EXCEPT ![n - 1] = new]
           S == {frames[i] : i \in DOMAIN frames} \cup {new}
<1>1. n \in Nat \ {0, 1} /\ DOMAIN frames = 1 .. n
  <2>1. frames \in Seq({frames[i] : i \in DOMAIN frames}) /\ frames # <<>>
    BY DEF StackSound
  <2>2. Len(frames) # 1
    BY DEF Top, StackSound
  <2> QED
    BY <2>1, <2>2, EmptySeq, LenProperties
<1>2. \A i \in 1 .. n - 1 : frames[i] \in S
  BY <1>1
<1>3. new \in S
  OBVIOUS
<1> HIDE DEF S
<1>4. start \in Seq(S) /\ Len(start) = n - 1 /\ \A i \in 1 .. n - 1 : start[i] = frames[i]
  BY <1>1, <1>2, SubSeqProperties
<1> HIDE DEF start
<1>5. n - 1 \in 1 .. Len(start)
  BY <1>1, <1>4
<1>6. /\ after \in Seq(S) /\ Len(after) = Len(start)
      /\ \A i \in 1 .. Len(start) : after[i] = IF i = n - 1 THEN new ELSE start[i]
  <2> HIDE DEF n
  <2> QED
    BY <1>3, <1>4, <1>5, ExceptSeq
<1> HIDE DEF after
<1>7. after \in Seq({after[i] : i \in DOMAIN after})
  BY <1>6, OwnElements
<1>8. DOMAIN after = 1 .. n - 1
  BY <1>4, <1>6, LenProperties
<1> HIDE DEF n
<1>9. after # <<>>
  <2>1. Len(after) = n - 1 /\ n - 1 > 0
    BY <1>1, <1>4, <1>6
  <2> QED
    BY <2>1, EmptySeq
<1>10. after[n - 1] = new
  BY <1>1, <1>4, <1>5, <1>6
<1>11. ASSUME NEW i \in 1 .. n - 2 PROVE after[i] = frames[i]
  <2>1. i \in 1 .. n - 1 /\ i # n - 1
    BY <1>1
  <2> QED
    BY <1>4, <1>6, <2>1
<1> QED
  BY <1>1, <1>7, <1>8, <1>9, <1>10, <1>11 DEF after, start, n

\* What registering the frame on top does to the frame below
LEMMA LeftWith ==
    ASSUME StackSound, Top.kind # "query", NEW query, NEW rest, LeaveWith(query, rest)
    PROVE  LET n == Len(frames)
               new == frames'[n - 1]
           IN  /\ n \in Nat \ {0, 1} /\ DOMAIN frames = 1 .. n /\ DOMAIN frames' = 1 .. n - 1
               /\ frames' \in Seq({frames'[i] : i \in DOMAIN frames'}) /\ frames' # <<>>
               /\ \A i \in 1 .. n - 2 : frames'[i] = frames[i]
               /\ DOMAIN new = DOMAIN Below
               /\ new.kind = Below.kind /\ new.name = Below.name /\ new.query = query
               /\ new.relationships = Unify(Below.relationships, Under(<<Key>>, Value))
               /\ new.uses = Below.uses
                                 \cup {[at |-> <<>>, key |-> Key, kind |-> Top.kind, need |-> Value]}
                                 \cup MovedUses
<1> DEFINE n == Len(frames)
           new == Registered(query, rest)
<1>1. /\ n \in Nat \ {0, 1} /\ DOMAIN frames = 1 .. n /\ DOMAIN frames' = 1 .. n - 1
      /\ frames' \in Seq({frames'[i] : i \in DOMAIN frames'}) /\ frames' # <<>>
      /\ frames'[n - 1] = new
      /\ \A i \in 1 .. n - 2 : frames'[i] = frames[i]
  <2> DEFINE after == [SubSeq(frames, 1, n - 1) EXCEPT ![n - 1] = new]
  <2>1. frames' = after
    BY DEF LeaveWith
  <2> HIDE DEF new
  <2>2. /\ n \in Nat \ {0, 1} /\ DOMAIN frames = 1 .. n /\ DOMAIN after = 1 .. n - 1
        /\ after \in Seq({after[i] : i \in DOMAIN after}) /\ after # <<>>
        /\ after[n - 1] = new
        /\ \A i \in 1 .. n - 2 : after[i] = frames[i]
    BY Left
  <2> HIDE DEF after
  <2> QED
    BY <2>1, <2>2
<1>2. IsFrame(Below)
  <2>1. n - 1 \in DOMAIN frames /\ Below = frames[n - 1]
    BY <1>1 DEF Below
  <2> QED
    BY <2>1 DEF StackSound
<1>3. Register(Below.relationships, Top.name, Value) = Unify(Below.relationships, Under(<<Key>>, Value))
  BY DEF Register, Key
<1>4. /\ DOMAIN new = DOMAIN Below
      /\ new.kind = Below.kind /\ new.name = Below.name /\ new.query = query
      /\ new.relationships = Register(Below.relationships, Top.name, Value)
      /\ new.uses = Below.uses \cup {[at |-> <<>>, key |-> Key, kind |-> Top.kind, need |-> Value]}
                               \cup MovedUses
  BY <1>2 DEF IsFrame, Registered
<1> HIDE DEF new
<1> QED
  BY <1>1, <1>3, <1>4

-----------------------------------------------------------------------------
(* Each operation keeps the invariant, and the joins                       *)

\* What a step may not take away
JoinsGrow ==
    \A i \in DOMAIN frames \cap DOMAIN frames' : Covers(frames'[i].relationships, frames[i].relationships)

\* The owners of joins by their kind
LEMMA OwnersByKind ==
    /\ \A i \in DOMAIN frames : <<"frame", i>> \in Owners /\ ScopeOf(<<"frame", i>>) = frames[i]
    /\ \A k \in DOMAIN unrelated_joins :
           <<"unrelated", k>> \in Owners /\ ScopeOf(<<"unrelated", k>>) = unrelated_joins[k]
    /\ \A o \in Owners : \/ \E i \in DOMAIN frames : o = <<"frame", i>>
                         \/ \E k \in DOMAIN unrelated_joins : o = <<"unrelated", k>>
BY DEF Owners, ScopeOf

\* A frame that was just made has no joins yet
LEMMA FrameSound ==
    ASSUME NEW kind, NEW name, NEW arguments, NEW query, NEW into, NEW rest,
           IsQueryRecord(query), kind \in {"field", "exists", "path"} => name \in Relationships
    PROVE  LET f == Frame(kind, name, arguments, query, into, rest)
           IN  /\ IsFrame(f) /\ f.kind = kind /\ f.query = query
               /\ f.relationships = EmptyMap /\ f.uses = {}
BY DEF Frame, IsFrame, IsMap, EmptyMap

\* Entering a scope: nothing is in it yet, and its own scope, if it has one, is a new one
LEMMA EnterStep ==
    ASSUME IInv, NEW frame, NEW phase, Enter(frame, phase),
           IsFrame(frame), frame.relationships = EmptyMap, frame.uses = {},
           \/ frame.query.scope = None /\ scope_name_counter' = scope_name_counter
           \/ frame.query.scope = scope_name_counter /\ scope_name_counter' = scope_name_counter + 1
    PROVE  IInv' /\ JoinsGrow
<1> DEFINE n == Len(frames)
<1>0. StackSound /\ KeysFresh /\ ScopesSound /\ UsesCovered /\ ScopesUnique /\ SeparateOnlyIfIncompatible
  BY DEF IInv
<1>1. /\ n \in Nat \ {0} /\ DOMAIN frames = 1 .. n /\ DOMAIN frames' = 1 .. n + 1
      /\ frames' \in Seq({frames'[i] : i \in DOMAIN frames'}) /\ frames' # <<>>
      /\ frames'[n + 1] = frame
      /\ \A i \in 1 .. n :
             /\ DOMAIN frames'[i] = DOMAIN frames[i]
             /\ frames'[i].kind = frames[i].kind /\ frames'[i].name = frames[i].name
             /\ frames'[i].query = frames[i].query
             /\ frames'[i].relationships = frames[i].relationships
             /\ frames'[i].uses = frames[i].uses
  BY <1>0, Entered
<1>2. UNCHANGED <<relationship_name_counter, unrelated_joins>>
  BY DEF Enter
<1> HIDE DEF n
<1>3. scope_name_counter \in Nat /\ scope_name_counter' \in Nat /\ scope_name_counter <= scope_name_counter'
  BY <1>0 DEF StackSound
<1>4. DOMAIN EmptyMap = {}
  BY DEF EmptyMap
<1>5. ASSUME NEW o \in Owners'
      PROVE  \/ /\ o \in Owners
                /\ ScopeOf(o)'.relationships = ScopeOf(o).relationships
                /\ ScopeOf(o)'.uses = ScopeOf(o).uses
             \/ DOMAIN ScopeOf(o)'.relationships = {} /\ ScopeOf(o)'.uses = {}
  <2>1. CASE \E i \in DOMAIN frames' : o = <<"frame", i>>
    <3>1. PICK i \in 1 .. n + 1 : o = <<"frame", i>>
      BY <1>1, <2>1
    <3>2. ScopeOf(o)' = frames'[i]
      BY <3>1 DEF ScopeOf
    <3>3. CASE i = n + 1
      BY <1>1, <1>4, <3>2, <3>3
    <3>4. CASE i # n + 1
      <4>1. i \in 1 .. n
        BY <1>1, <3>4
      <4> QED
        BY <1>1, <3>1, <3>2, <4>1, OwnersByKind
    <3> QED
      BY <3>3, <3>4
  <2>2. CASE \E k \in DOMAIN unrelated_joins' : o = <<"unrelated", k>>
    <3>1. PICK k \in DOMAIN unrelated_joins : o = <<"unrelated", k>>
      BY <1>2, <2>2
    <3>2. ScopeOf(o)' = unrelated_joins[k]
      BY <1>2, <3>1 DEF ScopeOf
    <3> QED
      BY <3>1, <3>2, OwnersByKind
  <2> QED
    BY <2>1, <2>2 DEF Owners
<1>6. StackSound'
  <2>1. ASSUME NEW i \in 1 .. n + 1 PROVE IsFrame(frames'[i])
    <3>1. CASE i = n + 1
      BY <1>1, <3>1
    <3>2. CASE i # n + 1
      <4>1. i \in 1 .. n /\ IsFrame(frames[i])
        BY <1>0, <1>1, <3>2 DEF StackSound
      <4> QED
        BY <1>1, <4>1 DEF IsFrame
    <3> QED
      BY <3>1, <3>2
  <2>2. frames'[1].kind = "query"
    BY <1>0, <1>1 DEF StackSound
  <2> QED
    BY <1>0, <1>1, <1>2, <1>3, <2>1, <2>2 DEF StackSound
<1>7. KeysFresh'
  <2>1. ASSUME NEW i \in 1 .. n + 1, NEW p \in DOMAIN frames'[i].relationships, Len(p[1]) = 2
        PROVE  p[1][2] \in 0 .. relationship_name_counter - 1
    <3>1. i # n + 1
      BY <1>1, <1>4, <2>1
    <3>2. i \in DOMAIN frames /\ p \in DOMAIN frames[i].relationships
      BY <1>1, <2>1, <3>1
    <3> QED
      BY <1>0, <2>1, <3>2 DEF KeysFresh
  <2> QED
    BY <1>0, <1>1, <1>2, <2>1 DEF KeysFresh
<1>8. ASSUME NEW o \in Owners'
      PROVE  \/ JoinScopes(ScopeOf(o)') = {}
             \/ o \in Owners /\ JoinScopes(ScopeOf(o)') = JoinScopes(ScopeOf(o))
  BY <1>5 DEF JoinScopes
<1>9. ScopesSound'
  <2>1. ASSUME NEW o \in Owners'
        PROVE  JoinScopes(ScopeOf(o)') \subseteq 0 .. scope_name_counter - 1
    BY <1>0, <1>8 DEF ScopesSound
  <2>2. ASSUME NEW i \in 1 .. n + 1, frames'[i].query.scope # None
        PROVE  /\ frames'[i].query.scope \in 0 .. scope_name_counter' - 1
               /\ \A j \in 1 .. n + 1 : frames'[j].query.scope = frames'[i].query.scope => i = j
               /\ \A o \in Owners' : frames'[i].query.scope \notin JoinScopes(ScopeOf(o)')
    <3>1. \A j \in 1 .. n : frames[j].query.scope # None => frames[j].query.scope \in 0 .. scope_name_counter - 1
      BY <1>0, <1>1 DEF ScopesSound
    <3>2. CASE i = n + 1
      <4>1. frames'[i].query.scope = scope_name_counter /\ scope_name_counter' = scope_name_counter + 1
        BY <1>1, <2>2, <3>2
      <4>2. ASSUME NEW j \in 1 .. n + 1, j # i PROVE frames'[j].query.scope # scope_name_counter
        <5>1. j \in 1 .. n
          BY <1>1, <3>2, <4>2
        <5> QED
          BY <1>1, <1>3, <3>1, <5>1, NoneAssumption
      <4>3. \A o \in Owners' : scope_name_counter \notin JoinScopes(ScopeOf(o)')
        BY <1>3, <2>1
      <4> QED
        BY <1>3, <4>1, <4>2, <4>3
    <3>3. CASE i # n + 1
      <4>1. i \in 1 .. n
        BY <1>1, <3>3
      <4>2. frames[i].query.scope = frames'[i].query.scope
        BY <1>1, <4>1
      <4>3. /\ frames[i].query.scope \in 0 .. scope_name_counter - 1
            /\ \A j \in 1 .. n : frames[j].query.scope = frames[i].query.scope => i = j
            /\ \A o \in Owners : frames[i].query.scope \notin JoinScopes(ScopeOf(o))
        BY <1>0, <1>1, <2>2, <4>1, <4>2 DEF ScopesSound
      <4>4. frames'[n + 1].query.scope # frames[i].query.scope
        BY <1>1, <1>3, <2>2, <4>2, <4>3
      <4>5. ASSUME NEW j \in 1 .. n + 1, frames'[j].query.scope = frames'[i].query.scope PROVE i = j
        <5>1. j \in 1 .. n
          BY <1>1, <4>2, <4>4, <4>5
        <5> QED
          BY <1>1, <4>2, <4>3, <4>5, <5>1
      <4> QED
        BY <1>3, <1>8, <4>2, <4>3, <4>5
    <3> QED
      BY <3>2, <3>3
  <2>3. \A o \in Owners' : JoinScopes(ScopeOf(o)') \subseteq 0 .. scope_name_counter' - 1
    BY <1>3, <2>1
  <2> QED
    BY <1>1, <2>2, <2>3 DEF ScopesSound
<1>10. UsesCovered'
  BY <1>0, <1>5 DEF UsesCovered
<1>11. ScopesUnique'
  BY <1>0, <1>5 DEF ScopesUnique
<1>12. SeparateOnlyIfIncompatible'
  BY <1>0, <1>5 DEF SeparateOnlyIfIncompatible
<1>13. JoinsGrow
  BY <1>1, CoversReflexive DEF JoinsGrow
<1> QED
  BY <1>6, <1>7, <1>9, <1>10, <1>11, <1>12, <1>13 DEF IInv

\* The joins of the scope below, with those of the scope on top under the key of its relationship
Inner  == Under(<<Key>>, Value)
Merged == Unify(Below.relationships, Inner)
OwnUse == [at |-> <<>>, key |-> Key, kind |-> Top.kind, need |-> Value]

\* What the invariant says of the two frames on top
LEMMA TopFrames ==
    ASSUME IInv, Top.kind \in {"field", "exists", "path"}
    PROVE  LET n == Len(frames)
           IN  /\ n \in Nat \ {0, 1} /\ DOMAIN frames = 1 .. n
               /\ n \in DOMAIN frames /\ n - 1 \in DOMAIN frames /\ n # n - 1
               /\ Top = frames[n] /\ Below = frames[n - 1]
               /\ IsFrame(Top) /\ IsFrame(Below) /\ Top.name \in Relationships
               /\ Key \in Keys /\ Key[1] = Top.name /\ <<Key>> \in Seq(Keys)
               /\ IsMap(Inner) /\ Compatible(Below.relationships, Inner)
               /\ \A p \in DOMAIN Inner : p[1] = Key
               /\ \/ /\ Key = NameKey(Top.name) /\ Len(Key) = 1
                     /\ CountAfter(Below.relationships, Top.name, Value) = relationship_name_counter
                  \/ /\ CountAfter(Below.relationships, Top.name, Value) = relationship_name_counter + 1
                     /\ Len(Key) = 2 /\ Key[2] = relationship_name_counter
                     /\ ~Compatible(Below.relationships, Under(<<NameKey(Top.name)>>, Value))
<1> DEFINE n == Len(frames)
<1>1. StackSound /\ KeysFresh
  BY DEF IInv
<1>2. n \in Nat \ {0, 1} /\ DOMAIN frames = 1 .. n
  BY <1>1, Left
<1>3. IsFrame(frames[n]) /\ IsFrame(frames[n - 1])
  BY <1>1, <1>2 DEF StackSound
<1>4. Top = frames[n] /\ Below = frames[n - 1]
  BY DEF Top, Below
<1>5. IsFrame(Top) /\ IsFrame(Below) /\ Top.name \in Relationships /\ relationship_name_counter \in Nat
  BY <1>1, <1>3, <1>4 DEF IsFrame, StackSound
<1>6. ASSUME NEW p \in DOMAIN Below.relationships, Len(p[1]) = 2
      PROVE  p[1][2] < relationship_name_counter
  <2>1. n - 1 \in DOMAIN frames /\ p \in DOMAIN frames[n - 1].relationships
    BY <1>2, <1>4
  <2>2. p[1][2] \in 0 .. relationship_name_counter - 1
    BY <1>1, <1>6, <2>1 DEF KeysFresh
  <2> QED
    BY <1>5, <2>2
<1> HIDE DEF n
<1>7. /\ Key \in Keys /\ Key[1] = Top.name /\ <<Key>> \in Seq(Keys)
      /\ IsMap(Inner) /\ Compatible(Below.relationships, Inner)
      /\ \A p \in DOMAIN Inner : p[1] = Key
      /\ \/ /\ Key = NameKey(Top.name) /\ Len(Key) = 1
            /\ CountAfter(Below.relationships, Top.name, Value) = relationship_name_counter
         \/ /\ CountAfter(Below.relationships, Top.name, Value) = relationship_name_counter + 1
            /\ Len(Key) = 2 /\ Key[2] = relationship_name_counter
            /\ ~Compatible(Below.relationships, Under(<<NameKey(Top.name)>>, Value))
  BY <1>5, <1>6, KeySound DEF Inner
<1>8. n \in DOMAIN frames /\ n - 1 \in DOMAIN frames /\ n # n - 1
  BY <1>2
<1> QED
  BY <1>2, <1>4, <1>5, <1>7, <1>8 DEF n

\* The joins that result: none is lost, and what goes together with them goes together with
\* those of both scopes
LEMMA MergedSound ==
    ASSUME IInv, Top.kind \in {"field", "exists", "path"}
    PROVE  /\ IsMap(Merged) /\ DOMAIN Merged = DOMAIN Below.relationships \cup DOMAIN Inner
           /\ Covers(Merged, Below.relationships) /\ Covers(Merged, Inner)
           /\ \A c : Compatible(Merged, c) => Compatible(Below.relationships, c) /\ Compatible(Inner, c)
           /\ ScopesFrom(Merged, Below.relationships, Inner)
<1>1. IsMap(Below.relationships) /\ IsMap(Inner) /\ Compatible(Below.relationships, Inner)
  BY TopFrames DEF IsFrame
<1> QED
  BY <1>1, MapsUnified DEF Merged

\* A reference that was planned in the scope on top, seen from the scope below
LEMMA MovedUse ==
    ASSUME IInv, Top.kind \in {"field", "exists", "path"}, NEW u \in Top.uses
    PROVE  LET m == [u EXCEPT !.at = <<Key>> \o @]
               name == NameKey(u.need[<<>>].name)
           IN  /\ IsUse(m) /\ m.key = u.key /\ m.need = u.need
               /\ Covers(Merged, Under(PlaceOf(m), m.need))
               /\ u.key # name => ~Compatible(Merged, Under(m.at \o <<name>>, m.need))
<1> DEFINE m == [u EXCEPT !.at = <<Key>> \o @]
           name == NameKey(u.need[<<>>].name)
           n == Len(frames)
<1>1. /\ IsFrame(Top) /\ <<Key>> \in Seq(Keys)
      /\ n \in DOMAIN frames /\ Top = frames[n]
  BY TopFrames
<1>2. IsUse(u)
  BY <1>1 DEF IsFrame
<1>3. m.at = <<Key>> \o u.at /\ m.key = u.key /\ m.need = u.need /\ DOMAIN m = DOMAIN u
  BY <1>2 DEF IsUse
<1>4. IsUse(m)
  <2>1. <<Key>> \o u.at \in Seq(Keys)
    BY <1>1, <1>2, ConcatProperties DEF IsUse
  <2> QED
    BY <1>2, <1>3, <2>1 DEF IsUse
<1>5. <<"frame", n>> \in Owners /\ ScopeOf(<<"frame", n>>) = Top
  BY <1>1, OwnersByKind
<1>6. /\ DOMAIN Value \subseteq Seq(Keys)
      /\ \A p \in DOMAIN Top.relationships : p \in DOMAIN Value /\ Value[p] = Top.relationships[p]
  BY <1>1, ValueSound
<1>7. Covers(Merged, Inner) /\ \A c : Compatible(Merged, c) => Compatible(Inner, c)
  BY MergedSound
<1> HIDE DEF m, n
<1>8. Covers(Merged, Under(PlaceOf(m), m.need))
  <2>1. Covers(Top.relationships, Under(PlaceOf(u), u.need))
    BY <1>5 DEF IInv, UsesCovered
  <2>2. Covers(Value, Under(PlaceOf(u), u.need))
    BY <1>6, <2>1 DEF Covers
  <2>3. u.at \in Seq(Keys) /\ u.key \in Keys /\ DOMAIN u.need \subseteq Seq(Keys) /\ PlaceOf(u) \in Seq(Keys)
    BY <1>2, FurtherUp DEF IsUse, PlaceOf
  <2>4. Covers(Inner, Under(<<Key>> \o PlaceOf(u), u.need))
    BY <1>1, <1>6, <2>2, <2>3, CoversUnder DEF Inner
  <2>5. PlaceOf(m) = <<Key>> \o PlaceOf(u)
    <3>1. PlaceOf(m) = (<<Key>> \o u.at) \o <<u.key>> /\ PlaceOf(u) = u.at \o <<u.key>>
      BY <1>3 DEF PlaceOf
    <3>2. (<<Key>> \o u.at) \o <<u.key>> = <<Key>> \o (u.at \o <<u.key>>)
      BY <1>1, <2>3, FurtherUp
    <3> QED
      BY <3>1, <3>2, Zenon
  <2> QED
    BY <1>3, <1>7, <2>4, <2>5, CoversTransitive
<1>9. ASSUME u.key # name PROVE ~Compatible(Merged, Under(m.at \o <<name>>, m.need))
  <2> DEFINE place == u.at \o <<name>>
  <2>1. ~Compatible(Top.relationships, Under(place, u.need))
    BY <1>5, <1>9 DEF IInv, SeparateOnlyIfIncompatible
  <2>2. name \in Keys /\ u.at \in Seq(Keys) /\ DOMAIN u.need \subseteq Seq(Keys)
    BY <1>2 DEF IsUse, NameKey, Keys
  <2> HIDE DEF name
  <2>3. place \in Seq(Keys) /\ m.at \o <<name>> = <<Key>> \o place
    BY <1>1, <1>3, <2>2, FurtherUp
  <2>4. m.at \o <<name>> = <<Key>> \o place
    BY <2>3
  <2> HIDE DEF place
  <2>5. ~Compatible(Value, Under(place, u.need))
    BY <1>6, <2>1 DEF Compatible
  <2>6. ~Compatible(Inner, Under(<<Key>> \o place, u.need))
    BY <1>1, <1>6, <2>2, <2>3, <2>5, CompatibleUnder DEF Inner
  <2> QED
    BY <1>3, <1>7, <2>4, <2>6
<1> QED
  BY <1>3, <1>4, <1>8, <1>9 DEF m

\* The reference that is registered
LEMMA NewUse ==
    ASSUME IInv, Top.kind \in {"field", "exists", "path"}
    PROVE  /\ IsUse(OwnUse)
           /\ Covers(Merged, Under(PlaceOf(OwnUse), OwnUse.need))
           /\ LET name == NameKey(OwnUse.need[<<>>].name)
              IN  OwnUse.key # name => ~Compatible(Merged, Under(OwnUse.at \o <<name>>, OwnUse.need))
<1>1. /\ IsFrame(Top) /\ Top.name \in Relationships /\ Key \in Keys /\ <<Key>> \in Seq(Keys)
      /\ \/ Key = NameKey(Top.name)
         \/ ~Compatible(Below.relationships, Under(<<NameKey(Top.name)>>, Value))
  BY TopFrames
<1>2. DOMAIN Value \subseteq Seq(Keys) /\ Value[<<>>].name = Top.name
  BY <1>1, ValueSound
<1>3. /\ DOMAIN OwnUse = {"at", "key", "kind", "need"}
      /\ OwnUse.at = <<>> /\ OwnUse.key = Key /\ OwnUse.need = Value
  BY DEF OwnUse
<1>4. IsUse(OwnUse)
  <2>1. <<>> \in Seq(Keys)
    BY EmptySeq
  <2> QED
    BY <1>1, <1>2, <1>3, <2>1 DEF IsUse
<1>5. Covers(Merged, Under(PlaceOf(OwnUse), OwnUse.need))
  <2>1. PlaceOf(OwnUse) = <<Key>>
    BY <1>1, <1>3, ConcatEmptySeq DEF PlaceOf
  <2> QED
    BY <1>3, <2>1, MergedSound DEF Inner
<1>6. ASSUME OwnUse.key # NameKey(OwnUse.need[<<>>].name)
      PROVE  ~Compatible(Merged, Under(OwnUse.at \o <<NameKey(OwnUse.need[<<>>].name)>>, OwnUse.need))
  <2> DEFINE name == NameKey(Top.name)
  <2>1. name \in Keys
    BY <1>1 DEF NameKey, Keys
  <2> HIDE DEF name
  <2>2. <<>> \o <<name>> = <<name>>
    <3>1. <<name>> \in Seq(Keys)
      BY <2>1
    <3> QED
      BY <3>1, ConcatEmptySeq
  <2>3. ~Compatible(Below.relationships, Under(<<name>>, Value))
    BY <1>1, <1>2, <1>3, <1>6 DEF name
  <2>4. ~Compatible(Merged, Under(<<name>>, Value))
    BY <2>3, MergedSound
  <2>5. OwnUse.at \o <<NameKey(OwnUse.need[<<>>].name)>> = <<name>>
    BY <1>2, <1>3, <2>2 DEF name
  <2> QED
    BY <1>3, <2>4, <2>5
<1> QED
  BY <1>4, <1>5, <1>6

\* A reference that was registered before in the scope below
LEMMA OldUse ==
    ASSUME IInv, Top.kind \in {"field", "exists", "path"}, NEW u \in Below.uses
    PROVE  /\ IsUse(u)
           /\ Covers(Merged, Under(PlaceOf(u), u.need))
           /\ LET name == NameKey(u.need[<<>>].name)
              IN  u.key # name => ~Compatible(Merged, Under(u.at \o <<name>>, u.need))
<1> DEFINE n == Len(frames)
<1>1. n - 1 \in DOMAIN frames /\ Below = frames[n - 1] /\ IsFrame(Below)
  BY TopFrames
<1> HIDE DEF n
<1>2. <<"frame", n - 1>> \in Owners /\ ScopeOf(<<"frame", n - 1>>) = Below
  BY <1>1, OwnersByKind
<1>3. IsUse(u)
  BY <1>1 DEF IsFrame
<1>4. Covers(Merged, Under(PlaceOf(u), u.need))
  <2>1. Covers(Below.relationships, Under(PlaceOf(u), u.need))
    BY <1>2 DEF IInv, UsesCovered
  <2> QED
    BY <2>1, MergedSound, CoversTransitive
<1>5. ASSUME u.key # NameKey(u.need[<<>>].name)
      PROVE  ~Compatible(Merged, Under(u.at \o <<NameKey(u.need[<<>>].name)>>, u.need))
  <2>1. ~Compatible(Below.relationships, Under(u.at \o <<NameKey(u.need[<<>>].name)>>, u.need))
    BY <1>2, <1>5 DEF IInv, SeparateOnlyIfIncompatible
  <2> QED
    BY <2>1, MergedSound
<1> QED
  BY <1>3, <1>4, <1>5

\* The scopes of the joins that result are those of the joins of both scopes, and the scope
\* that was on top: no two of them are the same
LEMMA MergedScopes ==
    ASSUME IInv, Top.kind \in {"field", "exists", "path"}
    PROVE  LET own == {Top.query.scope} \ {None}
           IN  /\ \A p \in DOMAIN Merged : Merged[p].query.scope # None =>
                      Merged[p].query.scope \in JoinScopes(Below) \cup JoinScopes(Top) \cup own
               /\ \A p, q \in DOMAIN Merged :
                      Merged[p].query.scope = Merged[q].query.scope /\ Merged[p].query.scope # None => p = q
<1> DEFINE n == Len(frames)
           below == Below.relationships
           top == Top.relationships
           scope == Top.query.scope
<1>1. /\ n \in DOMAIN frames /\ Top = frames[n] /\ n - 1 \in DOMAIN frames /\ Below = frames[n - 1]
      /\ n \in Nat \ {0, 1} /\ IsFrame(Top) /\ <<Key>> \in Seq(Keys)
  BY TopFrames
<1>2. /\ <<"frame", n>> \in Owners /\ ScopeOf(<<"frame", n>>) = Top
      /\ <<"frame", n - 1>> \in Owners /\ ScopeOf(<<"frame", n - 1>>) = Below
  BY <1>1, OwnersByKind
<1>3. <<"frame", n>> # <<"frame", n - 1>>
  BY <1>1
<1> HIDE DEF n
\* The joins of Inner are those on top, and the relationship itself
<1>4. ASSUME NEW p \in DOMAIN Inner
      PROVE  \/ p = <<Key>> \o <<>> /\ Inner[p].query.scope = scope
             \/ \E q \in DOMAIN top : p = <<Key>> \o q /\ Inner[p].query.scope = top[q].query.scope
  <2>1. DOMAIN Value \subseteq Seq(Keys) /\ DOMAIN Value = {<<>>} \cup DOMAIN top
    BY <1>1, ValueSound
  <2> DEFINE place == <<Key>>
             value == Value
  <2>0. place \in Seq(Keys) /\ DOMAIN value \subseteq Seq(Keys) /\ Inner = Under(place, value)
    BY <1>1, <2>1 DEF Inner
  <2> HIDE DEF place, value
  <2>2. PICK q \in DOMAIN value : p = place \o q
    BY <1>4, <2>0, UnderPlace
  <2>3. Inner[p] = value[q]
    BY <2>0, <2>2, UnderPlace
  <2> USE DEF place, value
  <2>4. CASE q = <<>>
    BY <1>1, <2>2, <2>3, <2>4, ValueSound
  <2>5. CASE q # <<>>
    <3>1. q \in DOMAIN top /\ Value[q] = top[q]
      BY <1>1, <2>1, <2>2, <2>5, ValueSound
    <3> QED
      BY <2>2, <2>3, <3>1
  <2> QED
    BY <2>4, <2>5
\* ... and no two of them have the same scope
<1>5. ASSUME NEW p \in DOMAIN Inner, NEW q \in DOMAIN Inner,
             Inner[p].query.scope = Inner[q].query.scope, Inner[p].query.scope # None
      PROVE  p = q
  <2>1. ASSUME NEW r \in DOMAIN top, top[r].query.scope # None PROVE top[r].query.scope # scope
    <3>1. top[r].query.scope \in JoinScopes(Top)
      BY <2>1 DEF JoinScopes
    <3> QED
      BY <1>1, <1>2, <2>1, <3>1 DEF IInv, ScopesSound
  <2>2. ASSUME NEW r \in DOMAIN top, NEW s \in DOMAIN top,
               top[r].query.scope = top[s].query.scope, top[r].query.scope # None
        PROVE  r = s
    BY <1>2, <2>2 DEF IInv, ScopesUnique
  <2> HIDE DEF top, scope
  <2> QED
    BY <1>4, <1>5, <2>1, <2>2
\* The scopes below are others
<1>6. ASSUME NEW p \in DOMAIN below, NEW q \in DOMAIN Inner,
             below[p].query.scope = Inner[q].query.scope, below[p].query.scope # None
      PROVE  FALSE
  <2>1. below[p].query.scope # scope
    <3>1. below[p].query.scope \in JoinScopes(Below)
      BY <1>6 DEF JoinScopes
    <3> QED
      BY <1>1, <1>2, <1>6, <3>1 DEF IInv, ScopesSound
  <2>2. ASSUME NEW r \in DOMAIN top PROVE below[p].query.scope # top[r].query.scope
    BY <1>2, <1>3, <1>6 DEF IInv, ScopesUnique
  <2> HIDE DEF top, scope, below
  <2> QED
    BY <1>4, <1>6, <2>1, <2>2
<1>7. ASSUME NEW p \in DOMAIN Merged, Merged[p].query.scope # None
      PROVE  \/ p \in DOMAIN below /\ Merged[p].query.scope = below[p].query.scope
             \/ p \in DOMAIN Inner /\ Merged[p].query.scope = Inner[p].query.scope
  BY <1>7, MergedSound DEF ScopesFrom
<1>8. ASSUME NEW p \in DOMAIN below, NEW q \in DOMAIN below,
             below[p].query.scope = below[q].query.scope, below[p].query.scope # None
      PROVE  p = q
  BY <1>2, <1>8 DEF IInv, ScopesUnique
<1>9. ASSUME NEW p \in DOMAIN Merged, Merged[p].query.scope # None
      PROVE  Merged[p].query.scope \in JoinScopes(Below) \cup JoinScopes(Top) \cup ({scope} \ {None})
  <2>1. CASE p \in DOMAIN below /\ Merged[p].query.scope = below[p].query.scope
    BY <1>9, <2>1 DEF JoinScopes
  <2>2. CASE p \in DOMAIN Inner /\ Merged[p].query.scope = Inner[p].query.scope
    <3>1. Merged[p].query.scope = scope \/ \E q \in DOMAIN top : Merged[p].query.scope = top[q].query.scope
      BY <1>4, <2>2
    <3> QED
      BY <1>9, <3>1 DEF JoinScopes
  <2> QED
    BY <1>7, <1>9, <2>1, <2>2
<1> HIDE DEF below
<1>10. ASSUME NEW p \in DOMAIN Merged, NEW q \in DOMAIN Merged,
              Merged[p].query.scope = Merged[q].query.scope, Merged[p].query.scope # None
       PROVE  p = q
  BY <1>5, <1>6, <1>7, <1>8, <1>10
<1> QED
  BY <1>9, <1>10

\* Leaving a scope: the joins planned in it go below, and the scope it had goes to its join
LEMMA LeaveStep ==
    ASSUME IInv, Top.kind \in {"field", "exists", "path"}, NEW query, NEW rest, LeaveWith(query, rest),
           IsQueryRecord(query), query.scope = Below.query.scope
    PROVE  IInv' /\ JoinsGrow
<1> DEFINE n == Len(frames)
           new == frames'[n - 1]
<1>0. StackSound /\ KeysFresh /\ ScopesSound /\ UsesCovered /\ ScopesUnique /\ SeparateOnlyIfIncompatible
  BY DEF IInv
<1>1. /\ n \in Nat \ {0, 1} /\ DOMAIN frames = 1 .. n /\ DOMAIN frames' = 1 .. n - 1
      /\ frames' \in Seq({frames'[i] : i \in DOMAIN frames'}) /\ frames' # <<>>
      /\ \A i \in 1 .. n - 2 : frames'[i] = frames[i]
      /\ DOMAIN new = DOMAIN Below
      /\ new.kind = Below.kind /\ new.name = Below.name /\ new.query = query
      /\ new.relationships = Merged
      /\ new.uses = Below.uses \cup {OwnUse} \cup MovedUses
  <2>1. Top.kind # "query"
    OBVIOUS
  <2> QED
    BY <1>0, <2>1, LeftWith DEF Merged, Inner, OwnUse
<1>2. /\ relationship_name_counter' = CountAfter(Below.relationships, Top.name, Value)
      /\ UNCHANGED <<scope_name_counter, unrelated_joins>>
  BY DEF LeaveWith
<1>3. /\ n \in DOMAIN frames /\ n - 1 \in DOMAIN frames /\ n # n - 1
      /\ Top = frames[n] /\ Below = frames[n - 1] /\ IsFrame(Top) /\ IsFrame(Below)
      /\ \A p \in DOMAIN Inner : p[1] = Key
      /\ \/ Len(Key) = 1 /\ relationship_name_counter' = relationship_name_counter
         \/ /\ relationship_name_counter' = relationship_name_counter + 1
            /\ Len(Key) = 2 /\ Key[2] = relationship_name_counter
  BY <1>2, TopFrames
<1>4. /\ <<"frame", n>> \in Owners /\ ScopeOf(<<"frame", n>>) = Top
      /\ <<"frame", n - 1>> \in Owners /\ ScopeOf(<<"frame", n - 1>>) = Below
  BY <1>3, OwnersByKind
<1> HIDE DEF n, new
<1>5. ASSUME NEW o \in Owners'
      PROVE  \/ o = <<"frame", n - 1>> /\ ScopeOf(o)' = new
             \/ /\ o # <<"frame", n - 1>> /\ o # <<"frame", n>>
                /\ o \in Owners /\ ScopeOf(o)' = ScopeOf(o)
  <2>1. CASE \E i \in DOMAIN frames' : o = <<"frame", i>>
    <3>1. PICK i \in 1 .. n - 1 : o = <<"frame", i>>
      BY <1>1, <2>1
    <3>2. ScopeOf(o)' = frames'[i]
      BY <3>1 DEF ScopeOf
    <3>3. CASE i = n - 1
      BY <3>1, <3>2, <3>3 DEF new
    <3>4. CASE i # n - 1
      <4>1. i \in 1 .. n - 2 /\ i \in DOMAIN frames /\ i # n
        BY <1>1, <3>4
      <4> QED
        BY <1>1, <3>1, <3>2, <3>4, <4>1, OwnersByKind
    <3> QED
      BY <3>3, <3>4
  <2>2. CASE \E k \in DOMAIN unrelated_joins' : o = <<"unrelated", k>>
    <3>1. PICK k \in DOMAIN unrelated_joins : o = <<"unrelated", k>>
      BY <1>2, <2>2
    <3>2. ScopeOf(o)' = unrelated_joins[k]
      BY <1>2, <3>1 DEF ScopeOf
    <3>3. o # <<"frame", n - 1>> /\ o # <<"frame", n>>
      BY <3>1
    <3> QED
      BY <3>1, <3>2, <3>3, OwnersByKind
  <2> QED
    BY <2>1, <2>2 DEF Owners
<1>6. ASSUME NEW i \in 1 .. n - 1
      PROVE  \/ i = n - 1 /\ frames'[i] = new /\ frames[i] = Below
             \/ i \in 1 .. n - 2 /\ i # n /\ frames'[i] = frames[i]
  BY <1>1, <1>3 DEF new
\* The references in the scope that is below
<1>7. ASSUME NEW u \in new.uses
      PROVE  /\ IsUse(u)
             /\ Covers(Merged, Under(PlaceOf(u), u.need))
             /\ u.key # NameKey(u.need[<<>>].name) =>
                    ~Compatible(Merged, Under(u.at \o <<NameKey(u.need[<<>>].name)>>, u.need))
  <2>1. CASE u \in Below.uses
    BY <2>1, OldUse
  <2>2. CASE u = OwnUse
    BY <2>2, NewUse
  <2>3. CASE u \in MovedUses
    <3>1. PICK v \in Top.uses : u = [v EXCEPT !.at = <<Key>> \o @]
      BY <2>3 DEF MovedUses
    <3>2. /\ IsUse(u) /\ u.key = v.key /\ u.need = v.need
          /\ Covers(Merged, Under(PlaceOf(u), u.need))
          /\ v.key # NameKey(v.need[<<>>].name) =>
                 ~Compatible(Merged, Under(u.at \o <<NameKey(v.need[<<>>].name)>>, u.need))
      BY <3>1, MovedUse
    <3> QED
      BY <3>2
  <2> QED
    BY <1>1, <1>7, <2>1, <2>2, <2>3
<1>8. StackSound'
  <2>1. IsFrame(new)
    BY <1>1, <1>3, <1>7, MergedSound DEF IsFrame
  <2>2. \A i \in 1 .. n - 1 : IsFrame(frames'[i])
    BY <1>0, <1>1, <1>6, <2>1 DEF StackSound
  <2>3. frames'[1].kind = "query"
    <3>1. 1 \in 1 .. n - 1
      BY <1>1
    <3> QED
      BY <1>0, <1>1, <1>6, <3>1 DEF StackSound
  <2>4. relationship_name_counter' \in Nat /\ scope_name_counter' \in Nat
    BY <1>0, <1>2, <1>3 DEF StackSound
  <2> QED
    BY <1>1, <2>2, <2>3, <2>4 DEF StackSound
<1>9. KeysFresh'
  <2>1. 0 .. relationship_name_counter - 1 \subseteq 0 .. relationship_name_counter' - 1
        /\ relationship_name_counter \in Nat
    BY <1>0, <1>3 DEF StackSound
  <2>2. ASSUME NEW i \in 1 .. n, NEW p \in DOMAIN frames[i].relationships, Len(p[1]) = 2
        PROVE  p[1][2] \in 0 .. relationship_name_counter' - 1
    BY <1>0, <1>1, <2>1, <2>2 DEF KeysFresh
  <2>3. ASSUME NEW p \in DOMAIN Merged, Len(p[1]) = 2
        PROVE  p[1][2] \in 0 .. relationship_name_counter' - 1
    <3>1. CASE p \in DOMAIN Below.relationships
      BY <1>1, <1>3, <2>2, <2>3, <3>1
    <3>2. CASE p \in DOMAIN Inner
      <4>1. p[1] = Key
        BY <1>3, <3>2
      <4>2. relationship_name_counter' = relationship_name_counter + 1 /\ Key[2] = relationship_name_counter
        BY <1>3, <2>3, <4>1
      <4> QED
        BY <2>1, <4>1, <4>2
    <3> QED
      BY <3>1, <3>2, MergedSound
  <2>4. ASSUME NEW i \in 1 .. n - 1, NEW p \in DOMAIN frames'[i].relationships, Len(p[1]) = 2
        PROVE  p[1][2] \in 0 .. relationship_name_counter' - 1
    <3>1. CASE i = n - 1
      BY <1>1, <1>6, <2>3, <2>4, <3>1
    <3>2. CASE i \in 1 .. n - 2 /\ frames'[i] = frames[i]
      <4>1. i \in 1 .. n
        BY <1>1
      <4> QED
        BY <2>2, <2>4, <3>2, <4>1
    <3> QED
      BY <1>6, <3>1, <3>2
  <2> QED
    BY <1>0, <1>1, <1>2, <2>1, <2>4 DEF KeysFresh
\* The scopes in a scope that is left are in the one below
<1>10. JoinScopes(new) \subseteq JoinScopes(Below) \cup JoinScopes(Top) \cup ({Top.query.scope} \ {None})
  BY <1>1, MergedScopes DEF JoinScopes
<1>11. ScopesSound'
  <2>1. /\ \A o \in Owners : JoinScopes(ScopeOf(o)) \subseteq 0 .. scope_name_counter - 1
        /\ \A i \in 1 .. n : frames[i].query.scope # None =>
               /\ frames[i].query.scope \in 0 .. scope_name_counter - 1
               /\ \A j \in 1 .. n : frames[j].query.scope = frames[i].query.scope => i = j
               /\ \A o \in Owners : frames[i].query.scope \notin JoinScopes(ScopeOf(o))
    BY <1>0, <1>1 DEF ScopesSound
  <2>2. ASSUME NEW o \in Owners'
        PROVE  JoinScopes(ScopeOf(o)') \subseteq 0 .. scope_name_counter - 1
    <3>1. JoinScopes(new) \subseteq 0 .. scope_name_counter - 1
      BY <1>1, <1>3, <1>4, <1>10, <2>1
    <3> QED
      BY <1>5, <2>1, <3>1
  <2>3. ASSUME NEW i \in 1 .. n - 1
        PROVE  i \in 1 .. n /\ i # n /\ frames'[i].query.scope = frames[i].query.scope
    BY <1>1, <1>6
  <2>4. ASSUME NEW i \in 1 .. n - 1, frames'[i].query.scope # None
        PROVE  /\ frames'[i].query.scope \in 0 .. scope_name_counter - 1
               /\ \A j \in 1 .. n - 1 : frames'[j].query.scope = frames'[i].query.scope => i = j
               /\ \A o \in Owners' : frames'[i].query.scope \notin JoinScopes(ScopeOf(o)')
    <3> DEFINE scope == frames[i].query.scope
    <3>1. /\ scope = frames'[i].query.scope /\ scope # None /\ i \in 1 .. n /\ i # n
          /\ scope \in 0 .. scope_name_counter - 1
          /\ \A j \in 1 .. n : frames[j].query.scope = scope => i = j
          /\ \A o \in Owners : scope \notin JoinScopes(ScopeOf(o))
      BY <2>1, <2>3, <2>4
    <3>2. scope # Top.query.scope
      BY <1>1, <1>3, <3>1
    <3> HIDE DEF scope
    <3>3. scope \notin JoinScopes(new)
      BY <1>4, <1>10, <3>1, <3>2
    <3>4. \A o \in Owners' : scope \notin JoinScopes(ScopeOf(o)')
      BY <1>5, <3>1, <3>3
    <3>5. \A j \in 1 .. n - 1 : frames'[j].query.scope = scope => i = j
      BY <2>3, <3>1
    <3> QED
      BY <3>1, <3>4, <3>5
  <2> QED
    BY <1>1, <1>2, <2>2, <2>4 DEF ScopesSound
<1>12. UsesCovered'
  <2>1. ASSUME NEW o \in Owners', NEW u \in ScopeOf(o)'.uses
        PROVE  Covers(ScopeOf(o)'.relationships, Under(PlaceOf(u), u.need))
    <3>1. CASE ScopeOf(o)' = new
      BY <1>1, <1>7, <2>1, <3>1
    <3>2. CASE o \in Owners /\ ScopeOf(o)' = ScopeOf(o)
      BY <1>0, <2>1, <3>2 DEF UsesCovered
    <3> QED
      BY <1>5, <3>1, <3>2
  <2> QED
    BY <2>1 DEF UsesCovered
<1>13. ScopesUnique'
  <2> DEFINE at(o, p) == ScopeOf(o)'.relationships[p].query.scope
  <2>1. ASSUME NEW o \in Owners', NEW p \in DOMAIN ScopeOf(o)'.relationships, at(o, p) # None,
               ScopeOf(o)' = new
        PROVE  /\ p \in DOMAIN Merged /\ at(o, p) = Merged[p].query.scope
               /\ at(o, p) \in JoinScopes(Below) \cup JoinScopes(Top) \cup {Top.query.scope}
    BY <1>1, <2>1, MergedScopes
  \* A scope in an owner that did not change is none of those that were merged
  <2>2. ASSUME NEW o \in Owners', NEW p \in DOMAIN ScopeOf(o)'.relationships, at(o, p) # None,
               o # <<"frame", n - 1>>
        PROVE  /\ at(o, p) \notin JoinScopes(Below) \cup JoinScopes(Top)
               /\ at(o, p) # Top.query.scope
    <3>1. o # <<"frame", n>> /\ o \in Owners /\ ScopeOf(o)' = ScopeOf(o)
      BY <1>5, <2>2
    <3>2. at(o, p) \in JoinScopes(ScopeOf(o))
      BY <2>2, <3>1 DEF JoinScopes
    <3>3. at(o, p) # Top.query.scope
      BY <1>0, <1>3, <2>2, <3>1, <3>2 DEF ScopesSound
    <3>4. ASSUME NEW q \in DOMAIN Below.relationships PROVE at(o, p) # Below.relationships[q].query.scope
      BY <1>0, <1>4, <2>2, <3>1 DEF ScopesUnique
    <3>5. ASSUME NEW q \in DOMAIN Top.relationships PROVE at(o, p) # Top.relationships[q].query.scope
      BY <1>0, <1>4, <2>2, <3>1 DEF ScopesUnique
    <3> QED
      BY <3>3, <3>4, <3>5 DEF JoinScopes
  <2>3. ASSUME NEW o1 \in Owners', NEW o2 \in Owners',
               NEW p1 \in DOMAIN ScopeOf(o1)'.relationships, NEW p2 \in DOMAIN ScopeOf(o2)'.relationships,
               at(o1, p1) = at(o2, p2), at(o1, p1) # None
        PROVE  o1 = o2 /\ p1 = p2
    <3>1. CASE o1 = <<"frame", n - 1>> /\ o2 = <<"frame", n - 1>>
      <4>1. ScopeOf(o1)' = new /\ ScopeOf(o2)' = new
        BY <1>5, <3>1
      <4>2. /\ p1 \in DOMAIN Merged /\ at(o1, p1) = Merged[p1].query.scope
            /\ p2 \in DOMAIN Merged /\ at(o2, p2) = Merged[p2].query.scope
        BY <2>1, <2>3, <4>1
      <4> HIDE DEF at
      <4> QED
        BY <2>3, <3>1, <4>2, MergedScopes
    <3>2. CASE o1 = <<"frame", n - 1>> /\ o2 # <<"frame", n - 1>>
      <4>1. ScopeOf(o1)' = new
        BY <1>5, <3>2
      <4> HIDE DEF at
      <4> QED
        BY <2>1, <2>2, <2>3, <3>2, <4>1
    <3>3. CASE o1 # <<"frame", n - 1>> /\ o2 = <<"frame", n - 1>>
      <4>1. ScopeOf(o2)' = new
        BY <1>5, <3>3
      <4> HIDE DEF at
      <4> QED
        BY <2>1, <2>2, <2>3, <3>3, <4>1
    <3>4. CASE o1 # <<"frame", n - 1>> /\ o2 # <<"frame", n - 1>>
      <4>1. /\ o1 \in Owners /\ ScopeOf(o1)' = ScopeOf(o1)
            /\ o2 \in Owners /\ ScopeOf(o2)' = ScopeOf(o2)
        BY <1>5, <3>4
      <4> QED
        BY <1>0, <2>3, <4>1 DEF ScopesUnique
    <3> QED
      BY <3>1, <3>2, <3>3, <3>4
  <2> QED
    BY <2>3 DEF ScopesUnique
<1>14. SeparateOnlyIfIncompatible'
  <2>1. ASSUME NEW o \in Owners', NEW u \in ScopeOf(o)'.uses, u.key # NameKey(u.need[<<>>].name)
        PROVE  ~Compatible(ScopeOf(o)'.relationships, Under(u.at \o <<NameKey(u.need[<<>>].name)>>, u.need))
    <3>1. CASE ScopeOf(o)' = new
      BY <1>1, <1>7, <2>1, <3>1
    <3>2. CASE o \in Owners /\ ScopeOf(o)' = ScopeOf(o)
      BY <1>0, <2>1, <3>2 DEF SeparateOnlyIfIncompatible
    <3> QED
      BY <1>5, <3>1, <3>2
  <2> QED
    BY <2>1 DEF SeparateOnlyIfIncompatible
<1>15. JoinsGrow
  <2>1. ASSUME NEW i \in 1 .. n - 1 PROVE Covers(frames'[i].relationships, frames[i].relationships)
    BY <1>1, <1>6, CoversReflexive, MergedSound
  <2> QED
    BY <1>1, <2>1 DEF JoinsGrow
<1> QED
  BY <1>8, <1>9, <1>11, <1>12, <1>13, <1>14, <1>15 DEF IInv

\* Registering an unrelated join: the frame on top is kept under a key that no other has
LEMMA LeaveUnrelatedStep ==
    ASSUME IInv, LeaveUnrelated
    PROVE  IInv' /\ JoinsGrow
<1> DEFINE n == Len(frames)
           key == <<"__join", Top.name, relationship_name_counter>>
           query == Conjoin(Below.query, <<"unrelated", key, Top.query.predicate>>)
           new == [Below EXCEPT !.query = query]
           after == [SubSeq(frames, 1, n - 1) EXCEPT ![n - 1] = new]
<1>0. StackSound /\ KeysFresh /\ ScopesSound /\ UsesCovered /\ ScopesUnique /\ SeparateOnlyIfIncompatible
  BY DEF IInv
<1>1. /\ Top.kind = "unrelated"
      /\ unrelated_joins' = [k \in DOMAIN unrelated_joins \cup {key} |->
                                IF k = key THEN Top ELSE unrelated_joins[k]]
      /\ relationship_name_counter' = relationship_name_counter + 1
      /\ UNCHANGED scope_name_counter
  BY DEF LeaveUnrelated
<1>2. /\ n \in Nat \ {0, 1} /\ DOMAIN frames = 1 .. n /\ DOMAIN after = 1 .. n - 1
      /\ after \in Seq({after[i] : i \in DOMAIN after}) /\ after # <<>>
      /\ after[n - 1] = new
      /\ \A i \in 1 .. n - 2 : after[i] = frames[i]
  <2> HIDE DEF new
  <2>1. Top.kind # "query"
    BY <1>1
  <2> QED
    BY <1>0, <2>1, Left
<1>3. frames' = after
  BY DEF LeaveUnrelated
<1>4. n \in DOMAIN frames /\ n - 1 \in DOMAIN frames /\ Top = frames[n] /\ Below = frames[n - 1]
  BY <1>2 DEF Top, Below
<1>5. IsFrame(Below) /\ relationship_name_counter \in Nat /\ scope_name_counter \in Nat
  BY <1>0, <1>4 DEF StackSound
<1>6. IsQueryRecord(query) /\ query.scope = Below.query.scope
  BY <1>5 DEF IsFrame, IsQueryRecord, Conjoin
<1> HIDE DEF query
<1>7. /\ IsFrame(new) /\ new.kind = Below.kind /\ new.query = query
      /\ new.relationships = Below.relationships /\ new.uses = Below.uses
  BY <1>5, <1>6 DEF IsFrame
<1> HIDE DEF new, after, n
\* The frames that are left
<1>8. ASSUME NEW i \in 1 .. n - 1
      PROVE  /\ i \in 1 .. n /\ i # n /\ IsFrame(after[i])
             /\ after[i].kind = frames[i].kind /\ after[i].query.scope = frames[i].query.scope
             /\ after[i].relationships = frames[i].relationships
             /\ after[i].uses = frames[i].uses
  <2>1. i \in 1 .. n /\ i # n
    BY <1>2
  <2>2. CASE i = n - 1
    BY <1>2, <1>4, <1>6, <1>7, <2>1, <2>2
  <2>3. CASE i # n - 1
    <3>1. i \in 1 .. n - 2
      BY <1>2, <2>3
    <3>2. after[i] = frames[i]
      BY <1>2, <3>1
    <3>3. IsFrame(frames[i])
      BY <1>0, <1>2, <2>1 DEF StackSound
    <3> QED
      BY <2>1, <3>2, <3>3
  <2> QED
    BY <2>2, <2>3
<1>9. key \notin DOMAIN unrelated_joins /\ key[3] = relationship_name_counter
  <2>1. key[3] = relationship_name_counter
    OBVIOUS
  <2>2. \A k \in DOMAIN unrelated_joins : k[3] # relationship_name_counter
    BY <1>0, <1>5 DEF KeysFresh
  <2> QED
    BY <2>1, <2>2
<1>10. <<"frame", n>> \in Owners /\ ScopeOf(<<"frame", n>>) = Top
  BY <1>4, OwnersByKind
<1> HIDE DEF key
\* The owner on top has another name from now on, the others keep theirs
<1> DEFINE joined == <<"unrelated", key>>
           old(o) == IF o = joined THEN <<"frame", n>> ELSE o
<1>11. ASSUME NEW o \in Owners'
       PROVE  /\ old(o) \in Owners
              /\ o # joined => o # <<"frame", n>>
              /\ ScopeOf(o)'.relationships = ScopeOf(old(o)).relationships
              /\ ScopeOf(o)'.uses = ScopeOf(old(o)).uses
  <2>1. CASE \E i \in DOMAIN frames' : o = <<"frame", i>>
    <3>1. PICK i \in 1 .. n - 1 : o = <<"frame", i>>
      BY <1>2, <1>3, <2>1
    <3>2. ScopeOf(o)' = after[i]
      BY <1>3, <3>1 DEF ScopeOf
    <3>3. old(o) = o /\ o # <<"frame", n>>
      BY <1>8, <3>1
    <3>4. i \in DOMAIN frames
      BY <1>2, <1>8
    <3>5. o \in Owners /\ ScopeOf(o) = frames[i]
      BY <3>1, <3>4, OwnersByKind
    <3> QED
      BY <1>8, <3>2, <3>3, <3>5
  <2>2. CASE \E k \in DOMAIN unrelated_joins' : o = <<"unrelated", k>>
    <3>1. PICK k \in DOMAIN unrelated_joins \cup {key} : o = <<"unrelated", k>>
      BY <1>1, <2>2
    <3>2. ScopeOf(o)' = IF k = key THEN Top ELSE unrelated_joins[k]
      BY <1>1, <3>1 DEF ScopeOf
    <3>3. o # <<"frame", n>>
      BY <3>1
    <3>4. CASE k = key
      BY <1>10, <3>1, <3>2, <3>3, <3>4
    <3>5. CASE k # key
      <4>1. o # joined
        BY <3>1, <3>5
      <4>2. o \in Owners /\ ScopeOf(o) = unrelated_joins[k]
        BY <3>1, <3>5, OwnersByKind
      <4> QED
        BY <3>2, <3>3, <3>5, <4>1, <4>2
    <3> QED
      BY <3>4, <3>5
  <2> QED
    BY <2>1, <2>2 DEF Owners
<1>12. ASSUME NEW o1 \in Owners', NEW o2 \in Owners', old(o1) = old(o2) PROVE o1 = o2
  BY <1>11, <1>12
<1> HIDE DEF old
<1>13. StackSound'
  <2>1. 1 \in 1 .. n - 1
    BY <1>2
  <2>2. after[1].kind = "query"
    BY <1>0, <1>8, <2>1 DEF StackSound
  <2> QED
    BY <1>1, <1>2, <1>3, <1>5, <1>8, <2>2 DEF StackSound
<1>14. KeysFresh'
  <2>1. ASSUME NEW i \in 1 .. n - 1, NEW p \in DOMAIN after[i].relationships, Len(p[1]) = 2
        PROVE  p[1][2] \in 0 .. relationship_name_counter
    <3>1. i \in DOMAIN frames /\ p \in DOMAIN frames[i].relationships
      BY <1>2, <1>8, <2>1
    <3>2. p[1][2] \in 0 .. relationship_name_counter - 1
      BY <1>0, <2>1, <3>1 DEF KeysFresh
    <3> QED
      BY <1>5, <3>2
  <2>2. ASSUME NEW k \in DOMAIN unrelated_joins'
        PROVE  k[3] \in 0 .. relationship_name_counter
    <3>1. k = key \/ k \in DOMAIN unrelated_joins
      BY <1>1, <2>2
    <3> QED
      BY <1>0, <1>5, <1>9, <3>1 DEF KeysFresh
  <2>3. 0 .. relationship_name_counter' - 1 = 0 .. relationship_name_counter
    BY <1>1, <1>5
  <2> QED
    BY <1>2, <1>3, <2>1, <2>2, <2>3 DEF KeysFresh
<1>15. ASSUME NEW o \in Owners' PROVE JoinScopes(ScopeOf(o)') = JoinScopes(ScopeOf(old(o)))
  BY <1>11 DEF JoinScopes
<1>16. ScopesSound'
  <2>1. /\ \A o \in Owners : JoinScopes(ScopeOf(o)) \subseteq 0 .. scope_name_counter - 1
        /\ \A i \in 1 .. n : frames[i].query.scope # None =>
               /\ frames[i].query.scope \in 0 .. scope_name_counter - 1
               /\ \A j \in 1 .. n : frames[j].query.scope = frames[i].query.scope => i = j
               /\ \A o \in Owners : frames[i].query.scope \notin JoinScopes(ScopeOf(o))
    BY <1>0, <1>2 DEF ScopesSound
  <2>2. \A o \in Owners' : JoinScopes(ScopeOf(o)') \subseteq 0 .. scope_name_counter - 1
    BY <1>11, <1>15, <2>1
  <2>3. ASSUME NEW i \in 1 .. n - 1, after[i].query.scope # None
        PROVE  /\ after[i].query.scope \in 0 .. scope_name_counter - 1
               /\ \A j \in 1 .. n - 1 : after[j].query.scope = after[i].query.scope => i = j
               /\ \A o \in Owners' : after[i].query.scope \notin JoinScopes(ScopeOf(o)')
    BY <1>8, <1>11, <1>15, <2>1, <2>3
  <2> QED
    BY <1>1, <1>2, <1>3, <2>2, <2>3 DEF ScopesSound
<1>17. UsesCovered'
  BY <1>0, <1>11 DEF UsesCovered
<1>18. ScopesUnique'
  BY <1>0, <1>11, <1>12 DEF ScopesUnique
<1>19. SeparateOnlyIfIncompatible'
  BY <1>0, <1>11 DEF SeparateOnlyIfIncompatible
<1>20. JoinsGrow
  BY <1>2, <1>3, <1>8, CoversReflexive DEF JoinsGrow
<1> QED
  BY <1>13, <1>14, <1>16, <1>17, <1>18, <1>19, <1>20 DEF IInv

\* A key is typed like a field that refers to it
LEMMA FieldsOfColumns ==
    ASSUME NEW columns, columns \subseteq FieldNames
    PROVE  IsFields([c \in columns |-> Column(c, None)])
BY DEF IsFields, Field, Column

\* The initial state satisfies the invariant
LEMMA InitSound == Init => IInv
<1> SUFFICES ASSUME Init PROVE IInv
  OBVIOUS
<1>1. PICK q \in FieldQueries : frames = <<Frame("query", None, None, Query(q), None, <<>>)>>
  BY DEF Init
<1> DEFINE f == Frame("query", None, None, Query(q), None, <<>>)
<1>2. IsQueryRecord(Query(q)) /\ Query(q).scope = None
  BY QueriesAssumption DEF Query, IsQueryRecord
<1>3. IsFrame(f) /\ f.kind = "query" /\ f.query = Query(q) /\ f.relationships = EmptyMap /\ f.uses = {}
  BY <1>2, FrameSound
<1> HIDE DEF f
<1>4. /\ frames = <<f>> /\ DOMAIN frames = {1} /\ frames[1] = f /\ frames # <<>>
      /\ frames \in Seq({frames[i] : i \in DOMAIN frames})
  <2>1. frames = <<f>>
    BY <1>1 DEF f
  <2>2. frames \in Seq({f}) /\ DOMAIN frames = {1} /\ frames[1] = f /\ frames # <<>>
    BY <2>1
  <2> QED
    BY <2>1, <2>2, OwnElements
<1>5. DOMAIN EmptyMap = {}
  BY DEF EmptyMap
<1>6. unrelated_joins = EmptyMap /\ relationship_name_counter = 0 /\ scope_name_counter = 0
  BY DEF Init
<1>7. ASSUME NEW o \in Owners
      PROVE  DOMAIN ScopeOf(o).relationships = {} /\ ScopeOf(o).uses = {} /\ JoinScopes(ScopeOf(o)) = {}
  <2>1. ScopeOf(o) = f
    BY <1>4, <1>5, <1>6, OwnersByKind
  <2> QED
    BY <1>3, <1>5, <2>1 DEF JoinScopes
<1>8. StackSound
  BY <1>3, <1>4, <1>6 DEF StackSound
<1>9. KeysFresh
  BY <1>3, <1>4, <1>5, <1>6 DEF KeysFresh
<1>10. ScopesSound
  BY <1>2, <1>3, <1>4, <1>7 DEF ScopesSound
<1>11. UsesCovered /\ ScopesUnique /\ SeparateOnlyIfIncompatible
  BY <1>7 DEF UsesCovered, ScopesUnique, SeparateOnlyIfIncompatible
<1> QED
  BY <1>8, <1>9, <1>10, <1>11 DEF IInv

\* Every step keeps the invariant and the joins
LEMMA NextSound == IInv /\ [Next]_vars => IInv' /\ JoinsGrow
<1> SUFFICES ASSUME IInv, [Next]_vars PROVE IInv' /\ JoinsGrow
  OBVIOUS
<1>1. ASSUME NEW r \in Relationships, NEW a \in Arguments, NEW q \in FieldQueries, EnterField(r, a, q)
      PROVE  IInv' /\ JoinsGrow
  <2> DEFINE query == [Query(q) EXCEPT !.scope = scope_name_counter]
             frame == Frame("field", r, a, query, None, <<>>)
  <2>1. IsQueryRecord(query) /\ query.scope = scope_name_counter
    BY QueriesAssumption DEF Query, IsQueryRecord
  <2>2. Enter(frame, "fields") /\ scope_name_counter' = scope_name_counter + 1
    BY <1>1 DEF EnterField
  <2> HIDE DEF query
  <2>3. IsFrame(frame) /\ frame.query = query /\ frame.relationships = EmptyMap /\ frame.uses = {}
    BY <2>1, FrameSound
  <2> HIDE DEF frame
  <2> QED
    BY <2>1, <2>2, <2>3, EnterStep
<1>2. ASSUME NEW r \in Relationships, NEW a \in Arguments, NEW p \in ExistsPredicates, EnterExists(r, a, p)
      PROVE  IInv' /\ JoinsGrow
  <2> DEFINE fields == IF p = None THEN None ELSE [c \in p |-> Column(c, None)]
             query == [DefaultQuery EXCEPT !.predicate = p, !.fields = fields]
             frame == Frame("exists", r, a, query, None, <<>>)
  <2>1. IsFields(fields)
    <3>1. CASE p = None
      BY <3>1 DEF IsFields
    <3>2. CASE p # None
      BY <3>2, PredicatesAssumption, FieldsOfColumns
    <3> QED
      BY <3>1, <3>2
  <2>2. Enter(frame, "predicate") /\ scope_name_counter' = scope_name_counter
    BY <1>2 DEF EnterExists
  <2> HIDE DEF fields
  <2>3. IsQueryRecord(query) /\ query.scope = None
    BY <2>1 DEF DefaultQuery, IsQueryRecord
  <2> HIDE DEF query
  <2>4. IsFrame(frame) /\ frame.query = query /\ frame.relationships = EmptyMap /\ frame.uses = {}
    BY <2>3, FrameSound
  <2> HIDE DEF frame
  <2> QED
    BY <2>2, <2>3, <2>4, EnterStep
<1>3. ASSUME NEW r \in Relationships, NEW a \in Arguments, NEW e \in PathElements, NEW into,
             EnterPath(r, a, e, into)
      PROVE  IInv' /\ JoinsGrow
  <2> DEFINE fields == IF e.last THEN [c \in e.columns |-> Column(c, None)] ELSE None
             query == [DefaultQuery EXCEPT !.predicate = e.predicate, !.fields = fields]
             frame == Frame("path", r, a, query, into, IF e.last THEN <<>> ELSE None)
             phase == IF into = "rest" THEN Top.phase ELSE into
  <2>1. IsFields(fields)
    <3>1. e.columns \subseteq FieldNames
      BY ElementsAssumption DEF IsElement
    <3>2. CASE e.last
      BY <3>1, <3>2, FieldsOfColumns
    <3>3. CASE ~e.last
      BY <3>3 DEF IsFields
    <3> QED
      BY <3>2, <3>3
  <2>2. Enter(frame, phase) /\ scope_name_counter' = scope_name_counter
    BY <1>3 DEF EnterPath
  <2> HIDE DEF fields, phase
  <2>3. IsQueryRecord(query) /\ query.scope = None
    BY <2>1 DEF DefaultQuery, IsQueryRecord
  <2> HIDE DEF query
  <2>4. IsFrame(frame) /\ frame.query = query /\ frame.relationships = EmptyMap /\ frame.uses = {}
    BY <2>3, FrameSound
  <2> HIDE DEF frame
  <2> QED
    BY <2>2, <2>3, <2>4, EnterStep
<1>4. ASSUME NEW c \in Collections, NEW a \in Arguments, NEW p \in ExistsPredicates, EnterUnrelated(c, a, p)
      PROVE  IInv' /\ JoinsGrow
  <2> DEFINE query == [DefaultQuery EXCEPT !.predicate = p]
             frame == Frame("unrelated", c, a, query, None, <<>>)
  <2>1. IsQueryRecord(query) /\ query.scope = None
    BY DEF DefaultQuery, IsQueryRecord, IsFields
  <2>2. Enter(frame, "predicate") /\ scope_name_counter' = scope_name_counter
    BY <1>4 DEF EnterUnrelated
  <2> HIDE DEF query
  <2>3. IsFrame(frame) /\ frame.query = query /\ frame.relationships = EmptyMap /\ frame.uses = {}
    BY <2>1, FrameSound
  <2> HIDE DEF frame
  <2> QED
    BY <2>1, <2>2, <2>3, EnterStep
\* What is below, if the scope on top is that of a relationship
<1>5. ASSUME Top.kind \in {"field", "exists", "path"} PROVE IsQueryRecord(Below.query) /\ Key \in Keys
  BY <1>5, TopFrames DEF IsFrame
<1>6. ASSUME NEW n \in FieldNames, LeaveField(n) PROVE IInv' /\ JoinsGrow
  <2> DEFINE ref == [m \in {n} |-> Related(Key)]
             fields == UnifyFields(Below.query.fields, ref)
             query == [Below.query EXCEPT !.fields = fields]
  <2>1. /\ Top.kind = "field"
        /\ Below.query.fields # None => n \notin DOMAIN Below.query.fields
        /\ LeaveWith(query, Below.rest)
    BY <1>6 DEF LeaveField
  <2>2. IsQueryRecord(Below.query) /\ Key \in Keys
    BY <1>5, <2>1
  <2>3. IsFields(ref) /\ DOMAIN ref = {n}
    BY <2>2 DEF IsFields, Field, Related
  <2> HIDE DEF ref
  <2>4. IsFields(fields)
    <3>1. FieldsAgree(Below.query.fields, ref)
      BY <2>1, <2>3 DEF FieldsAgree
    <3> QED
      BY <2>2, <2>3, <3>1, FieldsUnified DEF IsQueryRecord
  <2> HIDE DEF fields
  <2>5. IsQueryRecord(query) /\ query.scope = Below.query.scope
    BY <2>2, <2>4 DEF IsQueryRecord
  <2> HIDE DEF query
  <2> QED
    BY <2>1, <2>5, LeaveStep
<1>7. ASSUME LeaveExists PROVE IInv' /\ JoinsGrow
  <2> DEFINE query == Conjoin(Below.query, <<"exists", Key, Top.query.predicate>>)
  <2>1. Top.kind = "exists" /\ LeaveWith(query, Below.rest)
    BY <1>7 DEF LeaveExists
  <2>2. IsQueryRecord(query) /\ query.scope = Below.query.scope
    BY <1>5, <2>1 DEF IsQueryRecord, Conjoin
  <2> HIDE DEF query
  <2> QED
    BY <2>1, <2>2, LeaveStep
<1>8. ASSUME LeavePath PROVE IInv' /\ JoinsGrow
  <2> DEFINE path == <<Key>> \o Top.rest
  <2>1. Top.kind = "path"
    BY <1>8 DEF LeavePath
  <2>2. IsQueryRecord(Below.query)
    BY <1>5, <2>1
  <2>3. \/ LeaveWith(OrderBy(Below.query, path), Below.rest)
        \/ LeaveWith(Conjoin(Below.query, <<"path", path>>), Below.rest)
        \/ LeaveWith([Below.query EXCEPT !.groups = @ \cup {path}], Below.rest)
        \/ LeaveWith(Below.query, path)
    BY <1>8 DEF LeavePath
  <2> HIDE DEF path
  <2>4. ASSUME NEW query, IsQueryRecord(query), query.scope = Below.query.scope, NEW rest,
               LeaveWith(query, rest)
        PROVE  IInv' /\ JoinsGrow
    BY <2>1, <2>4, LeaveStep
  <2>5. CASE LeaveWith(OrderBy(Below.query, path), Below.rest)
    <3> DEFINE query == OrderBy(Below.query, path)
    <3>1. IsQueryRecord(query) /\ query.scope = Below.query.scope
      BY <2>2 DEF IsQueryRecord, OrderBy
    <3> HIDE DEF query
    <3> QED
      BY <2>4, <2>5, <3>1 DEF query
  <2>6. CASE LeaveWith(Conjoin(Below.query, <<"path", path>>), Below.rest)
    <3> DEFINE query == Conjoin(Below.query, <<"path", path>>)
    <3>1. IsQueryRecord(query) /\ query.scope = Below.query.scope
      BY <2>2 DEF IsQueryRecord, Conjoin
    <3> HIDE DEF query
    <3> QED
      BY <2>4, <2>6, <3>1 DEF query
  <2>7. CASE LeaveWith([Below.query EXCEPT !.groups = @ \cup {path}], Below.rest)
    <3> DEFINE query == [Below.query EXCEPT !.groups = @ \cup {path}]
    <3>1. IsQueryRecord(query) /\ query.scope = Below.query.scope
      BY <2>2 DEF IsQueryRecord
    <3> HIDE DEF query
    <3> QED
      BY <2>4, <2>7, <3>1 DEF query
  <2>8. CASE LeaveWith(Below.query, path)
    BY <2>2, <2>4, <2>8
  <2> QED
    BY <2>3, <2>5, <2>6, <2>7, <2>8
<1>9. ASSUME LeaveUnrelated PROVE IInv' /\ JoinsGrow
  BY <1>9, LeaveUnrelatedStep
<1>10. ASSUME UNCHANGED vars PROVE IInv' /\ JoinsGrow
  <2>1. UNCHANGED <<frames, relationship_name_counter, scope_name_counter, unrelated_joins>>
    BY <1>10 DEF vars
  <2>2. IInv'
    <3>1. StackSound' /\ KeysFresh'
      BY <2>1 DEF IInv, StackSound, KeysFresh
    <3>2. Owners' = Owners /\ \A o : ScopeOf(o)' = ScopeOf(o)
      BY <2>1 DEF Owners, ScopeOf
    <3>3. ScopesSound'
      BY <2>1, <3>2 DEF IInv, ScopesSound
    <3>4. UsesCovered' /\ ScopesUnique' /\ SeparateOnlyIfIncompatible'
      BY <3>2 DEF IInv, UsesCovered, ScopesUnique, SeparateOnlyIfIncompatible
    <3> QED
      BY <3>1, <3>3, <3>4 DEF IInv
  <2>3. JoinsGrow
    BY <2>1, CoversReflexive DEF JoinsGrow
  <2> QED
    BY <2>2, <2>3
<1> QED
  BY <1>1, <1>2, <1>3, <1>4, <1>6, <1>7, <1>8, <1>9, <1>10 DEF Next

-----------------------------------------------------------------------------
(* Theorems                                                                *)

\* The inductive invariant holds in every reachable state: the registry stays well formed
\* whatever references a request has, in whatever order and however deep they are nested.
THEOREM RegistrySound == Spec => []IInv
BY InitSound, NextSound, PTL DEF Spec

\* The key that a reference was given leads, from the scope where it ends up, to a join of its
\* relationship with its window and predicate that yields all it asked for, unless a relationship
\* is called like a generated key.
THEOREM UsesStayCovered == Spec => []UsesCovered
<1>1. IInv => UsesCovered
  BY DEF IInv
<1> QED
  BY <1>1, RegistrySound, PTL

\* Two joins of a plan never have the same scope, so a variable is bound once.
THEOREM ScopesStayUnique == Spec => []ScopesUnique
<1>1. IInv => ScopesUnique
  BY DEF IInv
<1> QED
  BY <1>1, RegistrySound, PTL

\* A reference has a $lookup of its own only if sharing the one under its name would change
\* what is read through it, in the end as much as when it was registered.  Nested selections,
\* which may be incompatible too, are plain columns here.
THEOREM SeparateForCause == Spec => []SeparateOnlyIfIncompatible
<1>1. IInv => SeparateOnlyIfIncompatible
  BY DEF IInv
<1> QED
  BY <1>1, RegistrySound, PTL

\* No join of a scope that is being planned disappears or yields less, unless a relationship is
\* called like a generated key.
THEOREM JoinsNeverShrink == Spec => JoinsOnlyGrow
<1>1. IInv /\ [Next]_vars => [JoinsGrow]_vars
  BY NextSound
<1>2. Spec => [][JoinsGrow]_vars
  BY <1>1, RegistrySound, PTL DEF Spec
<1>3. JoinsGrow <=> \A i \in DOMAIN frames \cap DOMAIN frames' :
                        Covers(frames'[i].relationships, frames[i].relationships)
  BY DEF JoinsGrow
<1> QED
  BY <1>2, <1>3, PTL DEF JoinsOnlyGrow
=============================================================================
