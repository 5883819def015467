--------------------------- MODULE QueryPlanState ---------------------------
(***************************************************************************)
(* The registry of joins that the planner keeps while it walks a query     *)
(* request (ndc-query-plan/src/plan_for_query_request): each scope, the    *)
(* query or a sub-query, has a map of relationships, each reference to a   *)
(* relationship is planned in a scope of its own and then registered in    *)
(* the enclosing one, and references that can share a $lookup do.          *)
(*                                                                         *)
(* A map of relationships holds maps in turn.  Here it is flat: a function *)
(* from places, the keys on the way to a join, to joins.  A relationship   *)
(* value is such a function too, with the relationship itself at place     *)
(* <<>>.  Maps that are unified as trees agree place by place.             *)
(***************************************************************************)
EXTENDS Naturals, Sequences, FiniteSets

CONSTANTS
    Relationships,     \* the names in collection_relationships
    Collections,       \* the targets of an "exists" in an unrelated collection
    Arguments,         \* the arguments a relationship may be given, all together
    FieldNames,        \* the names of fields in a response, and of columns
    NestedNames,       \* the names of fields nested in a column
    FieldQueries,      \* what a relationship field may ask for, see Query
    ExistsPredicates,  \* None, or the columns an "exists" compares
    PathElements,      \* the elements of paths, see IsElement
    None,
    MaxUses,           \* bound on the references in a request
    MaxDepth           \* bound on the nesting of scopes

VARIABLES
    frames,                     \* the stack of scopes, that of the whole query first
    relationship_name_counter,  \* shared by all scopes
    scope_name_counter,         \* shared by all scopes
    unrelated_joins,            \* shared by all scopes
    references                  \* how many references were met, see MaxUses

vars == <<frames, relationship_name_counter, scope_name_counter, unrelated_joins, references>>

EmptyMap == <<>>

\* aggregates, limit (and offset): None or a value that is only compared
\* groups:    None or the dimensions: columns, and paths
\* fields:    None, or what each field name selects: a column, of which None (everything)
\*            or some nested fields, or a relationship by its key
\* order_by:  None or the paths it follows
\* predicate: None or its conjuncts: columns, and references with their keys
\* scope:     None or the number of a named scope
Column(c, nested) == [column |-> c, nested |-> nested]
Related(key)      == [relationship |-> key]
Query(q) == [aggregates |-> q.aggregates, fields |-> q.fields, groups |-> q.groups,
             limit |-> q.limit, order_by |-> None, predicate |-> q.predicate, scope |-> None]
DefaultQuery == [aggregates |-> None, fields |-> None, groups |-> None,
                 limit |-> None, order_by |-> None, predicate |-> None, scope |-> None]

\* A key is the name of a relationship, and a number if the name was not to be shared
Keys  == Seq(Relationships \cup Nat)
Field == [column : FieldNames, nested : {None} \cup SUBSET NestedNames] \cup [relationship : Keys]
IsFields(f) == f # None => /\ DOMAIN f \subseteq FieldNames
                           /\ \A n \in DOMAIN f : f[n] \in Field

\* An element of a path: the predicate it has, and the columns asked of it if it is the last
IsElement(e) == /\ DOMAIN e = {"predicate", "last", "columns"}
                /\ e.last \in BOOLEAN
                /\ e.columns \subseteq FieldNames

ASSUME QueriesAssumption == \A q \in FieldQueries : IsFields(q.fields)
ASSUME PredicatesAssumption == \A p \in ExistsPredicates : p # None => p \subseteq FieldNames
ASSUME ElementsAssumption == \A e \in PathElements : IsElement(e)
ASSUME NoneAssumption == /\ None \notin Nat /\ None # {}
                         /\ \A names \in SUBSET FieldNames : None \notin [names -> Field]
ASSUME BoundsAssumption == MaxUses \in Nat /\ MaxDepth \in Nat

-----------------------------------------------------------------------------
(* Unification (unify_relationship_references.rs)                          *)

\* And [] filters nothing
Simplify(predicate) == IF predicate = {} THEN None ELSE predicate

\* unify_options over values that only unify if they are equal
Agree(a, b)  == a = None \/ b = None \/ a = b
Either(a, b) == IF a = None THEN b ELSE a

SameField(a, b) == IF {"column"} \subseteq DOMAIN a \cap DOMAIN b
                   THEN a.column = b.column
                   ELSE a = b

\* The nested fields of both, or those of one if the other asks for the whole column.  Nested fields
\* are plain columns, which unify; an object and an array in one place would not, and are left out.
UnifyNested(a, b) == IF a = None THEN b ELSE IF b = None THEN a ELSE a \cup b

UnifyField(a, b) == IF "column" \in DOMAIN a
                    THEN Column(a.column, UnifyNested(a.nested, b.nested))
                    ELSE b

FieldsAgree(f, g) ==
    f = None \/ g = None \/ \A n \in DOMAIN f \cap DOMAIN g : SameField(f[n], g[n])

\* Mutant of UnifyFields: the fields of the later reference replace those of the earlier ones
UnifyFieldsLast(f, g) == IF g = None THEN f ELSE g

UnifyFields(f, g) ==
    IF f = None THEN g ELSE IF g = None THEN f
    ELSE [n \in DOMAIN f \cup DOMAIN g |-> IF n \notin DOMAIN g THEN f[n]
                                           ELSE IF n \notin DOMAIN f THEN g[n]
                                           ELSE UnifyField(f[n], g[n])]

\* Mutant of CompatibleQueries: the limits are not compared
CompatibleQueriesAnyLimit(a, b) ==
    /\ a.order_by = b.order_by
    /\ Simplify(a.predicate) = Simplify(b.predicate)
    /\ Agree(a.scope, b.scope) /\ Agree(a.aggregates, b.aggregates)
    /\ FieldsAgree(a.fields, b.fields) /\ Agree(a.groups, b.groups)

CompatibleQueries(a, b) ==
    /\ a.limit = b.limit
    /\ a.order_by = b.order_by
    /\ Simplify(a.predicate) = Simplify(b.predicate)
    /\ Agree(a.scope, b.scope)
    /\ Agree(a.aggregates, b.aggregates)
    /\ FieldsAgree(a.fields, b.fields)
    /\ Agree(a.groups, b.groups)

UnifyQuery(a, b) ==
    [aggregates |-> Either(a.aggregates, b.aggregates),
     fields     |-> UnifyFields(a.fields, b.fields),
     groups     |-> Either(a.groups, b.groups),
     limit      |-> a.limit,
     order_by   |-> a.order_by,
     predicate  |-> Simplify(a.predicate),
     scope      |-> Either(a.scope, b.scope)]

CompatibleJoins(a, b) == a.arguments = b.arguments /\ CompatibleQueries(a.query, b.query)
UnifyJoin(a, b) == [name |-> a.name, arguments |-> a.arguments, query |-> UnifyQuery(a.query, b.query)]

\* unify_relationship_references, with unify_nested_relationships
Compatible(a, b) == \A p \in DOMAIN a \cap DOMAIN b : CompatibleJoins(a[p], b[p])
Unify(a, b) == [p \in DOMAIN a \cup DOMAIN b |-> IF p \notin DOMAIN b THEN a[p]
                                                 ELSE IF p \notin DOMAIN a THEN b[p]
                                                 ELSE UnifyJoin(a[p], b[p])]

-----------------------------------------------------------------------------
(* The registry (query_plan_state.rs)                                      *)

\* A unique key is the string "{name}_{count}".  As a pair it is the name of no relationship: what holds
\* here is about requests in which none is called like that.
NameKey(name)          == <<name>>
UniqueKey(name, count) == <<name, count>>

\* A relationship value as part of a map, at a place in it
Under(place, r) == [p \in {place \o q : q \in DOMAIN r} |-> r[SubSeq(p, Len(place) + 1, Len(p))]]

\* Mutant of KeyFor: a relationship that is registered is never unified with
KeyForFirst(m, name, r) == IF <<NameKey(name)>> \notin DOMAIN m
                           THEN NameKey(name)
                           ELSE UniqueKey(name, relationship_name_counter)

\* register_relationship: the key of the reference.  What has no entry yet agrees with anything.
KeyFor(m, name, r) == IF Compatible(m, Under(<<NameKey(name)>>, r))
                      THEN NameKey(name)
                      ELSE UniqueKey(name, relationship_name_counter)

\* register_relationship: the map of the scope from then on.  Under a unique key there is
\* nothing to unify with.
Register(m, name, r) == Unify(m, Under(<<KeyFor(m, name, r)>>, r))

CountAfter(m, name, r) == IF KeyFor(m, name, r) = NameKey(name)
                          THEN relationship_name_counter
                          ELSE relationship_name_counter + 1

-----------------------------------------------------------------------------
(* The scopes.  The one on top is being planned; its kind says what for.   *)

Top   == frames[Len(frames)]
Below == frames[Len(frames) - 1]

\* uses:  what was given out so far: the place of a scope, a key in it, who reads the join
\*        there, and the relationship value that was registered for it
\* phase: plan_for_query plans fields, then the order, then the predicate, then the groups
\* into:  where the keys of a path go, or "rest": to the path element before it
\* rest:  the keys of the path elements that follow, None if they were not planned yet
Frame(kind, name, arguments, query, into, rest) ==
    [kind |-> kind, name |-> name, arguments |-> arguments, query |-> query,
     relationships |-> EmptyMap, uses |-> {}, phase |-> "fields", into |-> into, rest |-> rest]

\* state_for_subquery, after the frame on top got to a phase
Enter(frame, phase) ==
    /\ references < MaxUses /\ Len(frames) <= MaxDepth
    /\ references' = references + 1
    /\ frames' = Append([frames EXCEPT ![Len(frames)].phase = phase], frame)
    /\ UNCHANGED <<relationship_name_counter, unrelated_joins>>

\* The relationship value that the frame on top ends up as.  The predicate of an
\* "exists" is not part of the query of its relationship.
Value == LET query == IF Top.kind = "exists" THEN [Top.query EXCEPT !.predicate = None] ELSE Top.query
         IN  [p \in {<<>>} \cup DOMAIN Top.relationships |->
                 IF p = <<>> THEN [name |-> Top.name, arguments |-> Top.arguments, query |-> query]
                 ELSE Top.relationships[p]]

\* The frame on top is done: it is registered below, and its key goes into the query below
Key == KeyFor(Below.relationships, Top.name, Value)

MovedUses == {[u EXCEPT !.at = <<Key>> \o @] : u \in Top.uses}
Registered(query, rest) ==
    [Below EXCEPT !.relationships = Register(@, Top.name, Value),
                  !.uses = @ \cup {[at |-> <<>>, key |-> Key, kind |-> Top.kind, need |-> Value]} \cup MovedUses,
                  !.query = query,
                  !.rest = rest]

LeaveWith(query, rest) ==
    /\ frames' = [SubSeq(frames, 1, Len(frames) - 1) EXCEPT ![Len(frames) - 1] = Registered(query, rest)]
    /\ relationship_name_counter' = CountAfter(Below.relationships, Top.name, Value)
    /\ UNCHANGED <<scope_name_counter, unrelated_joins, references>>

\* plan_for_expression adds a conjunct, plan_for_order_by an element
Conjoin(query, x) == [query EXCEPT !.predicate = (IF @ = None THEN {} ELSE @) \cup {x}]
OrderBy(query, x) == [query EXCEPT !.order_by  = (IF @ = None THEN {} ELSE @) \cup {x}]

IsQuery(frame) == frame.kind \in {"query", "field"}

\* A frame that has a predicate, or may be given one: the path elements after it are planned first
MayCompare == /\ Top.rest # None /\ Top.phase # "groups"
              /\ Top.kind \in {"exists", "unrelated"} => Top.query.predicate # None

\* Mutant of EnterField: the counter of scopes is not shared
EnterFieldUncounted(name, arguments, q) ==
    /\ IsQuery(Top) /\ Top.phase = "fields"
    /\ Enter(Frame("field", name, arguments, [Query(q) EXCEPT !.scope = scope_name_counter], None, <<>>),
             "fields")
    /\ UNCHANGED scope_name_counter

\* type_annotated_field: a scope of its own, for variables that refer to its rows
EnterField(name, arguments, q) ==
    /\ IsQuery(Top) /\ Top.phase = "fields"
    /\ Enter(Frame("field", name, arguments, [Query(q) EXCEPT !.scope = scope_name_counter], None, <<>>),
             "fields")
    /\ scope_name_counter' = scope_name_counter + 1

LeaveField(n) ==
    /\ Top.kind = "field"
    /\ Below.query.fields # None => n \notin DOMAIN Below.query.fields
    /\ LeaveWith([Below.query EXCEPT !.fields = UnifyFields(@, [m \in {n} |-> Related(Key)])], Below.rest)

\* plan_for_exists in a related collection, with the fields its predicate compares
EnterExists(name, arguments, predicate) ==
    /\ MayCompare
    /\ Enter(Frame("exists", name, arguments,
                   [DefaultQuery EXCEPT !.predicate = predicate,
                                        !.fields = IF predicate = None THEN None
                                                   ELSE [c \in predicate |-> Column(c, None)]],
                   None, <<>>),
             "predicate")
    /\ UNCHANGED scope_name_counter

LeaveExists ==
    /\ Top.kind = "exists"
    /\ LeaveWith(Conjoin(Below.query, <<"exists", Key, Top.query.predicate>>), Below.rest)

\* plan_for_relationship_path, for an order, a dimension, or a comparison with a related column
EnterPath(name, arguments, element, into) ==
    /\ \/ into = "order_by" /\ IsQuery(Top) /\ Top.phase \in {"fields", "order_by"}
       \/ into = "predicate" /\ MayCompare
       \/ into = "groups" /\ IsQuery(Top) /\ Top.query.groups # None
       \/ into = "rest" /\ Top.kind = "path" /\ Top.rest = None
    /\ Enter(Frame("path", name, arguments,
                   [DefaultQuery EXCEPT !.predicate = element.predicate,
                                        !.fields = IF element.last
                                                   THEN [c \in element.columns |-> Column(c, None)]
                                                   ELSE None],
                   into, IF element.last THEN <<>> ELSE None),
             IF into = "rest" THEN Top.phase ELSE into)
    /\ UNCHANGED scope_name_counter

LeavePath ==
    /\ Top.kind = "path" /\ Top.rest # None
    /\ LET path == <<Key>> \o Top.rest
       IN  \/ Top.into = "order_by"  /\ LeaveWith(OrderBy(Below.query, path), Below.rest)
           \/ Top.into = "predicate" /\ LeaveWith(Conjoin(Below.query, <<"path", path>>), Below.rest)
           \/ Top.into = "groups"    /\ LeaveWith([Below.query EXCEPT !.groups = @ \cup {path}], Below.rest)
           \/ Top.into = "rest"      /\ LeaveWith(Below.query, path)

\* plan_for_exists in an unrelated collection, and register_unrelated_join
EnterUnrelated(collection, arguments, predicate) ==
    /\ MayCompare
    /\ Enter(Frame("unrelated", collection, arguments, [DefaultQuery EXCEPT !.predicate = predicate],
                   None, <<>>),
             "predicate")
    /\ UNCHANGED scope_name_counter

LeaveUnrelated ==
    /\ Top.kind = "unrelated"
    /\ LET key == <<"__join", Top.name, relationship_name_counter>>
       IN  /\ unrelated_joins' =
                  [k \in DOMAIN unrelated_joins \cup {key} |-> IF k = key THEN Top ELSE unrelated_joins[k]]
           /\ LET query == Conjoin(Below.query, <<"unrelated", key, Top.query.predicate>>)
              IN  frames' = [SubSeq(frames, 1, Len(frames) - 1) EXCEPT ![Len(frames) - 1] =
                                [Below EXCEPT !.query = query]]
    /\ relationship_name_counter' = relationship_name_counter + 1
    /\ UNCHANGED <<scope_name_counter, references>>

Init == /\ \E q \in FieldQueries :
               frames = <<Frame("query", None, None, Query(q), None, <<>>)>>
        /\ relationship_name_counter = 0 /\ scope_name_counter = 0
        /\ unrelated_joins = EmptyMap /\ references = 0

Next == \/ \E r \in Relationships, a \in Arguments :
              \/ \E q \in FieldQueries : EnterField(r, a, q)
              \/ \E p \in ExistsPredicates : EnterExists(r, a, p)
              \/ \E e \in PathElements, into \in {"order_by", "predicate", "groups", "rest"} : EnterPath(r, a, e, into)
        \/ \E c \in Collections, a \in Arguments, p \in ExistsPredicates : EnterUnrelated(c, a, p)
        \/ \E n \in FieldNames : LeaveField(n)
        \/ LeaveExists \/ LeavePath \/ LeaveUnrelated

Spec == Init /\ [][Next]_vars

-----------------------------------------------------------------------------
(* Properties                                                              *)

\* Every scope there is: those being planned and those of unrelated joins
Owners == {<<"frame", i>> : i \in DOMAIN frames} \cup {<<"unrelated", k>> : k \in DOMAIN unrelated_joins}
ScopeOf(o) == IF o[1] = "frame" THEN frames[o[2]] ELSE unrelated_joins[o[2]]

\* Where a reference finds its join
PlaceOf(u) == u.at \o <<u.key>>

\* What a reference needs of the join it reads
CoversFields(f, g) == g # None => /\ f # None
                                  /\ \A n \in DOMAIN g : n \in DOMAIN f /\ SameField(f[n], g[n])

CoversQuery(q, need) ==
    /\ q.limit = need.limit /\ q.order_by = need.order_by
    /\ Simplify(q.predicate) = Simplify(need.predicate)
    /\ need.aggregates # None => q.aggregates = need.aggregates
    /\ need.groups # None => q.groups = need.groups
    /\ need.scope # None => q.scope = need.scope
    /\ CoversFields(q.fields, need.fields)

CoversJoin(j, need) == /\ j.name = need.name /\ j.arguments = need.arguments
                       /\ CoversQuery(j.query, need.query)

Covers(m, need) == \A p \in DOMAIN need : p \in DOMAIN m /\ CoversJoin(m[p], need[p])

\* Wherever a reference was registered and whatever its join was unified with since, with
\* all the scopes around it, the key it was given leads to a join with the same relationship,
\* arguments, window and predicate, that yields the fields, aggregates and groups it asked for.
UsesCovered ==
    \A o \in Owners : \A u \in ScopeOf(o).uses : Covers(ScopeOf(o).relationships, Under(PlaceOf(u), u.need))

\* A scope is the scope of one join: a variable for its rows is bound once in the plan.  So
\* two relationship fields never read one join.
ScopesUnique ==
    \A o1, o2 \in Owners :
        \A p1 \in DOMAIN ScopeOf(o1).relationships, p2 \in DOMAIN ScopeOf(o2).relationships :
            LET s1 == ScopeOf(o1).relationships[p1].query.scope
                s2 == ScopeOf(o2).relationships[p2].query.scope
            IN  s1 = s2 /\ s1 # None => o1 = o2 /\ p1 = p2

\* A reference got a key of its own, and with it a $lookup, only if it could not share the
\* join under the name of its relationship; nor could it by now.
SeparateOnlyIfIncompatible ==
    \A o \in Owners : \A u \in ScopeOf(o).uses :
        LET name == NameKey(u.need[<<>>].name)
        IN  u.key # name => ~Compatible(ScopeOf(o).relationships, Under(u.at \o <<name>>, u.need))

\* While a scope is being planned no join in it disappears or yields less.
JoinsOnlyGrow ==
    [][\A i \in DOMAIN frames \cap DOMAIN frames' : Covers(frames'[i].relationships, frames[i].relationships)]_vars
=============================================================================
