-------------------------- MODULE RelationalPasses --------------------------
(***************************************************************************)
(* What is done to a relational query before a pipeline is built from it   *)
(* (mongodb-agent-common/src/relational): two passes that rewrite it, one  *)
(* after the other.                                                        *)
(***************************************************************************)
EXTENDS RelationalAlgebra

CONSTANTS
    Requests,     \* relations that are asked for
    Databases     \* what the collections may hold, and the native queries yield

ASSUME RequestsAssumption == Requests \subseteq Relations

\* A collection is a sequence of documents
ASSUME DatabasesAssumption ==
    \A d \in Databases : \A c \in DOMAIN d : d[c] \in Seq(ToSet(d[c]))

\* A relation with other inputs
WithInputs(r, inputs) ==
    IF "input" \in DOMAIN r THEN [r EXCEPT !.input = inputs[1]]
    ELSE IF "left" \in DOMAIN r THEN [r EXCEPT !.left = inputs[1], !.right = inputs[2]]
    ELSE IF "relations" \in DOMAIN r THEN [r EXCEPT !.relations = inputs] ELSE r

-----------------------------------------------------------------------------
(* normalize_joins.rs                                                      *)

RightJoins == [type \in {"Right", "RightSemi", "RightAnti"} |->
                  CASE type = "Right" -> "Left" [] type = "RightSemi" -> "LeftSemi" [] type = "RightAnti" -> "LeftAnti"]

IsRightJoin(r) == r.op = "Join" /\ r.type \in DOMAIN RightJoins

SwapJoinOn(on) == [i \in DOMAIN on |-> [left |-> on[i].right, right |-> on[i].left]]

\* Mutant of ReorderColumns: the columns are left as the swapped join has them
ReorderColumnsNot(left_count, right_count) == [i \in 1..(left_count + right_count) |-> Column(i - 1)]

ReorderColumns(left_count, right_count) ==
    [i \in 1..left_count |-> Column(right_count + i - 1)] \o [i \in 1..right_count |-> Column(i - 1)]

ColumnCount(r) == Width(r)

\* The left join of the two sides, which are normal, the other way round
Swapped(r, left, right) ==
    LET swapped == Join(right, left, SwapJoinOn(r.on), RightJoins[r.type])
    IN  IF r.type # "Right" THEN swapped
        ELSE Project(swapped, ReorderColumns(ColumnCount(r.left), ColumnCount(r.right)))

NormalizeRightJoins(r) ==
    LET normal[x \in Relations] ==
            LET inputs == [i \in DOMAIN Inputs(x) |-> normal[Inputs(x)[i]]]
            IN  IF IsRightJoin(x) THEN Swapped(x, inputs[1], inputs[2]) ELSE WithInputs(x, inputs)
    IN  normal[r]

-----------------------------------------------------------------------------
(* pushdown_predicates.rs                                                  *)

IsSimpleFieldReference(e) ==
    LET simple[x \in Expressions] == x.op = "Column" \/ (x.op = "GetField" /\ simple[x.column])
    IN  simple[e]

KnownUnary  == {"Not", "IsNull", "IsNotNull"}
KnownBinary == Comparisons \cup {"And", "Or"}

\* The expressions in e that remap_expression returns nothing for, given those in its operands
ObstaclesIn(e, exprs, obstacles) ==
    CASE e.op = "Column" -> IF e.index < Len(exprs) /\ IsSimpleFieldReference(exprs[e.index + 1]) THEN {} ELSE {e}
      [] e.op \in {"GetField", "Literal"} \cup KnownUnary \cup KnownBinary -> UNION ToSet(obstacles)
      [] OTHER -> {e}

Obstacles(e, exprs) ==
    LET all[x \in Expressions] == ObstaclesIn(x, exprs, [i \in DOMAIN Operands(x) |-> all[Operands(x)[i]]]) IN all[e]

Remappable(e, exprs) == Obstacles(e, exprs) = {}

\* An expression of the columns of a projection, given what its operands become
Remapped(e, exprs, operands) ==
    CASE e.op = "Column"      -> exprs[e.index + 1]
      [] e.op = "GetField"    -> GetField(operands[1], e.field)
      [] e.op \in KnownUnary  -> Unary(e.op, operands[1])
      [] e.op \in KnownBinary -> Binary(e.op, operands[1], operands[2])
      [] OTHER -> e

RemapExpression(e, exprs) ==
    LET remap[x \in Expressions] == Remapped(x, exprs, [i \in DOMAIN Operands(x) |-> remap[Operands(x)[i]]]) IN remap[e]

CanPush(r, exprs) == IF r.op = "Filter" THEN Remappable(r.predicate, exprs)
                     ELSE \A i \in DOMAIN r.exprs : Remappable(r.exprs[i].expr, exprs)

\* A filter or a sort of a projection, whose predicate or keys can be computed before it
IsPushed(r, input) == r.op \in {"Filter", "Sort"} /\ input.op = "Project" /\ CanPush(r, input.exprs)

\* The filter or the sort, on the input of the projection
Pushed(r, project) ==
    IF r.op = "Filter" THEN Filter(project.input, RemapExpression(r.predicate, project.exprs))
    ELSE Sort(project.input, [i \in DOMAIN r.exprs |-> [r.exprs[i] EXCEPT !.expr = RemapExpression(@, project.exprs)]])

\* Mutant of PushdownPredicates: what was pushed below one projection is left there
PushdownPredicatesOnce(r) ==
    LET push[x \in Relations] ==
            LET inputs == [i \in DOMAIN Inputs(x) |-> push[Inputs(x)[i]]]
            IN  IF IsPushed(x, inputs[1])
                THEN Project(Pushed(x, inputs[1]), inputs[1].exprs)
                ELSE WithInputs(x, inputs)
    IN  push[r]

PushdownPredicates(r) ==
    LET push[x \in Relations] ==
            LET inputs == [i \in DOMAIN Inputs(x) |-> push[Inputs(x)[i]]]
            IN  IF IsPushed(x, inputs[1])
                THEN Project(push[Pushed(x, inputs[1])], inputs[1].exprs)
                ELSE WithInputs(x, inputs)
    IN  push[r]

-----------------------------------------------------------------------------
(* The passes over a request                                               *)

VARIABLES
    pc,           \* the step that comes next
    documents,    \* one of Databases
    request,
    relation      \* what the passes made of the request

passes == <<pc, documents, request, relation>>

PassesInit == /\ pc = "normalize"
              /\ documents \in Databases /\ request \in Requests /\ relation = request

NormalizeRelation == /\ pc = "normalize"
                     /\ relation' = NormalizeRightJoins(relation)
                     /\ pc' = "pushdown"
                     /\ UNCHANGED <<documents, request>>

PushdownRelation == /\ pc = "pushdown"
                    /\ relation' = PushdownPredicates(relation)
                    /\ pc' = "extract"
                    /\ UNCHANGED <<documents, request>>

\* Where a request may get to, which are for Relational to say more about
LaterSteps == {"extract", "build", "execute", "done", "refused", "failed"}

Proceed(step) == pc \in LaterSteps /\ pc' = step /\ UNCHANGED <<documents, request, relation>>

PassesNext == NormalizeRelation \/ PushdownRelation \/ \E step \in LaterSteps : Proceed(step)

PassesSpec == PassesInit /\ [][PassesNext]_passes

-----------------------------------------------------------------------------
(* Properties                                                              *)

\* A union of relations that differ in the number of columns: what the passes and the pipeline
\* take its rows to be is undefined, and the request fails when the pipeline is built.
UnionsDiffer(r) ==
    \E s \in Subrelations(r) :
        s.op = "Union" /\ \E i \in DOMAIN s.relations : ColumnCount(s.relations[i]) # ColumnCount(s.relations[1])

\* normalize_right_joins and pushdown_predicates change how the rows are computed, not which
\* they are, nor the order they were asked for in: after each of them they are those of the request.
PassesPreserveRows ==
    pc \in {"pushdown", "extract"} =>
        Rows(relation, documents) = Rows(request, documents) \/ UnionsDiffer(request)

\* The passes leave nothing to be done: no right join, and no filter or sort that could go
\* further down, however many projections it had to pass.
PassesAreComplete ==
    pc \notin {"normalize", "pushdown"} =>
        /\ NormalizeRightJoins(relation) = relation
        /\ PushdownPredicates(relation) = relation
=============================================================================
