---------------------------- MODULE MCQueryPlan ----------------------------
(***************************************************************************)
(* QueryPlanState with two fields of two columns, one of which has nested  *)
(* fields.                                                                 *)
(***************************************************************************)
EXTENDS QueryPlanState, TLC

CONSTANTS x, y, aggregate, limit

MCQuery(aggregates, fields, groups, l, predicate) ==
    [aggregates |-> aggregates, fields |-> fields, groups |-> groups, limit |-> l, predicate |-> predicate]

\* The rows in full, or the nested part of a column; aggregates; a page and its groups, with
\* a field that has the name of another column
MCFieldQueries ==
    {MCQuery(None, [n \in {x} |-> Column(x, {"part"})], None, None, {}),
     MCQuery(aggregate, None, None, None, None),
     MCQuery(None, [n \in {x} |-> Column(y, None)], {y}, limit, None)}

\* The relationships only differ in their names
MCSymmetry == Permutations(Relationships)

MCExistsPredicates == {None, {x}}

MCPathElements ==
    {[predicate |-> None, last |-> TRUE, columns |-> {x}],
     [predicate |-> {}, last |-> FALSE, columns |-> {}]}
=============================================================================
