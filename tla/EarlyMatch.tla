----------------------------- MODULE EarlyMatch -----------------------------
(***************************************************************************)
(* The search for a filter that can be applied first of all, by a $match   *)
(* at the start of the pipeline (column_origin.rs and optimize_filters.rs  *)
(* in mongodb-agent-common/src/relational).                                *)
(***************************************************************************)
EXTENDS RelationalPasses

Computed == [collection |-> Null, path |-> Null]

\* Given the origins of the columns that the expression is of
TraceExpressionOrigin(origins, e) ==
    LET origin[x \in Expressions] ==
            CASE x.op = "Column"   -> origins[x.index]
              [] x.op = "GetField" -> IF origin[x.column].path = Null THEN Computed
                                      ELSE [origin[x.column] EXCEPT !.path = Append(@, x.field)]
              [] OTHER -> Computed
    IN  origin[e]

\* index is that of a column there is
TraceColumnOrigin(r, index) ==
    LET origins[x \in Relations] == [i \in Nat |->
            CASE x.op = "From"    -> [collection |-> x.collection, path |-> <<x.columns[i + 1]>>]
              [] x.op = "Project" -> TraceExpressionOrigin(origins[x.input], x.exprs[i + 1])
              [] x.op = "Aggregate" -> IF i < Len(x.group_by) THEN TraceExpressionOrigin(origins[x.input], x.group_by[i + 1])
                                       ELSE Computed
              [] x.op = "Window"  -> IF i < ColumnCount(x.input) THEN origins[x.input][i] ELSE Computed
              [] x.op = "Join"    ->
                   CASE x.type \in {"LeftSemi", "LeftAnti"}   -> origins[x.left][i]
                     [] x.type \in {"RightSemi", "RightAnti"} -> origins[x.right][i]
                     [] OTHER -> IF i < ColumnCount(x.left) THEN origins[x.left][i]
                                 ELSE origins[x.right][i - ColumnCount(x.left)]
              [] OTHER -> origins[Inputs(x)[1]][i]]
    IN  origins[r][index]

\* The left-most source of a relation, Null below a union
RootCollection(r) ==
    LET root[x \in Relations] == CASE x.op = "From" -> x.collection [] x.op = "Union" -> Null
                                   [] OTHER -> root[Inputs(x)[1]]
    IN  root[r]

\* The path an expression stands for, given those of the columns; Null if it is not just a path
PathOf(e, paths) ==
    LET path[x \in Expressions] ==
            CASE x.op = "Column"   -> paths[x.index + 1]
              [] x.op = "GetField" -> LET base == path[x.column] IN IF base = Null THEN Null ELSE Append(base, x.field)
              [] OTHER -> Null
    IN  path[e]

\* try_make_query_document, try_make_early_query_document: Null if the predicate is not of that form
QueryDocument(predicate, paths) ==
    LET document[p \in Expressions] ==
            CASE p.op \in Comparisons ->
                   IF PathOf(p.left, paths) = Null \/ p.right.op # "Literal" THEN Null
                   ELSE [op |-> p.op, path |-> PathOf(p.left, paths), value |-> p.right.value]
              [] p.op \in {"And", "Or"} ->
                   LET left  == document[p.left]
                       right == document[p.right]
                   IN  IF left = Null \/ right = Null THEN Null ELSE Binary(p.op, left, right)
              [] p.op \in {"IsNull", "IsNotNull"} ->
                   IF PathOf(p.expr, paths) = Null THEN Null
                   ELSE [op |-> IF p.op = "IsNull" THEN "Eq" ELSE "NotEq", path |-> PathOf(p.expr, paths), value |-> Null]
              [] OTHER -> Null
    IN  document[predicate]

\* The paths of columns that come from the collection at the root
OriginalPaths(input) ==
    [i \in 1..ColumnCount(input) |->
        LET origin == TraceColumnOrigin(input, i - 1)
        IN  IF origin.collection = RootCollection(input) THEN origin.path ELSE Null]

EarlyDocument(filter) == IF RootCollection(filter.input) = Null THEN Null
                         ELSE QueryDocument(filter.predicate, OriginalPaths(filter.input))

\* Mutant of EarlyFilter: filters on the right of a join are considered too
EarlyFilterAnywhere(r) ==
    LET early[x \in Relations] ==
            CASE x.op \in {"Union", "From"} -> Null
              [] x.op = "Filter" /\ EarlyDocument(x) # Null -> x
              [] OTHER -> LET found == early[Inputs(x)[1]]
                          IN  IF found = Null /\ x.op = "Join" THEN early[x.right] ELSE found
    IN  early[r]

\* The filter that the early match is made from, Null if none is
EarlyFilter(r) ==
    LET early[x \in Relations] == CASE x.op \in {"Union", "From"} -> Null
                                    [] x.op = "Filter" /\ EarlyDocument(x) # Null -> x
                                    [] OTHER -> early[Inputs(x)[1]]
    IN  early[r]

\* Mutant of RootTargetsNativeQuery: only of a source itself
RootTargetsNativeQueryItself(r) == r.op = "From" /\ r.collection \in DOMAIN NativeQueries

RootTargetsNativeQuery(r) == RootCollection(r) \in DOMAIN NativeQueries

ExtractEarlyMatch(r) == IF RootTargetsNativeQuery(r) \/ EarlyFilter(r) = Null THEN Null
                        ELSE EarlyDocument(EarlyFilter(r))
=============================================================================
