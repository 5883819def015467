------------------------- MODULE RelationalAlgebra -------------------------
(***************************************************************************)
(* Relations and expressions of relational queries, the types Relation and *)
(* RelationalExpression of the NDC specification, and what they mean: the  *)
(* rows a relation has, given the documents of the collections.            *)
(*                                                                         *)
(* Where neither the specification nor MongoDB fixes the order of rows, it *)
(* is that of the input (or of the left input, or the input that a right   *)
(* join keeps), here as in MongoPipeline, so that results can be compared. *)
(*                                                                         *)
(* What is defined by recursion over expressions and relations is a        *)
(* function on the set of all of them.  These are finite trees of any      *)
(* size, which the two constants stand for; a model may take for them any  *)
(* sets that hold those it has.                                            *)
(***************************************************************************)
EXTENDS ScalarMeaning

CONSTANTS
    Expressions,   \* all the expressions
    Relations,     \* all the relations
    NativeQueries  \* for each native query, the collection it runs on

Comparisons == {"Eq", "NotEq", "Lt", "LtEq", "Gt", "GtEq"}

Column(index)              == [op |-> "Column", index |-> index]     \* counted from 0
GetField(column, field)    == [op |-> "GetField", column |-> column, field |-> field]
Literal(value)             == [op |-> "Literal", value |-> value]
Binary(op, left, right)    == [op |-> op, left |-> left, right |-> right]
Unary(op, expr)            == [op |-> op, expr |-> expr]
Call(op, args)             == [op |-> op, args |-> args]
\* distinct for those that have no such option: FALSE
Aggregation(op, expr, distinct) == [op |-> op, expr |-> expr, distinct |-> distinct]
SortBy(expr, desc, last)   == [expr |-> expr, desc |-> desc, nulls_last |-> last]

From(collection, columns)    == [op |-> "From", collection |-> collection, columns |-> columns]
Filter(input, predicate)     == [op |-> "Filter", input |-> input, predicate |-> predicate]
Sort(input, exprs)           == [op |-> "Sort", input |-> input, exprs |-> exprs]
Paginate(input, fetch, skip) == [op |-> "Paginate", input |-> input, fetch |-> fetch, skip |-> skip]
Project(input, exprs)        == [op |-> "Project", input |-> input, exprs |-> exprs]
Aggregate(input, group_by, aggregates) ==
    [op |-> "Aggregate", input |-> input, group_by |-> group_by, aggregates |-> aggregates]
Window(input, exprs)         == [op |-> "Window", input |-> input, exprs |-> exprs]
Join(left, right, on, type)  == [op |-> "Join", left |-> left, right |-> right, on |-> on, type |-> type]
Union(relations)             == [op |-> "Union", relations |-> relations]

\* The relations a relation is made from, and all there are in it
Inputs(r) == IF "input" \in DOMAIN r THEN <<r.input>>
             ELSE IF "left" \in DOMAIN r THEN <<r.left, r.right>>
             ELSE IF "relations" \in DOMAIN r THEN r.relations ELSE <<>>

Subrelations(r) == LET all[x \in Relations] == {x} \cup UNION {all[i] : i \in ToSet(Inputs(x))} IN all[r]

-----------------------------------------------------------------------------

\* The expressions an expression is made from
Operands(e) == IF "args" \in DOMAIN e THEN e.args
               ELSE IF "left" \in DOMAIN e THEN <<e.left, e.right>>
               ELSE IF "expr" \in DOMAIN e THEN <<e.expr>>
               ELSE IF "column" \in DOMAIN e THEN <<e.column>> ELSE <<>>

\* It and all there are in it, in a sequence
Subexpressions(e) ==
    LET all[x \in Expressions] == <<x>> \o FlattenSeq([i \in DOMAIN Operands(x) |-> all[Operands(x)[i]]])
    IN  all[e]

\* What an expression is for a row, given what its operands are
Evaluated(e, v, row) == CASE e.op = "Column"   -> row[e.index + 1]
                          [] e.op = "Literal"  -> e.value
                          [] e.op = "GetField" -> IF v[1] = Null THEN Null ELSE v[1][e.field]
                          [] OTHER             -> Applied(e.op, v)

Value(e, row) ==
    LET value[x \in Expressions] == Evaluated(x, [i \in DOMAIN Operands(x) |-> value[Operands(x)[i]]], row)
    IN  value[e]

Values(exprs, row) == [i \in DOMAIN exprs |-> Value(exprs[i], row)]

SortKey(exprs, row) == [i \in DOMAIN exprs |-> Value(exprs[i].expr, row)]

\* A row comes before another by the first expression that tells their keys, v and w, apart
Precedes(sort, v, w) == IF v = Null \/ w = Null
                        THEN v # w /\ (v = Null) = ~sort.nulls_last
                        ELSE IF sort.desc THEN v > w ELSE v < w

Before(exprs, v, w) ==
    \E i \in DOMAIN exprs : Precedes(exprs[i], v[i], w[i]) /\ \A j \in 1..(i - 1) : v[j] = w[j]

\* The places of two elements of a sequence
Places(s) == {<<i, j>> : i, j \in DOMAIN s}

\* A sequence in an order, equals in the order they have; <<i, j>> is in before if the element at i
\* comes before that at j.  (Of an order, each place is that of an element.)
Placed(s, before) ==
    LET place(i) == 1 + Cardinality({j \in DOMAIN s : <<j, i>> \in before \/ (<<i, j>> \notin before /\ j < i)})
        at(p)    == CHOOSE i \in DOMAIN s : place(i) = p \/ \A j \in DOMAIN s : place(j) # p
    IN  [p \in DOMAIN s |-> s[at(p)]]

Sorted(s, Less(_, _)) == Placed(s, {p \in Places(s) : Less(s[p[1]], s[p[2]])})

InOrder(rows, exprs, keys) == Placed(rows, {p \in Places(rows) : Before(exprs, keys[p[1]], keys[p[2]])})
SortedRows(rows, exprs)    == InOrder(rows, exprs, [i \in DOMAIN rows |-> SortKey(exprs, rows[i])])

\* The elements of a sequence that are at some places
Kept(s, places) == FlattenSeq([i \in DOMAIN s |-> IF i \in places THEN <<s[i]>> ELSE <<>>])

\* The distinct elements of a sequence, in the order in which they first occur
Distinct(s) == Kept(s, {i \in DOMAIN s : \A j \in 1..(i - 1) : s[j] # s[i]})

Width(r) ==
    LET width[x \in Relations] ==
            CASE x.op = "From" -> Len(x.columns)
              [] x.op = "Project" -> Len(x.exprs)
              [] x.op = "Aggregate" -> Len(x.group_by) + Len(x.aggregates)
              [] x.op = "Window" -> width[x.input] + Len(x.exprs)
              [] x.op = "Join" -> IF x.type \in {"LeftSemi", "LeftAnti"} THEN width[x.left]
                                  ELSE IF x.type \in {"RightSemi", "RightAnti"} THEN width[x.right]
                                  ELSE width[x.left] + width[x.right]
              [] OTHER -> width[Inputs(x)[1]]
    IN  width[r]

-----------------------------------------------------------------------------
(* Joins                                                                   *)

Equal(v, w) == v # Null /\ v = w
Matches(on, l, r) == \A i \in DOMAIN on : Equal(Value(on[i].left, l), Value(on[i].right, r))

Nulls(width) == [i \in 1..width |-> Null]

\* What a row is joined to: nulls if there is nothing and it must not get lost
Padded(partners, padding) == IF partners = <<>> THEN padding ELSE partners

\* <<i, j>> is in match if row i of the left side matches row j of the right; nulls for each side
JoinedRows(type, left, right, match, left_nulls, right_nulls) ==
    LET rights(i) == Kept(right, {j \in DOMAIN right : <<i, j>> \in match})
        lefts(j)  == Kept(left, {i \in DOMAIN left : <<i, j>> \in match})
        matched   == {i \in DOMAIN left : \E j \in DOMAIN right : <<i, j>> \in match}
        matching  == {j \in DOMAIN right : \E i \in DOMAIN left : <<i, j>> \in match}
        after(row, rows)  == [k \in DOMAIN rows |-> row \o rows[k]]
        before(row, rows) == [k \in DOMAIN rows |-> rows[k] \o row]
        fromleft(padding) == FlattenSeq([i \in DOMAIN left |-> after(left[i], Padded(rights(i), padding))])
    IN  CASE type = "Inner" -> fromleft(<<>>)
          [] type = "Left"  -> fromleft(<<right_nulls>>)
          [] type = "Right" -> FlattenSeq([j \in DOMAIN right |-> before(right[j], Padded(lefts(j), <<left_nulls>>))])
          [] type = "LeftSemi"  -> Kept(left, matched)
          [] type = "LeftAnti"  -> Kept(left, DOMAIN left \ matched)
          [] type = "RightSemi" -> Kept(right, matching)
          [] type = "RightAnti" -> Kept(right, DOMAIN right \ matching)
          [] type = "Full" -> fromleft(<<right_nulls>>) \o after(left_nulls, Kept(right, DOMAIN right \ matching))

-----------------------------------------------------------------------------
(* Aggregates and window functions                                         *)

\* Strings, one after the other
Joined(strings, separator) ==
    FoldLeft(LAMBDA all, i : all \o (IF i = 1 THEN <<>> ELSE separator) \o strings[i], <<>>, [i \in DOMAIN strings |-> i])

\* What is aggregated of some rows
Listed(e, rows) ==
    LET ordered == IF "order_by" \in DOMAIN e /\ e.order_by # <<>> THEN SortedRows(rows, e.order_by) ELSE rows
        unless(values) == IF e.distinct THEN Distinct(values) ELSE values
    IN  unless([i \in DOMAIN ordered |-> Value(e.expr, ordered[i])])

\* An aggregate of some values, given those that are not null too
Total(e, all, values) ==
    LET some(v) == IF values = <<>> THEN Null ELSE v
    IN  CASE e.op = "Count"   -> IF e.expr = Literal(Null) THEN Len(all) ELSE Len(values)
          [] e.op = "Sum"     -> some(FoldLeft(LAMBDA a, b : a + b, 0, values))
          [] e.op = "Max"     -> some(Max(ToSet(values)))
          [] e.op = "Min"     -> some(Min(ToSet(values)))
          [] e.op = "BoolAnd" -> some(FALSE \notin ToSet(values))
          [] e.op = "BoolOr"  -> some(TRUE \in ToSet(values))
          [] e.op = "FirstValue" -> IF all = <<>> THEN Null ELSE Head(all)
          [] e.op = "LastValue"  -> IF all = <<>> THEN Null ELSE Last(all)
          [] e.op = "ArrayAgg"   -> all
          [] e.op = "StringAgg"  -> some(Joined(values, e.separator))

\* The groups of rows that keys[i] is the same for, or all the rows in one
Grouped(r, rows, keys) ==
    LET group(key) == Kept(rows, {i \in DOMAIN rows : keys[i] = key})
        totals(all) == [j \in DOMAIN r.aggregates |-> Total(r.aggregates[j], all[j], NonNull(all[j]))]
        row(key) == key \o totals([j \in DOMAIN r.aggregates |-> Listed(r.aggregates[j], group(key))])
        distinct == IF r.group_by = <<>> THEN << <<>> >> ELSE Distinct(keys)
    IN  [i \in DOMAIN distinct |-> row(distinct[i])]

\* How many rows of its partition a row comes after; of equals, RowNumber counts those it follows
Number(e, partitions, keys, i) ==
    LET same   == {j \in DOMAIN keys : partitions[j] = partitions[i]}
        before == {j \in same : Before(e.order_by, keys[j], keys[i])}
        ties   == {j \in same : j < i /\ ~Before(e.order_by, keys[i], keys[j])}
    IN  1 + CASE e.op = "RowNumber" -> Cardinality(before \cup ties)
              [] e.op = "Rank"      -> Cardinality(before)
              [] e.op = "DenseRank" -> Cardinality({keys[j] : j \in before})

Numbered(e, rows) ==
    LET numbers(partitions, keys) == [i \in DOMAIN rows |-> Number(e, partitions, keys, i)]
    IN  numbers([i \in DOMAIN rows |-> Values(e.partition_by, rows[i])],
                [i \in DOMAIN rows |-> SortKey(e.order_by, rows[i])])

-----------------------------------------------------------------------------

\* documents: for each collection, its documents, functions from the names of fields
SourceRows(r, documents) ==
    [i \in DOMAIN documents[r.collection] |->
        LET doc == documents[r.collection][i]
        IN  [j \in DOMAIN r.columns |-> IF r.columns[j] \in DOMAIN doc THEN doc[r.columns[j]] ELSE Null]]

\* Those of a page; without fetch, all that come after
Page(rows, fetch, skip) ==
    SubSeq(rows, skip + 1, IF fetch = Null \/ skip + fetch > Len(rows) THEN Len(rows) ELSE skip + fetch)

WindowRows(exprs, rows) ==
    LET numbers == [j \in DOMAIN exprs |-> Numbered(exprs[j], rows)]
    IN  [i \in DOMAIN rows |-> rows[i] \o [j \in DOMAIN exprs |-> numbers[j][i]]]

Matching(on, left, right) ==
    {p \in {<<i, j>> : i \in DOMAIN left, j \in DOMAIN right} : Matches(on, left[p[1]], right[p[2]])}

\* The rows of a relation, given those of its inputs
RowsFrom(r, in, documents) ==
    CASE r.op = "From"     -> SourceRows(r, documents)
      [] r.op = "Filter"   -> Kept(in[1], {i \in DOMAIN in[1] : Value(r.predicate, in[1][i]) = TRUE})
      [] r.op = "Sort"     -> SortedRows(in[1], r.exprs)
      [] r.op = "Paginate" -> Page(in[1], r.fetch, r.skip)
      [] r.op = "Project"  -> [i \in DOMAIN in[1] |-> Values(r.exprs, in[1][i])]
      [] r.op = "Window"   -> WindowRows(r.exprs, in[1])
      [] r.op = "Aggregate" -> Grouped(r, in[1], [i \in DOMAIN in[1] |-> Values(r.group_by, in[1][i])])
      [] r.op = "Union" -> FlattenSeq(in)
      [] r.op = "Join"  -> JoinedRows(r.type, in[1], in[2], Matching(r.on, in[1], in[2]),
                                      Nulls(Width(r.left)), Nulls(Width(r.right)))

Rows(r, documents) ==
    LET rows[x \in Relations] == RowsFrom(x, [i \in DOMAIN Inputs(x) |-> rows[Inputs(x)[i]]], documents)
    IN  rows[r]
=============================================================================
