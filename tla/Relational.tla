----------------------------- MODULE Relational -----------------------------
(***************************************************************************)
(* Relational queries (mongodb-agent-common/src/relational), step by step: *)
(* two passes rewrite a relation, an early $match is extracted from what   *)
(* they made of it, a pipeline is built, and it is run.                    *)
(***************************************************************************)
EXTENDS PipelineBuilder, MongoPipeline

VARIABLE rows    \* the response, Null before

vars == <<building, rows>>

ASSUME NullAssumption == Null # Missing /\ Refused \notin {Null, Missing}

\* execute.rs, document_to_row
DocumentToRow(doc, columns) ==
    [i \in DOMAIN columns |-> IF columns[i] \in DOMAIN doc THEN doc[columns[i]] ELSE Null]

\* Refused if the aggregation fails
Execute(ctx, stored) ==
    LET docs == Run(ctx.target, ctx.stages, EmptyDoc, stored)
    IN  IF docs = Refused THEN Refused ELSE [i \in DOMAIN docs |-> DocumentToRow(docs[i], ctx.columns)]

-----------------------------------------------------------------------------

Init == BuilderInit /\ rows = Null

Normalize == NormalizeRelation /\ UNCHANGED <<early_match, context, rows>>

Pushdown == PushdownRelation /\ UNCHANGED <<early_match, context, rows>>

Extract == ExtractMatch /\ UNCHANGED rows

BuildRelation == BuildPipeline /\ UNCHANGED rows

Fail == BuildingFails /\ UNCHANGED rows

ExecutePipeline == /\ AfterBuilding("done")
                   /\ \E response \in {Execute(context, documents)} \ {Refused} : rows' = response

\* An operator fails on its arguments, and the aggregation with it
PipelineRefused == /\ AfterBuilding("refused")
                   /\ Execute(context, documents) = Refused
                   /\ UNCHANGED rows

\* The connection or the cursor fails: no row is returned
CursorFails == AfterBuilding("failed") /\ UNCHANGED rows

Next == Normalize \/ Pushdown \/ Extract \/ BuildRelation \/ Fail \/ ExecutePipeline \/ PipelineRefused
        \/ CursorFails

Spec == Init /\ [][Next]_vars

-----------------------------------------------------------------------------
(* Where an expression of MongoDB may be held against the one of SQL it    *)
(* was translated from: on values that SQL has something to say about, and *)
(* on nulls only where they are carried on as SQL has it.                  *)

\* Null makes null in both, or neither treats it as a value like others
NullsCarried == {"Plus", "Minus", "Multiply", "Modulo", "Negate", "Concat", "Replace", "Case", "Coalesce", "Nvl",
                 "NullIf", "Greatest", "Least", "IsTrue", "IsFalse", "IsNotTrue", "IsNotFalse", "JsonGet",
                 "ArrayElement", "GetField"}

NullTests == {"IsNull", "IsNotNull", "IsDistinctFrom", "IsNotDistinctFrom"}
Likes     == {"Like", "NotLike", "ILike", "NotILike"}

\* Its null may be a field that is missing
RECURSIVE MayBeMissing(_)
MayBeMissing(e) ==
    \/ e.op \in {"Column", "GetField", "JsonGet", "ArrayElement"}
    \/ e.op \in {"Case", "CaseOf", "NullIf", "Nvl", "Coalesce"}
       /\ \E i \in DOMAIN Operands(e) : MayBeMissing(Operands(e)[i])

NullsAgree(e, v) ==
    CASE e.op \in NullsCarried -> TRUE
      [] e.op \in NullTests    -> \A i \in DOMAIN v : v[i] = Null => ~MayBeMissing(Operands(e)[i])
      [] e.op \in Likes        -> v[2] # Null
      [] e.op = "StrPos"       -> v[2] # Null
      [] e.op = "CaseOf"       -> v[1] = Null => \A i \in 2..Len(v) : i % 2 = 0 /\ i < Len(v) => v[i] # Null
      [] e.op \in {"JsonLength", "JsonContains"} -> JsonFound(e.op, v) # Null
      [] OTHER                 -> \A i \in DOMAIN v : v[i] # Null

\* % and _ stand for any character, and only patterns that are literals are translated to what MongoDB
\* accepts: the others are put together with the string "$", which is a path without a name
LikesAgree(e, v) == /\ v[1] = Null \/ "\n" \notin ToSet(v[1])
                    /\ e.args[2].op = "Literal"

\* Positions from 1, counts from 0, something to pad with and to split at
InRange(e, v) ==
    CASE e.op = "Substr"           -> v[2] >= 1 /\ (Len(v) = 3 => v[3] >= 0)
      [] e.op \in {"Left", "Right"} -> v[2] >= 0
      [] e.op \in {"LPad", "RPad"} -> v[2] >= 0 /\ (Len(v) = 3 => v[3] # <<>>)
      [] e.op = "SubstrIndex"      -> v[2] # <<>> /\ v[3] # 0
      [] e.op = "Modulo"           -> v[2] # 0
      [] e.op \in Likes            -> LikesAgree(e, v)
      [] OTHER                     -> TRUE

\* So that of what is chosen between, what is not chosen has to agree too
Agrees(e, row) ==
    LET all == Subexpressions(e)
        agrees(x, v) == NullsAgree(x, v) /\ InRange(x, v)
    IN  \A i \in DOMAIN all : agrees(all[i], Values(Operands(all[i]), row))

\* Of nulls, only Min, Max, and the first and the last of the rows are sure not to make something else;
\* a list is sorted by its elements, and an empty string in a list of strings loses its separator.
TotalAgrees(a, over) ==
    LET values == {Value(a.expr, row) : row \in ToSet(over)}
    IN  /\ \A row \in ToSet(over) : Agrees(a.expr, row)
        /\ \/ a.op \in {"Min", "Max", "FirstValue", "LastValue"}
           \/ a.op = "Count" /\ ~a.distinct /\ a.expr = Literal(Null)
           \/ Null \notin values
        /\ a.op = "ArrayAgg" /\ a.order_by # <<>> => a.order_by[1].expr = a.expr
        /\ a.op = "StringAgg" => a.order_by = <<>> /\ <<>> \notin values

-----------------------------------------------------------------------------
(* Where the meaning of a relation and that of its pipeline are compared   *)

HasNulls(in, e) == \E row \in ToSet(in) : Value(e, row) = Null

AllAgree(in, exprs) == \A row \in ToSet(in) : \A i \in DOMAIN exprs : Agrees(exprs[i], row)

\* A predicate that is matched by a query document, where null is as in SQL unless for NotEq
MatchedAsDocument(filter) ==
    /\ QueryDocument(filter.predicate, [i \in 1..ColumnCount(filter.input) |-> <<i>>]) # Null
    /\ \A i \in DOMAIN Subexpressions(filter.predicate) : Subexpressions(filter.predicate)[i].op # "NotEq"

\* In aggregation expressions, what is missing is not null, and null is a value like others.
\* in has the rows of the inputs of the relation.
NullsDoNotMatter(r, in) ==
    CASE r.op = "Filter"  -> MatchedAsDocument(r) \/ AllAgree(in[1], <<r.predicate>>)
      [] r.op = "Project" -> AllAgree(in[1], r.exprs)
      [] r.op = "Sort"    -> /\ \A s \in ToSet(r.exprs) : NeedsNullSortKey(s) => ~HasNulls(in[1], s.expr)
                             /\ AllAgree(in[1], [i \in DOMAIN r.exprs |-> r.exprs[i].expr])
      [] r.op = "Join"    -> \A on \in ToSet(r.on) : ~HasNulls(in[1], on.left) \/ ~HasNulls(in[2], on.right)
      [] r.op = "Window"  -> \A e \in ToSet(r.exprs) :
                                 /\ \A s \in ToSet(e.order_by) : NeedsNullSortKey(s) => ~HasNulls(in[1], s.expr)
                                 /\ e.op # "RowNumber" => Len(e.order_by) = 1
      [] r.op = "Aggregate" -> /\ \A a \in ToSet(r.aggregates) : TotalAgrees(a, in[1])
                               /\ r.group_by = <<>> => in[1] # <<>>
      [] OTHER -> TRUE

\* The fields that are read later on are those that are there, given what is built from the inputs
FieldsAgree(r, contexts) ==
    CASE r.op = "Join" /\ r.type \in {"LeftSemi", "LeftAnti"} ->
           contexts[1].columns = Positional(ColumnCount(r.left))
      [] r.op = "Union" -> \A i \in 2..Len(r.relations) :
                               contexts[i].columns = contexts[1].columns /\ ~RootTargetsNativeQuery(r.relations[i])
      [] OTHER -> TRUE

\* The early match is made from a filter that may as well come first: no page and no row number
\* below it depends on the rows it drops, and its columns are not those of another side of a join
MayComeFirst(r) ==
    LET filter == EarlyFilter(r)
        root   == RootCollection(r)
    IN  filter = Null \/ \A s \in Subrelations(filter.input) :
            /\ s.op \notin {"Paginate", "Window"}
            /\ s.op = "Join" => \A t \in Subrelations(s.right) : t.op = "From" => t.collection # root

Members(r) == UNION {ToSet(s.relations) : s \in {t \in Subrelations(r) : t.op = "Union"}}

Comparable == LET normal == NormalizeRightJoins(request)
              IN  /\ \A r \in Subrelations(normal) :
                         /\ NullsDoNotMatter(r, [i \in DOMAIN Inputs(r) |-> Rows(Inputs(r)[i], documents)])
                         /\ FieldsAgree(r, [i \in DOMAIN Inputs(r) |-> Build(Inputs(r)[i])])
                  /\ \A r \in {relation} \cup {PushdownPredicates(m) : m \in Members(normal)} : MayComeFirst(r)

-----------------------------------------------------------------------------
(* Properties                                                              *)

\* The response has the rows of the request, wherever filters were moved to, whatever the
\* fields are called on the way, and though a filter was applied twice; and MongoDB computes what
\* the operators of its expressions mean, not refusing what it is asked for.
ResponseIsRight ==
    pc \in {"done", "refused"} /\ Comparable => pc = "done" /\ rows = Rows(request, documents)

\* A semi or an anti join returns rows of one of its sides, those that have a match or that have
\* none: "RightSemi: rows from customers that have a match in orders"
\* (tests/pipeline_builder_tests.rs:1691), "only output left columns" (pipeline_builder.rs:837).
SemiJoinsReturnRows ==
    pc = "done" /\ request.op = "Join" /\ request.type \in {"LeftSemi", "LeftAnti", "RightSemi", "RightAnti"} =>
        rows = Rows(request, documents)
=============================================================================
