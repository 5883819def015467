---------------------------- MODULE MCTypeInference ----------------------------
(***************************************************************************)
(* A collection with a scalar of each kind, a nullable one, an array and a *)
(* nested object; pipelines of one to four stages; two sample databases.   *)
(***************************************************************************)
EXTENDS TypeInference

MCWords == <<"1", "2", "3", "_id", "a", "arrayElemAt", "array", "avg", "b", "c", "count", "d", "Doc", "documents", "e", "first_last",
             "group", "i", "id", "idx", "k", "m", "match", "min", "n", "o", "p", "Part", "project", "push", "q", "r",
             "replaceWith", "s", "stddev", "t", "unwind", "ws", "x", "y", "zz">>

MCObjectTypes ==
    (<<"Doc">> :> ("_id" :> Scalar("objectId") @@ "t" :> Scalar("string") @@ "n" :> Scalar("int") @@ "r" :> Scalar("double")
                   @@ "m" :> Nullable(Scalar("int")) @@ "ws" :> ArrayOf(Scalar("string")) @@ "o" :> Object(<<"Part">>)))
    @@ (<<"Part">> :> ("x" :> Scalar("int") @@ "y" :> Scalar("string")))

Sample(ws) == "_id" :> ScalarV("objectId") @@ "t" :> ScalarV("string") @@ "n" :> ScalarV("int") @@ "r" :> ScalarV("double")
              @@ "ws" :> ArrayV(ws) @@ "o" :> DocV("x" :> ScalarV("int") @@ "y" :> ScalarV("string"))
Full  == DocV("m" :> ScalarV("int") @@ Sample(<<ScalarV("string"), ScalarV("string")>>))
Spare == DocV(Sample(<<>>))
MCDatabases == {<<Full>>, <<Spare, Full>>}

MCArgumentPool == {ScalarV(s) : s \in {"int", "double", "string", "bool", "null", "regex"}}
                  \cup {ArrayV(<<ScalarV(s)>>) : s \in {"int", "string", "bool"}}
                  \cup {ArrayV(<<ArrayV(<<ScalarV("string")>>)>>), Full.doc["o"]}

\* Expressions and query documents
Lit(s)       == [lit |-> s]
Ref(path)    == [ref |-> path]
Par(p)       == [param |-> p, as |-> Null]
ParAs(p, t)  == [param |-> p, as |-> t]
Arr(es)      == [array |-> es]
Doc(fields)  == [doc |-> fields]
Op(op, e)    == [op |-> op, of |-> e]
Two(op, a, b) == Op(op, Arr(<<a, b>>))
Field(path, e) == [path |-> path, of |-> e]
Query(entries) == [query |-> entries]
On(path, op, e) == Field(path, Query(<<Op(op, e)>>))

\* Stages
Match(entries) == [stage |-> "$match", query |-> entries, expr |-> Null]
MatchExpr(e)   == [stage |-> "$match", query |-> <<>>, expr |-> e]
Documents(ds)  == [stage |-> "$documents", docs |-> ds]
Limit(e)       == [stage |-> "$limit", count |-> e]
Skip(e)        == [stage |-> "$skip", count |-> e]
Sort           == [stage |-> "$sort"]
Group(key, accumulators) == [stage |-> "$group", key |-> key, accumulators |-> accumulators]
By(name, op, e) == [name |-> name, op |-> op, expr |-> e]
Project(entries) == [stage |-> "$project", entries |-> entries]
In(path)       == Field(path, [one |-> TRUE])
Out(path)      == Field(path, [zero |-> TRUE])
ReplaceWith(e) == [stage |-> "$replaceWith", expr |-> e]
Unwind(path, index) == [stage |-> "$unwind", path |-> path, index |-> index]

Of(stages)   == [type |-> <<"Doc">>, stages |-> stages]
From(stages) == [type |-> Null, stages |-> stages]

MCProblems == <<
    Of(<<Match(<<On(<<"n">>, "$gt", Par("p"))>>)>>),
    Of(<<Match(<<Field(<<"t">>, Par("p")), On(<<"ws">>, "$all", Par("q"))>>)>>),
    Of(<<Match(<<On(<<"ws">>, "$elemMatch", Query(<<Op("$eq", Par("p")), Op("$in", Par("q"))>>))>>)>>),
    Of(<<Match(<<On(<<"o", "x">>, "$in", Par("p")), On(<<"ws">>, "$size", Par("q"))>>), Limit(Par("q"))>>),
    Of(<<MatchExpr(Two("$eq", Ref(<<"t">>), Par("p")))>>),
    Of(<<MatchExpr(Two("$and", Two("$gt", Ref(<<"n">>), Par("p")), Two("$eq", Par("p"), Ref(<<"n">>))))>>),
    Of(<<Match(<<On(<<"n">>, "$gt", ParAs("p", Scalar("double")))>>)>>),
    Of(<<Group(Ref(<<"t">>), <<By("a", "$avg", Ref(<<"r">>)), By("s", "$sum", Ref(<<"n">>)), By("k", "$push", Ref(<<"ws">>)),
                               By("c", "$count", Lit("null")), By("m", "$min", Ref(<<"m">>))>>)>>),
    Of(<<Project(<<In(<<"n">>), In(<<"o", "x">>), Field(<<"a">>, Op("$abs", Ref(<<"n">>)))>>)>>),
    Of(<<Project(<<Out(<<"o", "x">>), Out(<<"t">>)>>)>>),
    Of(<<ReplaceWith(Doc(<< <<"a", Ref(<<"n">>)>>, <<"b", Two("$arrayElemAt", Ref(<<"ws">>), Par("i"))>> >>))>>),
    Of(<<Unwind(<<"ws">>, "i"), Group(Ref(<<"ws">>), <<By("c", "$count", Lit("null"))>>)>>),
    From(<<Documents(<<Doc(<< <<"a", Lit("int")>> >>), Doc(<< <<"a", Lit("double")>>, <<"b", Lit("string")>> >>)>>)>>),
    From(<<Documents(<<Doc(<< <<"a", Lit("int")>> >>), Doc(<< <<"b", Lit("string")>> >>)>>), Match(<<On(<<"a">>, "$gt", Par("p"))>>)>>),
    Of(<<Match(<<Field(<<"t">>, Par("p"))>>), Skip(Par("k")), Limit(Par("i")), Sort>>),
    Of(<<ReplaceWith(Doc(<< <<"a", Two("$split", Ref(<<"t">>), Par("p"))>>, <<"b", [text |-> <<"q">>]>> >>))>>),
    Of(<<>>),
    From(<<Match(<<>>)>>),
    Of(<<[stage |-> "$facet"]>>),
    Of(<<Match(<<Field(<<"t">>, ParAs("p", Scalar("int")))>>)>>),
    Of(<<Project(<<In(<<"o">>), In(<<"o", "x">>)>>)>>),
    Of(<<MatchExpr(Two("$eq", Par("p"), Par("q")))>>),
    Of(<<ReplaceWith(Ref(<<"o">>)), Match(<<On(<<"x">>, "$gt", Par("p"))>>)>>),
    Of(<<ReplaceWith(Ref(<<"t">>))>>),
    Of(<<Project(<<In(<<"n">>), In(<<"t">>)>>), Group(Ref(<<"t">>), <<By("a", "$first", Ref(<<"n">>)), By("s", "$addToSet", Ref(<<"_id">>))>>)>>),
    Of(<<ReplaceWith(Doc(<< <<"a", Two("$add", Ref(<<"r">>), Par("p"))>>, <<"b", Op("$sin", Ref(<<"r">>))>> >>))>>),
    Of(<<Match(<<Op("$or", Arr(<<Query(<<Field(<<"n">>, Par("p"))>>), Query(<<On(<<"n">>, "$lt", Par("p"))>>)>>)),
                 On(<<"t">>, "$regex", Par("r")), On(<<"m">>, "$exists", Par("b")), On(<<"m">>, "$ne", Par("m"))>>)>>),
    Of(<<Match(<<On(<<"n">>, "$mod", Arr(<<Par("a"), Par("b")>>)), Op("$not", Query(<<On(<<"t">>, "$eq", [text |-> <<"s">>])>>))>>)>>),
    Of(<<Match(<<On(<<"ws">>, "$nin", Par("p")), On(<<"t">>, "$type", Arr(<<Par("q")>>))>>)>>),
    Of(<<MatchExpr(Op("$or", Arr(<<Op("$not", Par("b")), Op("$allElementsTrue", Par("a")), Two("$lt", Par("p"), Ref(<<"r">>))>>)))>>),
    Of(<<Group(Lit("null"), <<By("a", "$last", Ref(<<"o", "y">>)), By("b", "$median", Ref(<<"r">>)), By("d", "$stdDevSamp", Ref(<<"r">>)), By("c", "$max", Ref(<<"t">>)),
                               By("s", "$sum", Two("$multiply", Ref(<<"n">>), Par("p")))>>),
         Match(<<On(<<"s">>, "$gt", Par("q"))>>)>>),
    From(<<Documents(<<Doc(<< <<"o", Doc(<< <<"x", Lit("int")>> >>)>> >>), Doc(<< <<"o", Doc(<< <<"y", ParAs("p", Scalar("string"))>> >>)>> >>)>>),
           Match(<<On(<<"o", "x">>, "$eq", Par("q"))>>)>>),
    From(<<Documents(<<Doc(<< <<"a", Lit("int")>> >>), Doc(<< <<"a", Lit("string")>> >>), Doc(<< <<"b", Lit("bool")>> >>)>>)>>),
    Of(<<Project(<<Out(<<"o">>), Out(<<"ws">>)>>), Group(Lit("null"), <<By("c", "$count", Lit("null"))>>), Limit(Par("p"))>>),
    Of(<<Project(<<Field(<<"a", "b">>, Ref(<<"o">>)), In(<<"ws">>), Out(<<"_id">>)>>), ReplaceWith(Ref(<<"a", "b">>)), ReplaceWith(Doc(<< <<"k", Ref(<<"y">>)>> >>))>>),
    Of(<<Match(<<On(<<"zz">>, "$gt", Par("p"))>>)>>),
    Of(<<Match(<<On(<<"t">>, "$near", Par("p"))>>)>>),
    Of(<<MatchExpr(Op("$eq", Arr(<<Ref(<<"t">>)>>)))>>),
    Of(<<MatchExpr(Op("$and", Ref(<<"t">>)))>>),
    Of(<<MatchExpr(Op("$let", Ref(<<"t">>)))>>),
    Of(<<Match(<<Op("$or", Par("p"))>>)>>),
    Of(<<Match(<<On(<<"ws">>, "$elemMatch", Par("p"))>>)>>),
    Of(<<ReplaceWith(Doc(<< <<"a", Par("p")>>, <<"b", [broken |-> <<"q">>]>> >>))>>),
    Of(<<Match(<<On(<<"n">>, "$gt", Par("p")), Field(<<"t">>, [broken |-> <<"q">>])>>)>>),
    Of(<<MatchExpr(Two("$eq", Ref(<<"t">>), Lit("int")))>>),
    Of(<<Unwind(<<"ws">>, "i"), MatchExpr(Two("$eq", Ref(<<"i">>), Lit("long")))>>),
    Of(<<Unwind(<<"ws">>, Null), Match(<<On(<<"n">>, "$gt", Par("p"))>>)>>),
    Of(<<Project(<<Out(<<"t">>)>>), MatchExpr(Two("$eq", Ref(<<"n">>), Par("p")))>>)
>>
MCQueryName == <<"q">>
=============================================================================
