---------------------------- MODULE MCRelational ----------------------------
(***************************************************************************)
(* Relational over two collections and a native query, with requests that  *)
(* are up to Depth operations on top of a source.                          *)
(***************************************************************************)
EXTENDS Relational, TLC

CONSTANTS Depth

\* Every value is in it
MCExpressions == Any
MCRelations   == Any

users  == From("users", <<"id", "age", "address">>)
orders == From("orders", <<"id", "price">>)
native == From("cheapest", <<"id", "price">>)
words  == From("words", <<"s", "t", "n", "m", "flag", "doc">>)

MCNativeQueries == [n \in {"cheapest"} |-> "orders"]

\* A field of a user is missing; a user has two orders, one none, and an order has no user
Shop == [users    |-> << [id |-> 1, age |-> 5, address |-> [zip |-> 2]], [id |-> 2, address |-> [zip |-> 1]] >>,
         orders   |-> << [id |-> 1, price |-> 7], [id |-> 3, price |-> 1], [id |-> 1, price |-> 3] >>,
         cheapest |-> << [id |-> 3, price |-> 1] >>,
         words    |-> << [s |-> <<"a", "b", ".", "b">>, t |-> <<"b">>, n |-> 2, m |-> -5, flag |-> TRUE,
                          doc |-> [a |-> [b |-> 3], xs |-> <<1, 2>>]],
                         [s |-> <<"A", "b">>, t |-> <<"a">>, n |-> 3, m |-> 3, flag |-> FALSE,
                          doc |-> [a |-> [b |-> 1], xs |-> <<3>>]],
                         [s |-> <<>>, t |-> <<"x", "%">>, n |-> 0, m |-> 3, flag |-> TRUE,
                          doc |-> [a |-> [b |-> 3], xs |-> <<>>]] >>]

\* With a null, with an order that lacks what joins use, and nothing from the native query
OddShop == [users    |-> << [id |-> 2, age |-> Null], [id |-> 1, age |-> 5] >>,
            orders   |-> << [id |-> 2, price |-> 5], [price |-> 2] >>,
            cheapest |-> <<>>,
            words    |-> << [s |-> Null, t |-> <<"a", "\n">>, n |-> 1, m |-> Null, flag |-> Null, doc |-> Null],
                            [s |-> <<"a", ".", "b">>, t |-> <<"\\", "_">>, n |-> -1] >>]

MCDatabases    == {Shop, OddShop}
PlainDatabases == {Shop}

Limit == 1

EitherPredicate == Binary("Or", Unary("IsNull", Column(1)), Binary("Eq", Column(0), Literal(1)))

Predicates == {Binary("Lt", Column(1), Literal(6)),
               EitherPredicate,
               Unary("Not", Binary("Eq", Column(0), Literal(1)))}

Shaped(o) == Project(o, <<Column(1), Column(0)>>)

On(l, r) == << [left |-> l, right |-> r] >>

Operations(r) ==
    {Filter(r, p) : p \in Predicates}
    \cup {Sort(r, <<SortBy(Column(1), FALSE, TRUE)>>),
          Sort(r, <<SortBy(Column(1), TRUE, TRUE), SortBy(Column(0), FALSE, FALSE)>>),
          Paginate(r, Limit, 1)}
    \cup {Project(r, <<Column(1), Column(0)>>), Project(r, <<Column(0), Binary("Plus", Column(0), Column(1))>>)}
    \cup (IF r = users THEN {Project(r, <<GetField(Column(2), "zip"), Column(0)>>)} ELSE {})
    \cup {Aggregate(r, <<Column(0)>>, <<Aggregation("Max", Column(1), FALSE)>>),
          Aggregate(r, <<>>, <<Aggregation("Count", Literal(Null), FALSE), Aggregation("Count", Column(0), FALSE)>>),
          Aggregate(r, <<Column(1), Column(0)>>, <<>>)}
    \cup {Window(r, << [op |-> "RowNumber", partition_by |-> <<Column(0)>>,
                        order_by |-> <<SortBy(Column(1), FALSE, FALSE)>>] >>)}
    \cup {Join(r, o, On(Column(0), Column(0)), type) :
             o \in {orders},
             type \in {"Inner", "Left", "Right", "LeftSemi", "LeftAnti", "RightSemi", "RightAnti", "Full"}}
    \cup {Join(r, Filter(native, p), On(Column(0), Column(0)), "Inner") : p \in {Binary("Lt", Column(1), Literal(6))}}
    \cup (IF Width(r) # 2 THEN {}
          ELSE {Union(<<r, Project(orders, <<Column(1), Column(0)>>)>>),
                Union(<<r, Filter(orders, Binary("Eq", Column(0), Literal(1)))>>)})

RECURSIVE Built(_)
Built(n) == IF n = 0 THEN {users, orders, native}
            ELSE Built(n - 1) \cup UNION {Operations(r) : r \in Built(n - 1)}

-----------------------------------------------------------------------------
(* Scalar expressions, aggregates and window functions on the words        *)

word   == Column(0)
part   == Column(1)
place  == Column(2)
number == Column(3)
flag   == Column(4)
doc    == Column(5)

Num(i)     == Literal(i)
Str(chars) == Literal(chars)

Conditions == {
    Call("In", <<place, Num(2), number>>), Call("NotIn", <<place, Num(2), number>>),
    Call("Between", <<Num(1), place, Num(2)>>), Call("NotBetween", <<Num(1), place, Num(2)>>),
    Binary("LtEq", number, place), Binary("Gt", number, place), Binary("GtEq", place, number),
    Binary("NotEq", number, Num(3)),
    Binary("IsDistinctFrom", place, number), Binary("IsNotDistinctFrom", place, number),
    Unary("IsTrue", flag), Unary("IsFalse", flag), Unary("IsNotTrue", flag), Unary("IsNotFalse", flag),
    Unary("IsNotNull", word), Unary("IsNull", Binary("Plus", place, number)), Unary("IsZero", place),
    Call("Contains", <<word, part>>),
    Call("Like", <<part, Str(<<"_", "%">>)>>), Call("JsonContains", <<doc, Str(<<"xs">>), Num(2)>>),
    Binary("And", flag, Unary("Not", Unary("IsZero", number)))}
    \cup {Call(like, <<word, pattern>>) :
             like \in {"Like", "NotLike", "ILike", "NotILike"},
             pattern \in {Str(<<"a", "%">>), Str(<<"_", "b">>), Str(<<"%", ".", "_">>), Str(<<"%", "\\", ".", "b">>), part}}

Strings == {
    Call("Concat", <<word, part>>), Call("CharacterLength", <<word>>), Call("ToLower", <<word>>),
    Call("Replace", <<word, Str(<<"b">>), part>>), Call("Substr", <<word, Num(2)>>), Call("Substr", <<word, place>>),
    Call("Substr", <<word, Num(2), Num(1)>>), Call("StrPos", <<word, part>>),
    Call("Left", <<word, place>>), Call("Right", <<word, place>>),
    Call("Reverse", <<word>>), Call("SubstrIndex", <<word, Str(<<"b">>), Num(1)>>),
    Call("SubstrIndex", <<word, Str(<<"b">>), Num(2)>>), Call("SubstrIndex", <<word, Str(<<"b">>), Num(-1)>>),
    Call("SubstrIndex", <<word, Str(<<"b">>), place>>)}
    \cup {Call(pad, args) : pad \in {"LPad", "RPad"}, args \in {<<word, place>>, <<word, Num(5), part>>}}

Others == {
    Binary("Minus", place, number), Binary("Multiply", place, number), Unary("Negate", place),
    Binary("Modulo", number, Num(2)), Binary("Modulo", Num(5), place),
    Call("Case", <<flag, place, Binary("Gt", number, Num(0)), number, Literal(Null)>>),
    Call("CaseOf", <<place, Num(2), number, Num(3), Num(7), place>>),
    Call("Coalesce", <<number, place, Num(7)>>), Binary("Nvl", number, place),
    Binary("NullIf", place, Num(2)),
    Call("Greatest", <<place, number, Num(1)>>), Call("Least", <<place, number, Num(1)>>),
    Call("JsonGet", <<doc, Str(<<"$", "a", "b">>)>>), Call("JsonGet", <<doc, Str(<<"a">>), Str(<<"b">>)>>),
    Call("JsonLength", <<doc, Str(<<"xs">>)>>),
    Call("ArrayElement", <<Call("JsonGet", <<doc, Str(<<"xs">>)>>), Num(0)>>)}

\* In an order: none, that of the values or of something else, or of two things
List(expr, order_by, distinct) ==
    [op |-> "ArrayAgg", expr |-> expr, distinct |-> distinct, order_by |-> order_by]

Aggregates ==
    {Aggregation(op, place, FALSE) : op \in {"Sum", "Min", "Max", "FirstValue", "LastValue"}}
    \cup {Aggregation(op, flag, FALSE) : op \in {"BoolAnd", "BoolOr"}}
    \cup {Aggregation("Count", number, distinct) : distinct \in BOOLEAN}
    \cup {List(number, order, distinct) : distinct \in BOOLEAN,
             order \in {<<>>, <<SortBy(number, FALSE, TRUE)>>, <<SortBy(number, TRUE, TRUE)>>,
                        <<SortBy(place, FALSE, TRUE)>>, <<SortBy(number, FALSE, TRUE), SortBy(place, FALSE, TRUE)>>}}
    \cup {[op |-> "StringAgg", expr |-> expr, distinct |-> FALSE, order_by |-> <<>>, separator |-> <<",">>] :
             expr \in {word, part}}

Windows == {[op |-> op, partition_by |-> partition, order_by |-> order] :
               op \in {"RowNumber", "Rank", "DenseRank"}, partition \in {<<>>, <<flag>>},
               order \in {<<SortBy(number, FALSE, FALSE)>>, <<SortBy(number, TRUE, TRUE)>>,
                          <<SortBy(number, FALSE, FALSE), SortBy(place, TRUE, TRUE)>>}}

WordRequests ==
    {Filter(words, e) : e \in Conditions}
    \cup {Project(words, <<e>>) : e \in Conditions}
    \cup {Project(words, <<e>>) : e \in Strings}
    \cup {Project(words, <<e>>) : e \in Others}
    \cup {Sort(words, <<SortBy(e, FALSE, FALSE)>>) :
             e \in {Call("CharacterLength", <<word>>), Binary("Plus", place, number)}}
    \cup {Aggregate(words, keys, <<a>>) : keys \in {<<>>, <<flag>>}, a \in Aggregates}
    \cup {Window(words, <<w>>) : w \in Windows}
    \cup {Filter(Project(words, <<place, e>>), Binary("Gt", Column(1), Column(0))) :
             e \in {Call("CharacterLength", <<word>>), Binary("Plus", place, number)}}
    \cup {Aggregate(Filter(words, e), <<e>>, <<Aggregation("Count", Literal(Null), FALSE)>>) :
             e \in {Unary("IsNotFalse", flag), Call("Between", <<Num(0), place, Num(2)>>)}}

\* One of them is a union of relations that differ in width
MCRequests == {Union(<<users, orders>>)} \cup Built(Depth)
              \cup {Filter(r, p) : r \in Built(Depth), p \in Predicates}
              \cup {Filter(Project(r, <<Column(1), Column(0)>>), EitherPredicate) : r \in Built(Depth)}
              \cup WordRequests
=============================================================================
