--------------------------- MODULE MCQueryExecution --------------------------
(***************************************************************************)
(* QueryExecution over customers, orders and a native query.               *)
(***************************************************************************)
EXTENDS QueryExecution

int    == Scalar("int")
string == Scalar("string")
Address == Object([zip |-> Nullable(int), street |-> Nullable(string)])
Item    == Object([sku |-> string, count |-> Nullable(int)])
Address_ == Nullable(Address)

MCCollectionTypes ==
    [customers |-> Object([id |-> int, name |-> Nullable(string), age |-> Nullable(int), address |-> Address_,
                           tags |-> Nullable(ArrayOf(string)), since |-> Nullable(Scalar("date"))]),
     orders    |-> Object([id |-> int, customer |-> Nullable(int), price |-> Nullable(int),
                           items |-> Nullable(ArrayOf(Item))]
                          @@ ("$unit" :> Nullable(string))),
     cheapest  |-> Object([id |-> int, customer |-> Nullable(int), limit |-> Nullable(int)])]

MCCollectionArguments == [customers |-> EmptyMap, orders |-> EmptyMap, cheapest |-> [limit |-> int]]
MCNativeQueries == [n \in {"cheapest"} |-> "orders"]
MCStrings == <<"a", "b", "c", "s", "u", "x", "y">>
MCUnsafeNames == {"$unit"}
MCOtherInitials == {"$unit"}

MCRelationships ==
    [orders_   |-> [target |-> "orders", mapping |-> [id |-> <<"customer">>]],
     customer_ |-> [target |-> "customers", mapping |-> [customer |-> <<"id">>]],
     twins_    |-> [target |-> "orders", mapping |-> [id |-> <<"id">>, customer |-> <<"customer">>]],
     cheapest_ |-> [target |-> "cheapest", mapping |-> [id |-> <<"customer">>]]]

I(n) == Int_(n)
S(s) == Str(s)
Date(s) == [date |-> s]

Unit == [n \in {"$unit"} |-> S("u")]

Shop == [customers |-> << Doc([id |-> I(1), name |-> S("a"), age |-> I(5), tags |-> Arr(<<S("x"), S("y")>>), since |-> Date("a"),
                               address |-> Doc([zip |-> I(7), street |-> S("s")])]),
                          Doc([id |-> I(2), name |-> S("b"), age |-> I(3), tags |-> Arr(<<>>), since |-> Date("a"),
                               address |-> Doc([zip |-> I(8), street |-> S("s")])]) >>,
         orders |-> << Doc([id |-> I(1), customer |-> I(1), price |-> I(4), items |-> Arr(<<>>)] @@ Unit),
                       Doc([id |-> I(2), customer |-> I(1), price |-> I(2),
                            items |-> Arr(<< Doc([sku |-> S("x"), count |-> I(2)]), Doc([sku |-> S("y"), count |-> Null]) >>)] @@ Unit) >>,
         cheapest |-> << Doc([id |-> I(2), customer |-> I(1), limit |-> I(3)]) >>]

OddShop == [Shop EXCEPT !.customers = << Doc([id |-> I(1), name |-> Null]),
                                         Doc([id |-> I(2), name |-> I(0), age |-> I(1)]),
                                         Doc([id |-> I(3), name |-> S("c"), age |-> I(9), address |-> Null, tags |-> Null]) >>,
                        !.orders = << Doc([id |-> I(1), items |-> Null] @@ Unit),
                                      Doc([id |-> I(3), customer |-> I(3), price |-> I(4)]) >>]

Empty == [c \in DOMAIN Shop |-> <<>>]

MCDatabases == {Shop, OddShop, Empty}

-----------------------------------------------------------------------------
Query == [aggregates |-> Null, fields |-> Null, groups |-> Null, order_by |-> <<>>, predicate |-> Null,
          limit |-> Null, offset |-> Null]
Col(c)        == [column |-> c, fields |-> Null]
Sub(c, n)     == [column |-> c, fields |-> n]
Rel(r, q)     == [relationship |-> r, arguments |-> EmptyMap, query |-> q]
Select(cs)    == [c \in cs |-> Col(c)]
T(c)          == [name |-> c, field_path |-> <<>>]
Val(v)        == [scalar |-> v]
Var(n)        == [variable |-> n]
ColumnValue(c, path) == [column |-> T(c), path |-> path, scope |-> Null]
Cmp(op, c, v) == [op |-> op, column |-> T(c), value |-> v]
Test(op, c)   == [op |-> op, column |-> T(c)]
AndOf(a, b)   == [op |-> "and", of |-> <<a, b>>]
OrOf(a, b)    == [op |-> "or", of |-> <<a, b>>]
NotOf(a)      == [op |-> "not", of |-> <<a>>]
ExistsRel(r, p) == [op |-> "exists", in |-> [kind |-> "related", relationship |-> r, arguments |-> EmptyMap], predicate |-> p]
ExistsNested(c, p) == [op |-> "exists", in |-> [kind |-> "nested", column_name |-> c, field_path |-> <<>>], predicate |-> p]
Through(r, p) == [relationship |-> r, arguments |-> EmptyMap, predicate |-> p]
By(path, c, desc) == [path |-> path, name |-> c, field_path |-> <<>>, desc |-> desc]

Star          == [op |-> "star_count"]
Count(c, d)   == [op |-> "column_count", column |-> c, field_path |-> <<>>, distinct |-> d]
Single(f, c)  == [op |-> "single_column", column |-> c, field_path |-> <<>>, function |-> f]
Dim(path, c)  == [path |-> path, column_name |-> c, field_path |-> <<>>]

Request(c, q) == [collection |-> c, arguments |-> EmptyMap, query |-> q, variables |-> Null]

-----------------------------------------------------------------------------
OrderAggregates == [n |-> Star, priced |-> Count("price", FALSE), prices |-> Count("price", TRUE),
                    most |-> Single("max", "price"), total |-> Single("sum", "price")]
ByCustomer == [dimensions |-> <<Dim(<<>>, "customer"), Dim(<<Through("customer_", Null)>>, "name")>>,
               aggregates |-> [n |-> Star, least |-> Single("min", "price")]]
OrderFields == Select({"id", "price"})
Cheap == Cmp("lt", "price", Val(I(4)))

\* What is asked of the orders of a customer
OfOrders == {[Query EXCEPT !.fields = OrderFields],
             [Query EXCEPT !.aggregates = OrderAggregates],
             [Query EXCEPT !.aggregates = OrderAggregates, !.fields = OrderFields],
             [Query EXCEPT !.groups = ByCustomer],
             [Query EXCEPT !.fields = OrderFields, !.order_by = <<By(<<>>, "price", FALSE)>>, !.limit = 1],
             [Query EXCEPT !.fields = OrderFields, !.predicate = Cheap],
             [Query EXCEPT !.fields = [up |-> Rel("customer_", [Query EXCEPT !.fields = Select({"name"})])]],
             [Query EXCEPT !.fields = [up |-> Rel("customer_", [Query EXCEPT !.fields =
                 [all |-> Rel("orders_", [Query EXCEPT !.aggregates = OrderAggregates])]])]],
             [Query EXCEPT !.fields = Select({"$unit"})]}

CustomerFields ==
    {Select({"id", "name"}), Select({"address", "tags", "since"}),
     [where |-> Sub("address", [object |-> Select({"zip", "street"})]), id |-> Col("id")]}
    \cup {[id |-> Col("id"), o |-> Rel("orders_", q)] : q \in OfOrders}
    \cup {[a |-> Rel("orders_", [Query EXCEPT !.fields = Select({"id"})]), b |-> Rel("orders_", q)] : q \in OfOrders}
    \cup {[o |-> Rel("cheapest_", [Query EXCEPT !.fields = Select({"id"})])]}

CustomerPredicates ==
    {Cmp("eq", "name", Val(S("a"))), Cmp("lt", "age", Val(I(5))), Cmp("ne", "age", Val(I(5))),
     Cmp("nin", "id", Val(Arr(<<I(1)>>))), Cmp("in", "id", Val(Arr(<<I(1), I(3)>>))),
     Test("is_null", "age"), Test("is_empty", "tags"), Cmp("contains", "tags", Val(S("x"))),
     NotOf(Cmp("lt", "age", Val(I(5)))), Cmp("lt", "id", ColumnValue("age", <<>>)), Cmp("eq", "age", ColumnValue("age", <<>>)),
     ExistsRel("orders_", Null), ExistsRel("orders_", Cheap), NotOf(ExistsRel("orders_", Cheap)),
     ExistsRel("orders_", ExistsRel("customer_", Cmp("eq", "name", Val(S("a"))))),
     ExistsRel("orders_", ExistsNested("items", Null)),
     AndOf(ExistsRel("orders_", Cheap), Cmp("lt", "id", ColumnValue("age", <<>>))),
     OrOf(Test("is_null", "age"), Cmp("eq", "id", Val(I(2)))),
     OrOf(Test("is_null", "age"), Cmp("eq", "id", ColumnValue("age", <<>>))),
     OrOf(Cmp("lt", "age", Val(I(5))), Cmp("eq", "id", ColumnValue("age", <<>>))),
     AndOf(NotOf(Cmp("lt", "age", Val(I(5)))), Cmp("lt", "id", ColumnValue("age", <<>>))),
     AndOf(Cmp("ne", "age", Val(I(3))), Cmp("lt", "id", ColumnValue("age", <<>>))),
     AndOf(Cmp("contains", "tags", Val(S("x"))), Cmp("lt", "id", ColumnValue("age", <<>>))),
     AndOf(Test("is_empty", "tags"), Cmp("lt", "id", ColumnValue("age", <<>>))),
     [op |-> "and", of |-> <<>>], [op |-> "or", of |-> <<>>],
     Cmp("eq", "id", Val(S("a"))), Cmp("eq", "id", ColumnValue("id", <<Through("orders_", Null)>>)),
     [op |-> "exists", in |-> [kind |-> "unrelated", collection |-> "orders", arguments |-> EmptyMap], predicate |-> Null]}

CustomerOrders == {<<By(<<>>, "age", FALSE)>>, <<By(<<>>, "name", TRUE), By(<<>>, "id", TRUE)>>,
                   <<[By(<<>>, "address", FALSE) EXCEPT !.field_path = <<"zip">>]>>,
                   <<By(<<>>, "age", FALSE), By(<<>>, "id", TRUE), By(<<>>, "age", TRUE)>>,
                   <<By(<<Through("orders_", Null)>>, "price", TRUE)>>,
                   <<By(<<Through("orders_", Cheap)>>, "price", FALSE)>>}

Windows == {<<Null, Null>>, <<1, Null>>, <<Null, 1>>, <<1, 1>>, <<0, Null>>}

OrderQueries ==
    {[Query EXCEPT !.aggregates = a, !.fields = f, !.groups = g, !.limit = w[1], !.offset = w[2], !.order_by = <<By(<<>>, o, TRUE)>>] :
        a \in {Null, OrderAggregates}, g \in {Null, ByCustomer},
        f \in {Null, Select({"id", "$unit"}), [items |-> Sub("items", [array |-> [object |-> Select({"sku"})]])]},
        w \in Windows, o \in {"id", "$unit"}}
OrderPredicates ==
    {ExistsNested("items", Null), ExistsNested("items", Cmp("eq", "sku", Val(S("x")))), Test("is_null", "$unit"),
     Cmp("eq", "$unit", Val(S("u"))), NotOf(ExistsNested("items", Null)),
     AndOf(Cmp("eq", "$unit", Val(S("u"))), ExistsNested("items", Cmp("eq", "sku", Val(S("x"))))),
     ExistsRel("customer_", NotOf(Cmp("eq", "name", Val(S("a"))))),
     ExistsRel("twins_", Cheap)}

VariableSets_ == {<<[x |-> I(1), y |-> S("a")], [x |-> I(1), y |-> S("b")], [x |-> I(2), y |-> S("a")]>>, <<[x |-> I(3), y |-> S("a")], [z |-> I(0), x |-> I(1), y |-> S("c")]>>, <<>>, <<[x |-> S("a"), y |-> S("a")]>>}

Shapes == {[Query EXCEPT !.fields = Select({"id"})], [Query EXCEPT !.aggregates = [n |-> Star]],
          [Query EXCEPT !.fields = Select({"id"}), !.aggregates = [n |-> Star, age |-> Single("min", "age")]],
          [Query EXCEPT !.groups = [dimensions |-> <<Dim(<<>>, "age")>>, aggregates |-> [n |-> Star]]],
          [Query EXCEPT !.fields = [o |-> Rel("orders_", [Query EXCEPT !.fields = Select({"id"}), !.predicate = Cmp("lt", "price", Var("x"))])]]}
VariablePredicates == {Cmp("eq", "id", Var("x")), AndOf(Cmp("lt", "id", Var("x")), Cmp("ne", "age", Var("x"))), Null,
                       Cmp("eq", "age", Var("x")), AndOf(Cmp("ne", "age", Var("x")), Cmp("eq", "id", Var("x"))),
                       OrOf(Cmp("eq", "name", Var("y")), Cmp("eq", "since", Var("y")))}

Foreach == {[Request("customers", [q EXCEPT !.predicate = p]) EXCEPT !.variables = v] :
               q \in Shapes, p \in VariablePredicates, v \in VariableSets_}
Natives == {[Request("cheapest", [Query EXCEPT !.fields = Select({"id"})]) EXCEPT !.arguments = a, !.variables = v] :
               a \in {[limit |-> [literal |-> I(3)]], [limit |-> [variable |-> "x"]], EmptyMap},
               v \in {<<[x |-> I(3)], [x |-> I(1)]>>}}
            \cup {[Request("cheapest", [Query EXCEPT !.fields = Select({"id"})]) EXCEPT !.arguments = [limit |-> [literal |-> I(3)]]]}

MCRequests ==
    {Request("customers", [Query EXCEPT !.fields = f, !.predicate = p]) :
        f \in CustomerFields, p \in {Null} \cup CustomerPredicates}
    \cup {Request("customers", [Query EXCEPT !.fields = Select({"id"}), !.order_by = o, !.limit = w[1], !.offset = w[2]]) :
             o \in CustomerOrders, w \in Windows}
    \cup {Request("orders", q) : q \in OrderQueries}
    \cup {Request("orders", [Query EXCEPT !.fields = Select({"id"}), !.predicate = p]) : p \in OrderPredicates}
    \cup {Request("orders", [Query EXCEPT !.fields = f]) :
             f \in {[t |-> Rel("twins_", [Query EXCEPT !.fields = OrderFields])],
                    [t |-> Rel("twins_", [Query EXCEPT !.aggregates = OrderAggregates]), up |-> Rel("customer_", [Query EXCEPT !.fields = Select({"id"})])]}}
    \cup Foreach \cup Natives

\* The counts and the rows of the orders of each customer, some of whom have none
CombinedRequests == {Request("customers", [Query EXCEPT !.fields = [o |-> Rel("orders_", q)]]) :
                        q \in {x \in OfOrders : x.aggregates # Null /\ x.fields # Null}}

\* The counts of the orders of each customer who has a cheap one
SharedRequests == {Request("customers", [Query EXCEPT !.fields = [o |-> Rel("orders_", q)],
                                                      !.predicate = ExistsRel("orders_", Cheap)]) :
                      q \in {x \in OfOrders : x.aggregates # Null /\ x.fields = Null}}
=============================================================================
