-------------------------- MODULE RelationalProofs --------------------------
(***************************************************************************)
(* What the passes over a relational query do (module RelationalPasses),   *)
(* and where a native query is in the pipeline that is built from what     *)
(* they made of it (module PipelineBuilder), for all relations.            *)
(*                                                                         *)
(* Expressions and relations are finite trees (FiniteTrees): made, in any  *)
(* number of steps, of what the NDC specification makes them of.  What is  *)
(* defined by recursion over them is unfolded first, each by an instance   *)
(* of Recursion; the rest is induction over the height of a relation or    *)
(* the rank of an expression (RelationInduction, SizeInduction).           *)
(***************************************************************************)
EXTENDS PipelineBuilder, WellFoundedInduction, SequenceTheorems, TLAPS

------------------------------------------------------------------------------
\* Expressions and relations are finite trees.

\* The names of operations that the passes know, and those of others
Known == KnownUnary \cup KnownBinary \cup {"Column", "GetField", "Literal"}

\* What is made, in one step, of expressions and of what the passes do not look into
ExpressionsOf(exprs, leaves) ==
    {Column(i) : i \in Nat} \cup {Literal(v) : v \in leaves.values}
    \cup {GetField(e, f) : e \in exprs, f \in leaves.names}
    \cup {Unary(op, e) : op \in KnownUnary \cup leaves.operators, e \in exprs}
    \cup {Binary(op, e, f) : op \in KnownBinary \cup leaves.operators, e \in exprs, f \in exprs}
    \cup {Call(op, args) : op \in leaves.operators, args \in Seq(exprs)}

SortKeys(exprs)  == {SortBy(e, desc, last) : e \in exprs, desc \in BOOLEAN, last \in BOOLEAN}
JoinTests(exprs) == [left : exprs, right : exprs]
Fetches == Nat \cup {Null}
JoinTypes == {"Inner", "Left", "Right", "Full", "LeftSemi", "LeftAnti", "RightSemi", "RightAnti"}

RelationsOf(relations, exprs, leaves) ==
    {From(c, cols) : c \in leaves.collections, cols \in Seq(leaves.names)}
    \cup {Filter(r, p) : r \in relations, p \in exprs}
    \cup {Sort(r, keys) : r \in relations, keys \in Seq(SortKeys(exprs))}
    \cup {Paginate(r, fetch, skip) : r \in relations, fetch \in Fetches, skip \in Nat}
    \cup {Project(r, es) : r \in relations, es \in Seq(exprs)}
    \cup {Aggregate(r, keys, fs) : r \in relations, keys \in Seq(exprs), fs \in Seq(leaves.aggregates)}
    \cup {Window(r, ws) : r \in relations, ws \in Seq(leaves.windows)}
    \cup {Join(l, r, on, type) : l \in relations, r \in relations, on \in Seq(JoinTests(exprs)), type \in JoinTypes}
    \cup {Union(rs) : rs \in Seq(relations) \ {<<>>}}

\* Right joins count for two: the first pass puts a projection on top of them.
Cost(r) == IF IsRightJoin(r) THEN 2 ELSE 1

\* Expressions and Relations are what is made so in finitely many steps: rank and height count them.
FiniteTrees(leaves, rank, height) ==
    /\ leaves.operators \cap Known = {}
    /\ \A d \in Databases : leaves.collections \subseteq DOMAIN d
    /\ Expressions = ExpressionsOf(Expressions, leaves)
    /\ rank \in [Expressions -> Nat]
    /\ \A e \in Expressions : \A i \in DOMAIN Operands(e) : rank[Operands(e)[i]] < rank[e]
    /\ Relations = RelationsOf(Relations, Expressions, leaves)
    /\ height \in [Relations -> Nat]
    /\ \A r \in Relations, n \in Nat :
           height[r] <= n <=> \A i \in DOMAIN Inputs(r) : height[Inputs(r)[i]] + Cost(r) <= n

------------------------------------------------------------------------------
\* What the recursive definitions define.

\* Every definition that is made by recursion: what it is for x, given what it is for the parts of x
Parts(of, x) == CASE of = "value" -> Operands(x)
                  [] of = "obstacles" -> Operands(x)
                  [] of = "remap" -> Operands(x)
                  [] of = "flatten" -> IF x = 1 THEN <<>> ELSE <<x - 1>>
                  [] of = "within" -> IF x = 0 THEN <<>> ELSE <<x - 1>>
                  [] of = "build" -> BuiltFirst(x)
                  [] OTHER -> Inputs(x)

\* Pipelines, and those in their stages
Deeper(pipelines) ==
    pipelines \cup {s.pipeline : s \in {t \in UNION {ToSet(p) : p \in pipelines} : "pipeline" \in DOMAIN t}}

Made(of, given, x, v) ==
    CASE of = "flatten" -> IF x = 1 THEN given[x] ELSE v[1] \o given[x]
      [] of = "value" -> Evaluated(x, v, given)
      [] of = "obstacles" -> ObstaclesIn(x, given, v)
      [] of = "remap" -> Remapped(x, given, v)
      [] of = "subrelations" -> {x} \cup UNION {v[i] : i \in DOMAIN v}
      [] of = "width" ->
           CASE x.op = "From" -> Len(x.columns)
             [] x.op = "Project" -> Len(x.exprs)
             [] x.op = "Aggregate" -> Len(x.group_by) + Len(x.aggregates)
             [] x.op = "Window" -> v[1] + Len(x.exprs)
             [] x.op = "Join" -> IF x.type \in {"LeftSemi", "LeftAnti"} THEN v[1]
                                 ELSE IF x.type \in {"RightSemi", "RightAnti"} THEN v[2]
                                 ELSE v[1] + v[2]
             [] OTHER -> v[1]
      [] of = "rows" -> RowsFrom(x, v, given)
      [] of = "normal" -> IF IsRightJoin(x) THEN Swapped(x, v[1], v[2]) ELSE WithInputs(x, v)
      [] of = "root" -> CASE x.op = "From" -> x.collection [] x.op = "Union" -> Null [] OTHER -> v[1]
      [] of = "early" -> CASE x.op \in {"Union", "From"} -> Null
                           [] x.op = "Filter" /\ EarlyDocument(x) # Null -> x
                           [] OTHER -> v[1]
      [] of = "build" -> BuiltFrom(x, v)
      [] of = "within" -> IF x = 0 THEN {given} ELSE Deeper(v[1])

\* A set of numbers has a smallest element, unless it is empty.
LEMMA Smallest ==
    ASSUME NEW S \in SUBSET Nat, S # {}
    PROVE  \E n \in S : \A m \in S : n <= m
<1> DEFINE R == OpToRel(<, Nat)
<1>1. IsWellFoundedOn(R, Nat)
  BY NatLessThanWellFounded
<1>2. \A x, y \in Nat : y < x => <<y, x>> \in R
  BY DEF OpToRel
<1> HIDE DEF R
<1>3. PICK x \in S : \A y \in S : ~ (<<y, x>> \in R)
  BY <1>1, WFMin
<1>4. \A y \in S : ~(y < x)
  BY <1>2, <1>3
<1>5. \A y \in S : x <= y
  BY <1>4, S \subseteq Nat
<1> QED
  BY <1>5

\* A set that holds what it holds everything smaller than holds everything.
LEMMA SizeInduction ==
    ASSUME NEW D, NEW size \in [D -> Nat],
           NEW S, \A x \in D : (\A y \in D : size[y] < size[x] => y \in S) => x \in S
    PROVE  \A x \in D : x \in S
<1> SUFFICES ASSUME NEW z \in D, z \notin S PROVE FALSE
  OBVIOUS
<1> DEFINE Sizes == {n \in Nat : \E x \in D : x \notin S /\ size[x] = n}
<1>1. \A x \in D : size[x] \in Nat
  OBVIOUS
<1>2. Sizes \in SUBSET Nat /\ Sizes # {}
  BY <1>1
<1>3. PICK n \in Sizes : \A m \in Sizes : n <= m
  BY <1>2, Smallest
<1>4. PICK x \in D : x \notin S /\ size[x] = n
  BY <1>3
<1>5. PICK y \in D : size[y] < size[x] /\ y \notin S
  BY <1>4
<1>6. size[y] \in Sizes /\ size[y] \in Nat /\ n \in Nat /\ size[y] < n
  BY <1>1, <1>4, <1>5
<1> QED
  BY <1>3, <1>6

\* What is smaller than what is in D is in D, and each part is smaller.
Founded(of, D, size) ==
    /\ size \in [D -> Nat]
    /\ \A x \in D : \A i \in DOMAIN Parts(of, x) : Parts(of, x)[i] \in D /\ size[Parts(of, x)[i]] < size[x]

Given(of, x, f) == [i \in DOMAIN Parts(of, x) |-> f[Parts(of, x)[i]]]

Defines(of, given, D, f) == f = [x \in D |-> Made(of, given, x, Given(of, x, f))]

\* Every recursive definition defines something.
LEMMA Recursion ==
    ASSUME NEW of, NEW given, NEW D, NEW size, Founded(of, D, size)
    PROVE  \E f : Defines(of, given, D, f)
<1> DEFINE Below(n) == {x \in D : size[x] < n}
           Upto(n, g) == Defines(of, given, Below(n), g)
<1>1. /\ \A x \in D : size[x] \in Nat
      /\ \A x \in D : \A i \in DOMAIN Parts(of, x) : Parts(of, x)[i] \in D /\ size[Parts(of, x)[i]] < size[x]
  BY DEF Founded
<1>2. ASSUME NEW x, NEW g, NEW h, \A i \in DOMAIN Parts(of, x) : g[Parts(of, x)[i]] = h[Parts(of, x)[i]]
      PROVE  Made(of, given, x, Given(of, x, g)) = Made(of, given, x, Given(of, x, h))
  <2>1. Given(of, x, g) = Given(of, x, h)
    BY <1>2 DEF Given
  <2> QED
    BY <2>1
<1>3. ASSUME NEW n \in Nat, NEW g, Upto(n, g), NEW x \in Below(n)
      PROVE  g[x] = Made(of, given, x, Given(of, x, g))
  BY <1>3 DEF Defines
<1>4. ASSUME NEW n \in Nat, NEW g, Upto(n, g), NEW m \in Nat, NEW h, Upto(m, h), n <= m
      PROVE  \A x \in Below(n) : g[x] = h[x]
  <2> DEFINE Same == {x \in D : size[x] < n => g[x] = h[x]}
  <2>1. ASSUME NEW x \in D, \A y \in D : size[y] < size[x] => y \in Same
        PROVE  x \in Same
    <3> SUFFICES ASSUME size[x] < n PROVE g[x] = h[x]
      OBVIOUS
    <3>1. x \in Below(n) /\ x \in Below(m)
      BY <1>1, <1>4
    <3>2. \A i \in DOMAIN Parts(of, x) : g[Parts(of, x)[i]] = h[Parts(of, x)[i]]
      <4> SUFFICES ASSUME NEW i \in DOMAIN Parts(of, x) PROVE g[Parts(of, x)[i]] = h[Parts(of, x)[i]]
        OBVIOUS
      <4> DEFINE y == Parts(of, x)[i]
      <4>1. y \in D /\ size[y] < size[x] /\ size[y] \in Nat /\ size[x] \in Nat
        BY <1>1
      <4> HIDE DEF y
      <4>2. y \in Same /\ size[y] < n
        BY <2>1, <4>1
      <4> QED
        BY <4>2 DEF y
    <3>3. g[x] = Made(of, given, x, Given(of, x, g)) /\ h[x] = Made(of, given, x, Given(of, x, h))
      BY <1>3, <1>4, <3>1
    <3> QED
      BY <1>2, <3>2, <3>3
  <2>2. size \in [D -> Nat]
    BY DEF Founded
  <2> HIDE DEF Same
  <2>3. \A x \in D : x \in Same
    BY <2>1, <2>2, SizeInduction
  <2> QED
    BY <2>3 DEF Same
<1>5. ASSUME NEW n \in Nat PROVE \E g : Upto(n, g)
  <2> DEFINE None == {k \in Nat : ~ \E g : Upto(k, g)}
  <2> SUFFICES ASSUME n \in None PROVE FALSE
    OBVIOUS
  <2>0. None \in SUBSET Nat /\ None # {}
    OBVIOUS
  <2>1. PICK m \in None : \A k \in None : m <= k
    <3> HIDE DEF None
    <3> QED
      BY <2>0, Smallest
  <2>2. m \in Nat /\ ~ \E g : Upto(m, g)
    BY <2>1
  <2>3. m # 0
    <3> DEFINE g == [x \in {} |-> x]
    <3>1. Below(0) = {}
      BY <1>1
    <3>2. g = [x \in {} |-> Made(of, given, x, Given(of, x, g))]
      OBVIOUS
    <3>3. Upto(0, g)
      BY <3>1, <3>2 DEF Defines
    <3> QED
      BY <2>2, <3>3
  <2>4. m - 1 \in Nat /\ m - 1 \notin None
    <3>1. m - 1 \in Nat /\ ~(m <= m - 1)
      BY <2>2, <2>3
    <3> QED
      BY <2>1, <3>1
  <2>5. PICK g : Upto(m - 1, g)
    BY <2>4
  <2> DEFINE h == [x \in Below(m) |-> Made(of, given, x, Given(of, x, g))]
  <2>6. ASSUME NEW x \in Below(m - 1) PROVE h[x] = g[x]
    <3>1. x \in Below(m)
      BY <1>1, <2>4, <2>2
    <3>2. g[x] = Made(of, given, x, Given(of, x, g))
      BY <1>3, <2>4, <2>5
    <3> QED
      BY <3>1, <3>2
  <2>7. ASSUME NEW x \in Below(m) PROVE h[x] = Made(of, given, x, Given(of, x, h))
    <3>1. \A i \in DOMAIN Parts(of, x) : g[Parts(of, x)[i]] = h[Parts(of, x)[i]]
      <4> SUFFICES ASSUME NEW i \in DOMAIN Parts(of, x) PROVE g[Parts(of, x)[i]] = h[Parts(of, x)[i]]
        OBVIOUS
      <4> DEFINE y == Parts(of, x)[i]
      <4>1. y \in D /\ size[y] < size[x] /\ size[y] \in Nat /\ size[x] \in Nat /\ size[x] < m
        BY <1>1, <2>7
      <4> HIDE DEF y, h
      <4>2. y \in Below(m - 1)
        BY <4>1, <2>2
      <4> QED
        BY <2>6, <4>2 DEF y
    <3>2. h[x] = Made(of, given, x, Given(of, x, g))
      OBVIOUS
    <3> HIDE DEF h
    <3> QED
      BY <1>2, <3>1, <3>2
  <2>8. h = [x \in Below(m) |-> h[x]]
    OBVIOUS
  <2> HIDE DEF h
  <2>9. h = [x \in Below(m) |-> Made(of, given, x, Given(of, x, h))]
    BY <2>7, <2>8
  <2>10. Upto(m, h)
    BY <2>9 DEF Defines
  <2> QED
    BY <2>2, <2>10
<1> DEFINE At(x) == CHOOSE g : Upto(size[x] + 1, g)
           f == [x \in D |-> At(x)[x]]
<1>6. ASSUME NEW x \in D PROVE Upto(size[x] + 1, At(x))
  <2> HIDE DEF Upto
  <2>0. size[x] + 1 \in Nat
    BY <1>1
  <2>1. \E g : Upto(size[x] + 1, g)
    BY <1>5, <2>0
  <2> QED
    BY <2>1
<1>7. ASSUME NEW x \in D PROVE f[x] = Made(of, given, x, Given(of, x, f))
  <2>1. x \in Below(size[x] + 1) /\ size[x] + 1 \in Nat
    BY <1>1
  <2>2. At(x)[x] = Made(of, given, x, Given(of, x, At(x)))
    <3> HIDE DEF At, Below, Upto
    <3>1. Upto(size[x] + 1, At(x))
      BY <1>6
    <3> QED
      BY <1>3, <2>1, <3>1
  <2>3. \A i \in DOMAIN Parts(of, x) : f[Parts(of, x)[i]] = At(x)[Parts(of, x)[i]]
    <3> SUFFICES ASSUME NEW i \in DOMAIN Parts(of, x) PROVE f[Parts(of, x)[i]] = At(x)[Parts(of, x)[i]]
      OBVIOUS
    <3> DEFINE y == Parts(of, x)[i]
    <3>1. y \in D /\ size[y] < size[x] /\ size[y] \in Nat /\ size[x] \in Nat
      BY <1>1
    <3> HIDE DEF y
    <3>2. y \in Below(size[y] + 1) /\ size[y] + 1 \in Nat /\ size[x] + 1 \in Nat /\ size[y] + 1 <= size[x] + 1
      BY <3>1
    <3>3. f[y] = At(y)[y]
      BY <3>1
    <3> HIDE DEF At, f, Below, Upto
    <3>4. Upto(size[y] + 1, At(y)) /\ Upto(size[x] + 1, At(x))
      BY <1>6, <3>1
    <3>5. At(y)[y] = At(x)[y]
      BY <1>4, <3>2, <3>4
    <3> QED
      BY <3>3, <3>5 DEF y
  <2>4. f[x] = At(x)[x]
    OBVIOUS
  <2> HIDE DEF At, f
  <2> QED
    BY <1>2, <2>2, <2>3, <2>4
<1>8. f = [x \in D |-> f[x]]
  OBVIOUS
<1> HIDE DEF f
<1>9. f = [x \in D |-> Made(of, given, x, Given(of, x, f))]
  BY <1>7, <1>8
<1> QED
  BY <1>9 DEF Defines

------------------------------------------------------------------------------
\* What relations and expressions are like.

IsFrom(r)      == r.op = "From" /\ r = From(r.collection, r.columns)
IsFilter(r)    == r.op = "Filter" /\ r = Filter(r.input, r.predicate) /\ r.input \in Relations /\ r.predicate \in Expressions
IsSort(r)      == r.op = "Sort" /\ r = Sort(r.input, r.exprs) /\ r.input \in Relations /\ r.exprs \in Seq(SortKeys(Expressions))
IsPaginate(r)  == r.op = "Paginate" /\ r = Paginate(r.input, r.fetch, r.skip) /\ r.input \in Relations
                  /\ r.fetch \in Fetches /\ r.skip \in Nat
IsProject(r)   == r.op = "Project" /\ r = Project(r.input, r.exprs) /\ r.input \in Relations /\ r.exprs \in Seq(Expressions)
IsAggregate(r) == r.op = "Aggregate" /\ r = Aggregate(r.input, r.group_by, r.aggregates) /\ r.input \in Relations
                  /\ r.group_by \in Seq(Expressions)
IsWindow(r)    == r.op = "Window" /\ r = Window(r.input, r.exprs) /\ r.input \in Relations
IsJoin(r)      == r.op = "Join" /\ r = Join(r.left, r.right, r.on, r.type) /\ r.left \in Relations /\ r.right \in Relations
                  /\ r.on \in Seq(JoinTests(Expressions)) /\ r.type \in JoinTypes
IsUnion(r)     == r.op = "Union" /\ r = Union(r.relations) /\ r.relations \in Seq(Relations) /\ r.relations # <<>>

Leaf(r, leaves) ==
    /\ IsFrom(r) => r.collection \in leaves.collections /\ r.columns \in Seq(leaves.names)
    /\ IsAggregate(r) => r.aggregates \in Seq(leaves.aggregates)
    /\ IsWindow(r) => r.exprs \in Seq(leaves.windows)

\* What is made of inputs and the rest has them.
LEMMA OfFrom ==
    ASSUME NEW r, NEW c, NEW cols, r = From(c, cols)
    PROVE  /\ r.op = "From" /\ r.collection = c /\ r.columns = cols
           /\ Inputs(r) = <<>> /\ \A ins : WithInputs(r, ins) = From(c, cols)
BY DEF From, Inputs, WithInputs

LEMMA OfFilter ==
    ASSUME NEW r, NEW x, NEW p, r = Filter(x, p)
    PROVE  /\ r.op = "Filter" /\ r.input = x /\ r.predicate = p
           /\ Inputs(r) = <<x>> /\ \A ins : WithInputs(r, ins) = Filter(ins[1], p)
BY DEF Filter, Inputs, WithInputs

LEMMA OfSort ==
    ASSUME NEW r, NEW x, NEW es, r = Sort(x, es)
    PROVE  /\ r.op = "Sort" /\ r.input = x /\ r.exprs = es
           /\ Inputs(r) = <<x>> /\ \A ins : WithInputs(r, ins) = Sort(ins[1], es)
BY DEF Sort, Inputs, WithInputs

LEMMA OfPaginate ==
    ASSUME NEW r, NEW x, NEW n, NEW m, r = Paginate(x, n, m)
    PROVE  /\ r.op = "Paginate" /\ r.input = x /\ r.fetch = n /\ r.skip = m
           /\ Inputs(r) = <<x>> /\ \A ins : WithInputs(r, ins) = Paginate(ins[1], n, m)
BY DEF Paginate, Inputs, WithInputs

LEMMA OfProject ==
    ASSUME NEW r, NEW x, NEW es, r = Project(x, es)
    PROVE  /\ r.op = "Project" /\ r.input = x /\ r.exprs = es
           /\ Inputs(r) = <<x>> /\ \A ins : WithInputs(r, ins) = Project(ins[1], es)
BY DEF Project, Inputs, WithInputs

LEMMA OfAggregate ==
    ASSUME NEW r, NEW x, NEW ks, NEW fs, r = Aggregate(x, ks, fs)
    PROVE  /\ r.op = "Aggregate" /\ r.input = x /\ r.group_by = ks /\ r.aggregates = fs
           /\ Inputs(r) = <<x>> /\ \A ins : WithInputs(r, ins) = Aggregate(ins[1], ks, fs)
BY DEF Aggregate, Inputs, WithInputs

LEMMA OfWindow ==
    ASSUME NEW r, NEW x, NEW es, r = Window(x, es)
    PROVE  /\ r.op = "Window" /\ r.input = x /\ r.exprs = es
           /\ Inputs(r) = <<x>> /\ \A ins : WithInputs(r, ins) = Window(ins[1], es)
BY DEF Window, Inputs, WithInputs

LEMMA OfJoin ==
    ASSUME NEW r, NEW x, NEW y, NEW on, NEW type, r = Join(x, y, on, type)
    PROVE  /\ r.op = "Join" /\ r.left = x /\ r.right = y /\ r.on = on /\ r.type = type
           /\ Inputs(r) = <<x, y>> /\ \A ins : WithInputs(r, ins) = Join(ins[1], ins[2], on, type)
BY DEF Join, Inputs, WithInputs

LEMMA OfUnion ==
    ASSUME NEW r, NEW rs, r = Union(rs)
    PROVE  /\ r.op = "Union" /\ r.relations = rs
           /\ Inputs(r) = rs /\ \A ins : WithInputs(r, ins) = Union(ins)
BY DEF Union, Inputs, WithInputs

\* A relation is one of these.
LEMMA Shapes ==
    ASSUME NEW leaves, NEW rank, NEW height, FiniteTrees(leaves, rank, height), NEW r \in Relations
    PROVE  /\ \/ IsFrom(r) \/ IsFilter(r) \/ IsSort(r) \/ IsPaginate(r) \/ IsProject(r)
              \/ IsAggregate(r) \/ IsWindow(r) \/ IsJoin(r) \/ IsUnion(r)
           /\ Leaf(r, leaves)
<1>1. r \in RelationsOf(Relations, Expressions, leaves)
  BY DEF FiniteTrees
<1>2. CASE \E c \in leaves.collections, cols \in Seq(leaves.names) : r = From(c, cols)
  BY <1>2 DEF From, IsFrom, IsAggregate, IsWindow, Leaf
<1>3. CASE \E x \in Relations, p \in Expressions : r = Filter(x, p)
  BY <1>3 DEF Filter, IsFilter, IsFrom, IsAggregate, IsWindow, Leaf
<1>4. CASE \E x \in Relations, keys \in Seq(SortKeys(Expressions)) : r = Sort(x, keys)
  BY <1>4 DEF Sort, IsSort, IsFrom, IsAggregate, IsWindow, Leaf
<1>5. CASE \E x \in Relations, fetch \in Fetches, skip \in Nat : r = Paginate(x, fetch, skip)
  BY <1>5 DEF Paginate, IsPaginate, IsFrom, IsAggregate, IsWindow, Leaf
<1>6. CASE \E x \in Relations, es \in Seq(Expressions) : r = Project(x, es)
  BY <1>6 DEF Project, IsProject, IsFrom, IsAggregate, IsWindow, Leaf
<1>7. CASE \E x \in Relations, keys \in Seq(Expressions), fs \in Seq(leaves.aggregates) : r = Aggregate(x, keys, fs)
  <2>1. PICK x \in Relations, keys \in Seq(Expressions), fs \in Seq(leaves.aggregates) : r = Aggregate(x, keys, fs)
    BY <1>7
  <2>2. r.op = "Aggregate" /\ r.input = x /\ r.group_by = keys /\ r.aggregates = fs
    BY <2>1 DEF Aggregate
  <2> QED
    BY <2>1, <2>2 DEF IsAggregate, IsFrom, IsWindow, Leaf
<1>8. CASE \E x \in Relations, ws \in Seq(leaves.windows) : r = Window(x, ws)
  BY <1>8 DEF Window, IsWindow, IsFrom, IsAggregate, Leaf
<1>9. CASE \E x \in Relations, y \in Relations, on \in Seq(JoinTests(Expressions)), type \in JoinTypes : r = Join(x, y, on, type)
  BY <1>9 DEF Join, IsJoin, IsFrom, IsAggregate, IsWindow, Leaf
<1>10. CASE \E rs \in Seq(Relations) \ {<<>>} : r = Union(rs)
  BY <1>10 DEF Union, IsUnion, IsFrom, IsAggregate, IsWindow, Leaf
<1> QED
  BY <1>1, <1>2, <1>3, <1>4, <1>5, <1>6, <1>7, <1>8, <1>9, <1>10 DEF RelationsOf

\* Relations that differ in their inputs at most
Alike(r, s) ==
    /\ s.op = r.op
    /\ r.op = "From" => s.collection = r.collection /\ s.columns = r.columns
    /\ r.op = "Filter" => s.predicate = r.predicate
    /\ r.op \in {"Sort", "Project", "Window"} => s.exprs = r.exprs
    /\ r.op = "Paginate" => s.fetch = r.fetch /\ s.skip = r.skip
    /\ r.op = "Aggregate" => s.group_by = r.group_by /\ s.aggregates = r.aggregates
    /\ r.op = "Join" => s.on = r.on /\ s.type = r.type

\* How many inputs there are
Arity(r) == CASE r.op = "From" -> 0 [] r.op = "Join" -> 2 [] r.op = "Union" -> Len(r.relations) [] OTHER -> 1

WellMade(r) ==
    /\ Inputs(r) \in Seq(Relations)
    /\ Len(Inputs(r)) = Arity(r)
    /\ r.op \notin {"From", "Join", "Union"} => Inputs(r) = <<r.input>>
    /\ r.op = "Join" => Inputs(r) = <<r.left, r.right>>
    /\ r.op = "Union" => Inputs(r) = r.relations
    /\ WithInputs(r, Inputs(r)) = r

\* A relation with one input has it as its only one.
LEMMA OneInput ==
    ASSUME NEW r, NEW x \in Relations, r.op \notin {"From", "Join", "Union"}, r.input = x,
           Inputs(r) = <<x>>, WithInputs(r, <<x>>) = r
    PROVE  WellMade(r)
<1>1. Arity(r) = 1
  BY DEF Arity
<1>2. <<x>> \in Seq(Relations) /\ Len(<<x>>) = 1
  OBVIOUS
<1> QED
  BY <1>1, <1>2 DEF WellMade

\* The inputs of a relation are relations, and lower than it.
LEMMA InputsAre ==
    ASSUME NEW leaves, NEW rank, NEW height, FiniteTrees(leaves, rank, height), NEW r \in Relations
    PROVE  /\ WellMade(r)
           /\ \A i \in DOMAIN Inputs(r) : Inputs(r)[i] \in Relations /\ height[Inputs(r)[i]] < height[r]
<1>1. ASSUME IsFrom(r) PROVE WellMade(r)
  <2> DEFINE c == r.collection
             cols == r.columns
  <2>1. r = From(c, cols)
    BY <1>1 DEF IsFrom
  <2> HIDE DEF c, cols
  <2>2. r.op = "From" /\ Inputs(r) = <<>> /\ WithInputs(r, <<>>) = r
    BY <2>1, OfFrom
  <2>3. Arity(r) = 0 /\ <<>> \in Seq(Relations) /\ Len(<<>>) = 0
    BY <2>2 DEF Arity
  <2> QED
    BY <2>2, <2>3 DEF WellMade
<1>2. ASSUME IsFilter(r) PROVE WellMade(r)
  <2> DEFINE x == r.input
             p == r.predicate
  <2>1. r = Filter(x, p)
    BY <1>2 DEF IsFilter
  <2>2. x \in Relations
    BY <1>2 DEF IsFilter
  <2> HIDE DEF x, p
  <2>3. r.op = "Filter" /\ r.input = x /\ Inputs(r) = <<x>>
    BY <2>1, OfFilter
  <2>4. WithInputs(r, <<x>>) = Filter(<<x>>[1], p)
    BY <2>1, OfFilter
  <2>5. <<x>>[1] = x
    OBVIOUS
  <2> QED
    BY <2>1, <2>2, <2>3, <2>4, <2>5, OneInput
<1>3. ASSUME IsSort(r) PROVE WellMade(r)
  <2> DEFINE x == r.input
             es == r.exprs
  <2>1. r = Sort(x, es)
    BY <1>3 DEF IsSort
  <2>2. x \in Relations
    BY <1>3 DEF IsSort
  <2> HIDE DEF x, es
  <2>3. r.op = "Sort" /\ r.input = x /\ Inputs(r) = <<x>>
    BY <2>1, OfSort
  <2>4. WithInputs(r, <<x>>) = Sort(<<x>>[1], es)
    BY <2>1, OfSort
  <2>5. <<x>>[1] = x
    OBVIOUS
  <2> QED
    BY <2>1, <2>2, <2>3, <2>4, <2>5, OneInput
<1>4. ASSUME IsPaginate(r) PROVE WellMade(r)
  <2> DEFINE x == r.input
             n == r.fetch
             m == r.skip
  <2>1. r = Paginate(x, n, m)
    BY <1>4 DEF IsPaginate
  <2>2. x \in Relations
    BY <1>4 DEF IsPaginate
  <2> HIDE DEF x, n, m
  <2>3. r.op = "Paginate" /\ r.input = x /\ Inputs(r) = <<x>>
    BY <2>1, OfPaginate
  <2>4. WithInputs(r, <<x>>) = Paginate(<<x>>[1], n, m)
    BY <2>1, OfPaginate
  <2>5. <<x>>[1] = x
    OBVIOUS
  <2> QED
    BY <2>1, <2>2, <2>3, <2>4, <2>5, OneInput
<1>5. ASSUME IsProject(r) PROVE WellMade(r)
  <2> DEFINE x == r.input
             es == r.exprs
  <2>1. r = Project(x, es)
    BY <1>5 DEF IsProject
  <2>2. x \in Relations
    BY <1>5 DEF IsProject
  <2> HIDE DEF x, es
  <2>3. r.op = "Project" /\ r.input = x /\ Inputs(r) = <<x>>
    BY <2>1, OfProject
  <2>4. WithInputs(r, <<x>>) = Project(<<x>>[1], es)
    BY <2>1, OfProject
  <2>5. <<x>>[1] = x
    OBVIOUS
  <2> QED
    BY <2>1, <2>2, <2>3, <2>4, <2>5, OneInput
<1>6. ASSUME IsAggregate(r) PROVE WellMade(r)
  <2> DEFINE x == r.input
             ks == r.group_by
             fs == r.aggregates
  <2>1. r = Aggregate(x, ks, fs)
    BY <1>6 DEF IsAggregate
  <2>2. x \in Relations
    BY <1>6 DEF IsAggregate
  <2> HIDE DEF x, ks, fs
  <2>3. r.op = "Aggregate" /\ r.input = x /\ Inputs(r) = <<x>>
    BY <2>1, OfAggregate
  <2>4. WithInputs(r, <<x>>) = Aggregate(<<x>>[1], ks, fs)
    BY <2>1, OfAggregate
  <2>5. <<x>>[1] = x
    OBVIOUS
  <2> QED
    BY <2>1, <2>2, <2>3, <2>4, <2>5, OneInput
<1>7. ASSUME IsWindow(r) PROVE WellMade(r)
  <2> DEFINE x == r.input
             es == r.exprs
  <2>1. r = Window(x, es)
    BY <1>7 DEF IsWindow
  <2>2. x \in Relations
    BY <1>7 DEF IsWindow
  <2> HIDE DEF x, es
  <2>3. r.op = "Window" /\ r.input = x /\ Inputs(r) = <<x>>
    BY <2>1, OfWindow
  <2>4. WithInputs(r, <<x>>) = Window(<<x>>[1], es)
    BY <2>1, OfWindow
  <2>5. <<x>>[1] = x
    OBVIOUS
  <2> QED
    BY <2>1, <2>2, <2>3, <2>4, <2>5, OneInput
<1>8. ASSUME IsJoin(r) PROVE WellMade(r)
  <2> DEFINE x == r.left
             y == r.right
             on == r.on
             type == r.type
  <2>1. r = Join(x, y, on, type)
    BY <1>8 DEF IsJoin
  <2>2. x \in Relations /\ y \in Relations
    BY <1>8 DEF IsJoin
  <2> HIDE DEF x, y, on, type
  <2>3. r.op = "Join" /\ r.left = x /\ r.right = y /\ Inputs(r) = <<x, y>>
    BY <2>1, OfJoin
  <2>4. WithInputs(r, <<x, y>>) = Join(<<x, y>>[1], <<x, y>>[2], on, type)
    BY <2>1, OfJoin
  <2>5. Arity(r) = 2 /\ <<x, y>> \in Seq(Relations) /\ Len(<<x, y>>) = 2
    BY <2>2, <2>3 DEF Arity
  <2> QED
    BY <2>1, <2>3, <2>4, <2>5 DEF WellMade
<1>9. ASSUME IsUnion(r) PROVE WellMade(r)
  <2> DEFINE rs == r.relations
  <2>1. r = Union(rs)
    BY <1>9 DEF IsUnion
  <2>2. rs \in Seq(Relations)
    BY <1>9 DEF IsUnion
  <2> HIDE DEF rs
  <2>3. r.op = "Union" /\ r.relations = rs /\ Inputs(r) = rs /\ WithInputs(r, rs) = r
    BY <2>1, OfUnion
  <2> QED
    BY <2>2, <2>3 DEF WellMade, Arity
<1>10. WellMade(r)
  BY <1>1, <1>2, <1>3, <1>4, <1>5, <1>6, <1>7, <1>8, <1>9, Shapes
<1>11. ASSUME NEW i \in DOMAIN Inputs(r) PROVE Inputs(r)[i] \in Relations /\ height[Inputs(r)[i]] < height[r]
  <2>1. Inputs(r)[i] \in Relations
    BY <1>10 DEF WellMade
  <2>2. height[r] \in Nat /\ height[r] <= height[r] /\ height[Inputs(r)[i]] \in Nat
    BY <2>1 DEF FiniteTrees
  <2>3. \A n \in Nat : height[r] <= n => height[Inputs(r)[i]] + Cost(r) <= n
    BY DEF FiniteTrees
  <2>4. Cost(r) \in {1, 2}
    BY DEF Cost
  <2> QED
    BY <2>1, <2>2, <2>3, <2>4
<1> QED
  BY <1>10, <1>11

\* What is made of relations is one.
LEMMA Closed ==
    ASSUME NEW leaves, NEW rank, NEW height, FiniteTrees(leaves, rank, height)
    PROVE  /\ \A c \in leaves.collections, cols \in Seq(leaves.names) : From(c, cols) \in Relations
           /\ \A x \in Relations, p \in Expressions : Filter(x, p) \in Relations
           /\ \A x \in Relations, es \in Seq(SortKeys(Expressions)) : Sort(x, es) \in Relations
           /\ \A x \in Relations, n \in Fetches, m \in Nat : Paginate(x, n, m) \in Relations
           /\ \A x \in Relations, es \in Seq(Expressions) : Project(x, es) \in Relations
           /\ \A x \in Relations, ks \in Seq(Expressions), fs \in Seq(leaves.aggregates) : Aggregate(x, ks, fs) \in Relations
           /\ \A x \in Relations, es \in Seq(leaves.windows) : Window(x, es) \in Relations
           /\ \A x \in Relations, y \in Relations, on \in Seq(JoinTests(Expressions)), type \in JoinTypes : Join(x, y, on, type) \in Relations
           /\ \A rs \in Seq(Relations) \ {<<>>} : Union(rs) \in Relations
<1>0. Relations = RelationsOf(Relations, Expressions, leaves)
  BY DEF FiniteTrees
<1>1. \A c \in leaves.collections, cols \in Seq(leaves.names) : From(c, cols) \in Relations
  BY <1>0 DEF RelationsOf
<1>2. \A x \in Relations, p \in Expressions : Filter(x, p) \in Relations
  BY <1>0 DEF RelationsOf
<1>3. \A x \in Relations, es \in Seq(SortKeys(Expressions)) : Sort(x, es) \in Relations
  BY <1>0 DEF RelationsOf
<1>4. \A x \in Relations, n \in Fetches, m \in Nat : Paginate(x, n, m) \in Relations
  BY <1>0 DEF RelationsOf
<1>5. \A x \in Relations, es \in Seq(Expressions) : Project(x, es) \in Relations
  BY <1>0 DEF RelationsOf
<1>6. \A x \in Relations, ks \in Seq(Expressions), fs \in Seq(leaves.aggregates) : Aggregate(x, ks, fs) \in Relations
  BY <1>0 DEF RelationsOf
<1>7. \A x \in Relations, es \in Seq(leaves.windows) : Window(x, es) \in Relations
  BY <1>0 DEF RelationsOf
<1>8. \A x \in Relations, y \in Relations, on \in Seq(JoinTests(Expressions)), type \in JoinTypes : Join(x, y, on, type) \in Relations
  BY <1>0 DEF RelationsOf
<1>9. \A rs \in Seq(Relations) \ {<<>>} : Union(rs) \in Relations
  BY <1>0 DEF RelationsOf
<1> QED
  BY <1>1, <1>2, <1>3, <1>4, <1>5, <1>6, <1>7, <1>8, <1>9

\* With other inputs, as many, it is a relation that is otherwise the same.
LEMMA Rebuilt ==
    ASSUME NEW leaves, NEW rank, NEW height, FiniteTrees(leaves, rank, height), NEW r \in Relations,
           NEW ins \in Seq(Relations), Len(ins) = Len(Inputs(r)), NEW s, s = WithInputs(r, ins)
    PROVE  s \in Relations /\ Alike(r, s) /\ Inputs(s) = ins
<1> DEFINE Goal == s \in Relations /\ Alike(r, s) /\ Inputs(s) = ins
<1>0. Len(ins) = Arity(r)
  BY InputsAre DEF WellMade
<1>1. ASSUME IsFrom(r) PROVE Goal
  <2> DEFINE c == r.collection
             cols == r.columns
  <2>1. r = From(c, cols) /\ r.op = "From"
    BY <1>1 DEF IsFrom
  <2>2. c \in leaves.collections /\ cols \in Seq(leaves.names)
    BY <1>1, Shapes DEF Leaf, IsFrom
  <2> HIDE DEF c, cols
  <2>3. s = From(c, cols)
    BY <2>1, OfFrom
  <2>4. Len(ins) = 0
    BY <1>0, <2>1 DEF Arity
  <2>5. ins = <<>>
    BY <2>4
  <2>6. s \in Relations
    BY <2>2, <2>3, Closed
  <2>7. Inputs(s) = <<>>
    BY <2>3, OfFrom
  <2>8. s.op = "From" /\ s.collection = c /\ r.collection = c /\ s.columns = cols /\ r.columns = cols
    BY <2>1, <2>3, OfFrom
  <2>9. Alike(r, s)
    BY <2>1, <2>8 DEF Alike
  <2> QED
    BY <2>5, <2>6, <2>7, <2>9
<1>2. ASSUME IsFilter(r) PROVE Goal
  <2> DEFINE x == r.input
             p == r.predicate
  <2>1. r = Filter(x, p) /\ r.op = "Filter"
    BY <1>2 DEF IsFilter
  <2>2. p \in Expressions
    BY <1>2 DEF IsFilter
  <2> HIDE DEF x, p
  <2>3. s = Filter(ins[1], p)
    BY <2>1, OfFilter
  <2>4. Len(ins) = 1
    BY <1>0, <2>1 DEF Arity
  <2>5. ins[1] \in Relations /\ ins = <<ins[1]>>
    BY <2>4
  <2>6. s \in Relations
    BY <2>2, <2>3, <2>5, Closed
  <2>7. Inputs(s) = <<ins[1]>>
    BY <2>3, OfFilter
  <2>8. s.op = "Filter" /\ s.predicate = p /\ r.predicate = p
    BY <2>1, <2>3, OfFilter
  <2>9. Alike(r, s)
    BY <2>1, <2>8 DEF Alike
  <2> QED
    BY <2>5, <2>6, <2>7, <2>9
<1>3. ASSUME IsSort(r) PROVE Goal
  <2> DEFINE x == r.input
             es == r.exprs
  <2>1. r = Sort(x, es) /\ r.op = "Sort"
    BY <1>3 DEF IsSort
  <2>2. es \in Seq(SortKeys(Expressions))
    BY <1>3 DEF IsSort
  <2> HIDE DEF x, es
  <2>3. s = Sort(ins[1], es)
    BY <2>1, OfSort
  <2>4. Len(ins) = 1
    BY <1>0, <2>1 DEF Arity
  <2>5. ins[1] \in Relations /\ ins = <<ins[1]>>
    BY <2>4
  <2>6. s \in Relations
    BY <2>2, <2>3, <2>5, Closed
  <2>7. Inputs(s) = <<ins[1]>>
    BY <2>3, OfSort
  <2>8. s.op = "Sort" /\ s.exprs = es /\ r.exprs = es
    BY <2>1, <2>3, OfSort
  <2>9. Alike(r, s)
    BY <2>1, <2>8 DEF Alike
  <2> QED
    BY <2>5, <2>6, <2>7, <2>9
<1>4. ASSUME IsPaginate(r) PROVE Goal
  <2> DEFINE x == r.input
             n == r.fetch
             m == r.skip
  <2>1. r = Paginate(x, n, m) /\ r.op = "Paginate"
    BY <1>4 DEF IsPaginate
  <2>2. n \in Fetches /\ m \in Nat
    BY <1>4 DEF IsPaginate
  <2> HIDE DEF x, n, m
  <2>3. s = Paginate(ins[1], n, m)
    BY <2>1, OfPaginate
  <2>4. Len(ins) = 1
    BY <1>0, <2>1 DEF Arity
  <2>5. ins[1] \in Relations /\ ins = <<ins[1]>>
    BY <2>4
  <2>6. s \in Relations
    BY <2>2, <2>3, <2>5, Closed
  <2>7. Inputs(s) = <<ins[1]>>
    BY <2>3, OfPaginate
  <2>8. s.op = "Paginate" /\ s.fetch = n /\ r.fetch = n /\ s.skip = m /\ r.skip = m
    BY <2>1, <2>3, OfPaginate
  <2>9. Alike(r, s)
    BY <2>1, <2>8 DEF Alike
  <2> QED
    BY <2>5, <2>6, <2>7, <2>9
<1>5. ASSUME IsProject(r) PROVE Goal
  <2> DEFINE x == r.input
             es == r.exprs
  <2>1. r = Project(x, es) /\ r.op = "Project"
    BY <1>5 DEF IsProject
  <2>2. es \in Seq(Expressions)
    BY <1>5 DEF IsProject
  <2> HIDE DEF x, es
  <2>3. s = Project(ins[1], es)
    BY <2>1, OfProject
  <2>4. Len(ins) = 1
    BY <1>0, <2>1 DEF Arity
  <2>5. ins[1] \in Relations /\ ins = <<ins[1]>>
    BY <2>4
  <2>6. s \in Relations
    BY <2>2, <2>3, <2>5, Closed
  <2>7. Inputs(s) = <<ins[1]>>
    BY <2>3, OfProject
  <2>8. s.op = "Project" /\ s.exprs = es /\ r.exprs = es
    BY <2>1, <2>3, OfProject
  <2>9. Alike(r, s)
    BY <2>1, <2>8 DEF Alike
  <2> QED
    BY <2>5, <2>6, <2>7, <2>9
<1>6. ASSUME IsAggregate(r) PROVE Goal
  <2> DEFINE x == r.input
             ks == r.group_by
             fs == r.aggregates
  <2>1. r = Aggregate(x, ks, fs) /\ r.op = "Aggregate"
    BY <1>6 DEF IsAggregate
  <2>2. ks \in Seq(Expressions) /\ fs \in Seq(leaves.aggregates)
    BY <1>6, Shapes DEF Leaf, IsAggregate
  <2> HIDE DEF x, ks, fs
  <2>3. s = Aggregate(ins[1], ks, fs)
    BY <2>1, OfAggregate
  <2>4. Len(ins) = 1
    BY <1>0, <2>1 DEF Arity
  <2>5. ins[1] \in Relations /\ ins = <<ins[1]>>
    BY <2>4
  <2>6. s \in Relations
    BY <2>2, <2>3, <2>5, Closed
  <2>7. Inputs(s) = <<ins[1]>>
    BY <2>3, OfAggregate
  <2>8. s.op = "Aggregate" /\ s.group_by = ks /\ r.group_by = ks /\ s.aggregates = fs /\ r.aggregates = fs
    BY <2>1, <2>3, OfAggregate
  <2>9. Alike(r, s)
    BY <2>1, <2>8 DEF Alike
  <2> QED
    BY <2>5, <2>6, <2>7, <2>9
<1>7. ASSUME IsWindow(r) PROVE Goal
  <2> DEFINE x == r.input
             es == r.exprs
  <2>1. r = Window(x, es) /\ r.op = "Window"
    BY <1>7 DEF IsWindow
  <2>2. es \in Seq(leaves.windows)
    BY <1>7, Shapes DEF Leaf, IsWindow
  <2> HIDE DEF x, es
  <2>3. s = Window(ins[1], es)
    BY <2>1, OfWindow
  <2>4. Len(ins) = 1
    BY <1>0, <2>1 DEF Arity
  <2>5. ins[1] \in Relations /\ ins = <<ins[1]>>
    BY <2>4
  <2>6. s \in Relations
    BY <2>2, <2>3, <2>5, Closed
  <2>7. Inputs(s) = <<ins[1]>>
    BY <2>3, OfWindow
  <2>8. s.op = "Window" /\ s.exprs = es /\ r.exprs = es
    BY <2>1, <2>3, OfWindow
  <2>9. Alike(r, s)
    BY <2>1, <2>8 DEF Alike
  <2> QED
    BY <2>5, <2>6, <2>7, <2>9
<1>8. ASSUME IsJoin(r) PROVE Goal
  <2> DEFINE x == r.left
             y == r.right
             on == r.on
             type == r.type
  <2>1. r = Join(x, y, on, type) /\ r.op = "Join"
    BY <1>8 DEF IsJoin
  <2>2. on \in Seq(JoinTests(Expressions)) /\ type \in JoinTypes
    BY <1>8 DEF IsJoin
  <2> HIDE DEF x, y, on, type
  <2>3. s = Join(ins[1], ins[2], on, type)
    BY <2>1, OfJoin
  <2>4. Len(ins) = 2
    BY <1>0, <2>1 DEF Arity
  <2>5. ins[1] \in Relations /\ ins[2] \in Relations /\ ins = <<ins[1], ins[2]>>
    <3>1. ins[1] \in Relations /\ ins[2] \in Relations
      BY <2>4
    <3> DEFINE pair == <<ins[1], ins[2]>>
    <3>2. pair \in Seq(Relations) /\ Len(pair) = 2 /\ pair[1] = ins[1] /\ pair[2] = ins[2]
      BY <3>1
    <3> HIDE DEF pair
    <3>3. \A i \in 1..2 : ins[i] = pair[i]
      BY <3>2
    <3>4. ins = pair
      BY <2>4, <3>2, <3>3, SeqEqual
    <3> QED
      BY <3>1, <3>4 DEF pair
  <2>6. s \in Relations
    BY <2>2, <2>3, <2>5, Closed
  <2>7. Inputs(s) = <<ins[1], ins[2]>>
    BY <2>3, OfJoin
  <2>8. s.op = "Join" /\ s.on = on /\ r.on = on /\ s.type = type /\ r.type = type
    BY <2>1, <2>3, OfJoin
  <2>9. Alike(r, s)
    BY <2>1, <2>8 DEF Alike
  <2> QED
    BY <2>5, <2>6, <2>7, <2>9
<1>9. ASSUME IsUnion(r) PROVE Goal
  <2> DEFINE rs == r.relations
  <2>1. r = Union(rs) /\ r.op = "Union"
    BY <1>9 DEF IsUnion
  <2>2. TRUE
    OBVIOUS
  <2> HIDE DEF rs
  <2>3. s = Union(ins)
    BY <2>1, OfUnion
  <2>4. Len(ins) = Len(rs)
    BY <1>0, <2>1, OfUnion DEF Arity
  <2>5. rs \in Seq(Relations) /\ rs # <<>>
    BY <1>9 DEF IsUnion, rs
  <2>6. s \in Relations
    <3>1. ins # <<>>
      BY <2>4, <2>5
    <3> QED
      BY <3>1, <2>3, Closed
  <2>7. Inputs(s) = ins
    BY <2>3, OfUnion
  <2>8. s.op = "Union"
    BY <2>1, <2>3, OfUnion
  <2>9. Alike(r, s)
    BY <2>1, <2>8 DEF Alike
  <2> QED
    BY <2>5, <2>6, <2>7, <2>9
<1> HIDE DEF Goal
<1>10. Goal
  BY <1>1, <1>2, <1>3, <1>4, <1>5, <1>6, <1>7, <1>8, <1>9, Shapes
<1> QED
  BY <1>10 DEF Goal

------------------------------------------------------------------------------
\* What the recursive definitions say of relations.

\* What has other inputs, none of them higher, is not higher.
LEMMA NoHigher ==
    ASSUME NEW leaves, NEW rank, NEW height, FiniteTrees(leaves, rank, height), NEW r \in Relations,
           NEW s \in Relations, Alike(r, s), DOMAIN Inputs(s) \subseteq DOMAIN Inputs(r),
           \A i \in DOMAIN Inputs(s) : height[Inputs(s)[i]] <= height[Inputs(r)[i]]
    PROVE  height[s] <= height[r]
<1>1. height[r] \in Nat /\ height[r] <= height[r]
  BY DEF FiniteTrees
<1>2. \A i \in DOMAIN Inputs(r) : height[Inputs(r)[i]] + Cost(r) <= height[r]
  BY <1>1 DEF FiniteTrees
<1>3. Cost(s) = Cost(r) /\ Cost(r) \in {1, 2}
  BY DEF Alike, Cost, IsRightJoin
<1>4. ASSUME NEW i \in DOMAIN Inputs(s) PROVE height[Inputs(s)[i]] + Cost(s) <= height[r]
  <2>1. Inputs(s)[i] \in Relations /\ Inputs(r)[i] \in Relations
    BY <1>4, InputsAre
  <2>2. height[Inputs(s)[i]] \in Nat /\ height[Inputs(r)[i]] \in Nat
    BY <2>1 DEF FiniteTrees
  <2>3. height[Inputs(s)[i]] <= height[Inputs(r)[i]] /\ height[Inputs(r)[i]] + Cost(r) <= height[r]
    BY <1>2, <1>4
  <2> QED
    BY <1>1, <1>3, <2>2, <2>3
<1> QED
  BY <1>1, <1>4 DEF FiniteTrees

\* What is no right join is lower than any number that each of its inputs is lower than by one.
LEMMA HigherByOne ==
    ASSUME NEW leaves, NEW rank, NEW height, FiniteTrees(leaves, rank, height), NEW s \in Relations, ~IsRightJoin(s),
           NEW n \in Nat, \A i \in DOMAIN Inputs(s) : height[Inputs(s)[i]] < n
    PROVE  height[s] <= n
<1>1. Cost(s) = 1
  BY DEF Cost
<1>2. ASSUME NEW i \in DOMAIN Inputs(s) PROVE height[Inputs(s)[i]] + Cost(s) <= n
  <2>1. Inputs(s)[i] \in Relations
    BY InputsAre
  <2>2. height[Inputs(s)[i]] \in Nat
    BY <2>1 DEF FiniteTrees
  <2> QED
    BY <1>1, <1>2, <2>2
<1> QED
  BY <1>2 DEF FiniteTrees

\* What is defined by recursion over relations is defined for what is lower first.
LEMMA RelationsFounded ==
    ASSUME NEW leaves, NEW rank, NEW height, FiniteTrees(leaves, rank, height),
           NEW of \in {"subrelations", "width", "rows", "normal", "root", "early"}
    PROVE  Founded(of, Relations, height) /\ \A x : Parts(of, x) = Inputs(x)
<1>1. \A x : Parts(of, x) = Inputs(x)
  BY DEF Parts
<1>2. height \in [Relations -> Nat]
  BY DEF FiniteTrees
<1> QED
  BY <1>1, <1>2, InputsAre DEF Founded

\* The numbers of columns of the inputs, and what they are after the first pass
Widths(r)       == [i \in DOMAIN Inputs(r) |-> Width(Inputs(r)[i])]
NormalInputs(r) == [i \in DOMAIN Inputs(r) |-> NormalizeRightJoins(Inputs(r)[i])]

\* What the first pass makes of a relation, given what it makes of its inputs
LEMMA NormalIs ==
    ASSUME NEW leaves, NEW rank, NEW height, FiniteTrees(leaves, rank, height), NEW r \in Relations
    PROVE  NormalizeRightJoins(r) =
               IF IsRightJoin(r) THEN Swapped(r, NormalInputs(r)[1], NormalInputs(r)[2]) ELSE WithInputs(r, NormalInputs(r))
<1> DEFINE Body(f, x) == LET inputs == [i \in DOMAIN Inputs(x) |-> f[Inputs(x)[i]]]
                         IN  IF IsRightJoin(x) THEN Swapped(x, inputs[1], inputs[2]) ELSE WithInputs(x, inputs)
           normal == CHOOSE f : f = [x \in Relations |-> Body(f, x)]
<1>1. \A x : NormalizeRightJoins(x) = normal[x]
  BY DEF NormalizeRightJoins
<1>2. PICK f : Defines("normal", Null, Relations, f)
  BY RelationsFounded, Recursion
<1>3. \A x : Made("normal", Null, x, Given("normal", x, f)) = Body(f, x)
  BY RelationsFounded DEF Made, Given
<1>4. f = [x \in Relations |-> Body(f, x)]
  <2> HIDE DEF Body
  <2> QED
    BY <1>2, <1>3 DEF Defines
<1>5. normal = [x \in Relations |-> Body(normal, x)]
  <2> HIDE DEF Body
  <2> QED
    BY <1>4
<1> HIDE DEF normal
<1>6. normal[r] = Body(normal, r)
  <2> HIDE DEF Body
  <2> QED
    BY <1>5
<1>7. NormalInputs(r) = [i \in DOMAIN Inputs(r) |-> normal[Inputs(r)[i]]]
  BY <1>1 DEF NormalInputs
<1> QED
  BY <1>1, <1>6, <1>7

\* How many columns there are, by the operation
LEMMA WidthIs ==
    ASSUME NEW leaves, NEW rank, NEW height, FiniteTrees(leaves, rank, height), NEW r \in Relations
    PROVE  Width(r) = Made("width", Null, r, Widths(r))
<1> DEFINE Body(f, x) == CASE x.op = "From" -> Len(x.columns)
                           [] x.op = "Project" -> Len(x.exprs)
                           [] x.op = "Aggregate" -> Len(x.group_by) + Len(x.aggregates)
                           [] x.op = "Window" -> f[x.input] + Len(x.exprs)
                           [] x.op = "Join" -> IF x.type \in {"LeftSemi", "LeftAnti"} THEN f[x.left]
                                               ELSE IF x.type \in {"RightSemi", "RightAnti"} THEN f[x.right]
                                               ELSE f[x.left] + f[x.right]
                           [] OTHER -> f[Inputs(x)[1]]
           width == CHOOSE f : f = [x \in Relations |-> Body(f, x)]
<1>1. \A x : Width(x) = width[x]
  BY DEF Width
<1>2. PICK f : Defines("width", Null, Relations, f)
  BY RelationsFounded, Recursion
<1>3. ASSUME NEW x \in Relations, NEW g
      PROVE  Made("width", Null, x, Given("width", x, g)) = Body(g, x)
  <2> DEFINE v == Given("width", x, g)
  <2>1. v = [i \in DOMAIN Inputs(x) |-> g[Inputs(x)[i]]]
    BY RelationsFounded DEF Given
  <2>2. WellMade(x)
    BY InputsAre
  <2>3. x.op \notin {"From", "Union", "Join"} => v[1] = g[Inputs(x)[1]] /\ Inputs(x)[1] = x.input
    <3> SUFFICES ASSUME x.op \notin {"From", "Union", "Join"} PROVE v[1] = g[Inputs(x)[1]] /\ Inputs(x)[1] = x.input
      OBVIOUS
    <3>1. Inputs(x) = <<x.input>>
      BY <2>2 DEF WellMade
    <3> QED
      BY <2>1, <3>1
  <2>4. x.op = "Join" => v[1] = g[x.left] /\ v[2] = g[x.right]
    <3> SUFFICES ASSUME x.op = "Join" PROVE v[1] = g[x.left] /\ v[2] = g[x.right]
      OBVIOUS
    <3>1. Inputs(x) = <<x.left, x.right>>
      BY <2>2 DEF WellMade
    <3> QED
      BY <2>1, <3>1
  <2>5. x.op = "Union" => v[1] = g[Inputs(x)[1]]
    <3> SUFFICES ASSUME x.op = "Union" PROVE v[1] = g[Inputs(x)[1]]
      OBVIOUS
    <3>1. IsUnion(x)
      BY Shapes DEF IsFrom, IsFilter, IsSort, IsPaginate, IsProject, IsAggregate, IsWindow, IsJoin
    <3>2. Inputs(x) \in Seq(Relations) /\ Inputs(x) # <<>>
      BY <2>2, <3>1 DEF IsUnion, WellMade
    <3>3. 1 \in DOMAIN Inputs(x)
      BY <3>2
    <3> QED
      BY <2>1, <3>3
  <2> HIDE DEF v
  <2>6. Made("width", Null, x, v) = Body(g, x)
    BY <2>3, <2>4, <2>5 DEF Made
  <2> QED
    BY <2>6 DEF v
<1>4. f = [x \in Relations |-> Body(f, x)]
  <2> HIDE DEF Body
  <2> QED
    BY <1>2, <1>3 DEF Defines
<1>5. width = [x \in Relations |-> Body(width, x)]
  <2> HIDE DEF Body
  <2> QED
    BY <1>4
<1> HIDE DEF width
<1>6. width[r] = Body(width, r)
  <2> HIDE DEF Body
  <2> QED
    BY <1>5
<1>7. Widths(r) = Given("width", r, width)
  BY <1>1, RelationsFounded DEF Widths, Given
<1> QED
  BY <1>1, <1>3, <1>6, <1>7

\* What holds of a relation if it holds of all lower ones holds of all.
LEMMA RelationInduction ==
    ASSUME NEW leaves, NEW rank, NEW height, FiniteTrees(leaves, rank, height), NEW S,
           \A r \in Relations : (\A x \in Relations : height[x] < height[r] => x \in S) => r \in S
    PROVE  \A r \in Relations : r \in S
<1>1. height \in [Relations -> Nat]
  BY DEF FiniteTrees
<1> QED
  BY <1>1, SizeInduction

\* The forms that are told apart by op
LEMMA ByOp ==
    ASSUME NEW leaves, NEW rank, NEW height, FiniteTrees(leaves, rank, height), NEW r \in Relations
    PROVE  /\ r.op = "From" => IsFrom(r)
           /\ r.op = "Filter" => IsFilter(r)
           /\ r.op = "Sort" => IsSort(r)
           /\ r.op = "Paginate" => IsPaginate(r)
           /\ r.op = "Project" => IsProject(r)
           /\ r.op = "Aggregate" => IsAggregate(r)
           /\ r.op = "Window" => IsWindow(r)
           /\ r.op = "Join" => IsJoin(r)
           /\ r.op = "Union" => IsUnion(r)
           /\ r.op \in {"From", "Filter", "Sort", "Paginate", "Project", "Aggregate", "Window", "Join", "Union"}
<1>1. \/ IsFrom(r) \/ IsFilter(r) \/ IsSort(r) \/ IsPaginate(r) \/ IsProject(r)
      \/ IsAggregate(r) \/ IsWindow(r) \/ IsJoin(r) \/ IsUnion(r)
  BY Shapes
<1>2. /\ IsFrom(r) => r.op = "From"
      /\ IsFilter(r) => r.op = "Filter"
      /\ IsSort(r) => r.op = "Sort"
      /\ IsPaginate(r) => r.op = "Paginate"
      /\ IsProject(r) => r.op = "Project"
      /\ IsAggregate(r) => r.op = "Aggregate"
      /\ IsWindow(r) => r.op = "Window"
      /\ IsJoin(r) => r.op = "Join"
      /\ IsUnion(r) => r.op = "Union"
  BY DEF IsFrom, IsFilter, IsSort, IsPaginate, IsProject, IsAggregate, IsWindow, IsJoin, IsUnion
<1> QED
  BY <1>1, <1>2

\* There are as many columns as some number.
LEMMA WidthIsNat ==
    ASSUME NEW leaves, NEW rank, NEW height, FiniteTrees(leaves, rank, height)
    PROVE  \A r \in Relations : Width(r) \in Nat
<1> DEFINE S == {r \in Relations : Width(r) \in Nat}
<1>1. ASSUME NEW r \in Relations, \A x \in Relations : height[x] < height[r] => x \in S
      PROVE  r \in S
  <2> DEFINE v == Widths(r)
  <2>0. WellMade(r) /\ Leaf(r, leaves)
    BY InputsAre, Shapes
  <2>1. \A i \in DOMAIN Inputs(r) : v[i] \in Nat
    BY <1>1, InputsAre DEF Widths
  <2>2. r.op \notin {"From", "Union"} => v[1] \in Nat
    <3> SUFFICES ASSUME r.op \notin {"From", "Union"} PROVE 1 \in DOMAIN Inputs(r)
      BY <2>1
    <3>1. Inputs(r) = <<r.input>> \/ Inputs(r) = <<r.left, r.right>>
      BY <2>0 DEF WellMade
    <3> QED
      BY <3>1
  <2>3. r.op = "Join" => v[2] \in Nat
    <3> SUFFICES ASSUME r.op = "Join" PROVE 2 \in DOMAIN Inputs(r)
      BY <2>1
    <3>1. Inputs(r) = <<r.left, r.right>>
      BY <2>0 DEF WellMade
    <3> QED
      BY <3>1
  <2>4. r.op = "Union" => v[1] \in Nat
    <3> SUFFICES ASSUME r.op = "Union" PROVE 1 \in DOMAIN Inputs(r)
      BY <2>1
    <3>1. Inputs(r) \in Seq(Relations) /\ Inputs(r) # <<>>
      BY <2>0, ByOp DEF IsUnion, WellMade
    <3> QED
      BY <3>1
  <2>5. /\ r.op = "From" => Len(r.columns) \in Nat
        /\ r.op = "Project" => Len(r.exprs) \in Nat
        /\ r.op = "Aggregate" => Len(r.group_by) + Len(r.aggregates) \in Nat
        /\ r.op = "Window" => Len(r.exprs) \in Nat
    <3>1. r.op = "From" => r.columns \in Seq(leaves.names)
      BY <2>0, ByOp DEF Leaf
    <3>2. r.op = "Project" => r.exprs \in Seq(Expressions)
      BY ByOp DEF IsProject
    <3>3. r.op = "Aggregate" => r.group_by \in Seq(Expressions) /\ r.aggregates \in Seq(leaves.aggregates)
      BY <2>0, ByOp DEF IsAggregate, Leaf
    <3>4. r.op = "Window" => r.exprs \in Seq(leaves.windows)
      BY <2>0, ByOp DEF Leaf
    <3>5. r.op = "Aggregate" => Len(r.group_by) \in Nat /\ Len(r.aggregates) \in Nat
      BY <3>3
    <3>6. \A m, n \in Nat : m + n \in Nat
      OBVIOUS
    <3>7. r.op = "Aggregate" => Len(r.group_by) + Len(r.aggregates) \in Nat
      BY <3>5, <3>6
    <3>8. r.op = "From" => Len(r.columns) \in Nat
      BY <3>1
    <3>9. r.op = "Project" => Len(r.exprs) \in Nat
      BY <3>2
    <3>10. r.op = "Window" => Len(r.exprs) \in Nat
      BY <3>4
    <3> QED
      BY <3>7, <3>8, <3>9, <3>10
  <2>6. Width(r) = Made("width", Null, r, v)
    BY WidthIs
  <2> HIDE DEF v
  <2>7. Made("width", Null, r, v) \in Nat
    <3>1. CASE r.op = "From"
      BY <2>5, <3>1 DEF Made
    <3>2. CASE r.op = "Project"
      BY <2>5, <3>2 DEF Made
    <3>3. CASE r.op = "Aggregate"
      BY <2>5, <3>3 DEF Made
    <3>4. CASE r.op = "Window"
      <4>1. Made("width", Null, r, v) = v[1] + Len(r.exprs)
        BY <3>4 DEF Made
      <4> QED
        BY <2>2, <2>5, <3>4, <4>1
    <3>5. CASE r.op = "Join"
      <4>1. Made("width", Null, r, v) \in {v[1], v[2], v[1] + v[2]}
        BY <3>5 DEF Made
      <4> QED
        BY <2>2, <2>3, <3>5, <4>1
    <3>6. CASE r.op \in {"Filter", "Sort", "Paginate", "Union"}
      <4>1. Made("width", Null, r, v) = v[1]
        BY <3>6 DEF Made
      <4> QED
        BY <2>2, <2>4, <3>6, <4>1
    <3> QED
      BY <3>1, <3>2, <3>3, <3>4, <3>5, <3>6, ByOp
  <2> QED
    BY <2>6, <2>7
<1> HIDE DEF S
<1>2. \A r \in Relations : r \in S
  BY <1>1, RelationInduction
<1> QED
  BY <1>2 DEF S

------------------------------------------------------------------------------
\* The first pass.

\* An expression of a column is one.
LEMMA ColumnIsExpression ==
    ASSUME NEW leaves, NEW rank, NEW height, FiniteTrees(leaves, rank, height), NEW i \in Nat
    PROVE  Column(i) \in Expressions
BY DEF FiniteTrees, ExpressionsOf

\* The columns of the right side are behind those of the left again.
LEMMA ReorderedIs ==
    ASSUME NEW leaves, NEW rank, NEW height, FiniteTrees(leaves, rank, height), NEW m \in Nat, NEW n \in Nat
    PROVE  /\ ReorderColumns(m, n) \in Seq(Expressions) /\ Len(ReorderColumns(m, n)) = m + n
           /\ \A i \in 1..m : ReorderColumns(m, n)[i] = Column(n + i - 1)
           /\ \A i \in 1..n : ReorderColumns(m, n)[m + i] = Column(i - 1)
<1> DEFINE a == [i \in 1..m |-> Column(n + i - 1)]
           b == [i \in 1..n |-> Column(i - 1)]
<1>1. \A i \in 1..m : Column(n + i - 1) \in Expressions
  BY ColumnIsExpression
<1>2. \A i \in 1..n : Column(i - 1) \in Expressions
  BY ColumnIsExpression
<1>3. a \in Seq(Expressions) /\ Len(a) = m /\ \A i \in 1..m : a[i] = Column(n + i - 1)
  BY <1>1
<1>4. b \in Seq(Expressions) /\ Len(b) = n /\ \A i \in 1..n : b[i] = Column(i - 1)
  BY <1>2
<1>5. ReorderColumns(m, n) = a \o b
  BY DEF ReorderColumns
<1> HIDE DEF a, b
<1>6. a \o b \in Seq(Expressions) /\ Len(a \o b) = m + n
  BY <1>3, <1>4, ConcatProperties
<1>7. /\ \A i \in 1..m : (a \o b)[i] = a[i]
      /\ \A i \in 1..n : (a \o b)[m + i] = b[i]
  BY <1>3, <1>4
<1> QED
  BY <1>3, <1>4, <1>5, <1>6, <1>7

\* The two sides of each condition change places.
LEMMA SwapJoinOnIs ==
    ASSUME NEW on \in Seq(JoinTests(Expressions))
    PROVE  /\ SwapJoinOn(on) \in Seq(JoinTests(Expressions)) /\ DOMAIN SwapJoinOn(on) = DOMAIN on
           /\ \A i \in DOMAIN on : SwapJoinOn(on)[i].left = on[i].right /\ SwapJoinOn(on)[i].right = on[i].left
<1>1. \A i \in 1..Len(on) : on[i].left \in Expressions /\ on[i].right \in Expressions
  <2>1. \A i \in 1..Len(on) : on[i] \in JoinTests(Expressions)
    OBVIOUS
  <2> QED
    BY <2>1 DEF JoinTests
<1>2. \A i \in 1..Len(on) : [left |-> on[i].right, right |-> on[i].left] \in JoinTests(Expressions)
  BY <1>1 DEF JoinTests
<1>3. SwapJoinOn(on) = [i \in 1..Len(on) |-> [left |-> on[i].right, right |-> on[i].left]] /\ Len(on) \in Nat
  BY DEF SwapJoinOn
<1> HIDE DEF JoinTests
<1> QED
  BY <1>2, <1>3

\* The swapped join is a relation, and not a right join.
LEMMA SwappedIs ==
    ASSUME NEW leaves, NEW rank, NEW height, FiniteTrees(leaves, rank, height),
           NEW r \in Relations, IsRightJoin(r), NEW x \in Relations, NEW y \in Relations
    PROVE  /\ r.type \in {"Right", "RightSemi", "RightAnti"} /\ RightJoins[r.type] \in {"Left", "LeftSemi", "LeftAnti"}
           /\ r.type = "Right" => RightJoins[r.type] = "Left"
           /\ r.type = "RightSemi" => RightJoins[r.type] = "LeftSemi"
           /\ r.type = "RightAnti" => RightJoins[r.type] = "LeftAnti"
           /\ Join(y, x, SwapJoinOn(r.on), RightJoins[r.type]) \in Relations
           /\ ReorderColumns(Width(r.left), Width(r.right)) \in Seq(Expressions)
           /\ Swapped(r, x, y) \in Relations
<1>1. r.type \in {"Right", "RightSemi", "RightAnti"} /\ IsJoin(r)
  BY ByOp DEF IsRightJoin, RightJoins
<1>2. /\ RightJoins[r.type] \in {"Left", "LeftSemi", "LeftAnti"}
      /\ r.type = "Right" => RightJoins[r.type] = "Left"
      /\ r.type = "RightSemi" => RightJoins[r.type] = "LeftSemi"
      /\ r.type = "RightAnti" => RightJoins[r.type] = "LeftAnti"
  BY <1>1 DEF RightJoins
<1>3. SwapJoinOn(r.on) \in Seq(JoinTests(Expressions))
  BY <1>1, SwapJoinOnIs DEF IsJoin
<1>4. RightJoins[r.type] \in JoinTypes
  BY <1>2 DEF JoinTypes
<1>5. Join(y, x, SwapJoinOn(r.on), RightJoins[r.type]) \in Relations
  BY <1>3, <1>4, Closed
<1>6. r.left \in Relations /\ r.right \in Relations
  BY <1>1 DEF IsJoin
<1>7. ReorderColumns(Width(r.left), Width(r.right)) \in Seq(Expressions)
  BY <1>6, WidthIsNat, ReorderedIs
<1>8. Project(Join(y, x, SwapJoinOn(r.on), RightJoins[r.type]), ReorderColumns(Width(r.left), Width(r.right))) \in Relations
  BY <1>5, <1>7, Closed
<1> QED
  BY <1>1, <1>2, <1>5, <1>7, <1>8 DEF Swapped, ColumnCount

\* What the first pass makes of a relation is one.
LEMMA NormalIsRelation ==
    ASSUME NEW leaves, NEW rank, NEW height, FiniteTrees(leaves, rank, height)
    PROVE  \A r \in Relations : NormalizeRightJoins(r) \in Relations
<1> DEFINE S == {r \in Relations : NormalizeRightJoins(r) \in Relations}
<1>1. ASSUME NEW r \in Relations, \A x \in Relations : height[x] < height[r] => x \in S
      PROVE  r \in S
  <2> DEFINE ins == NormalInputs(r)
  <2>1. Inputs(r) \in Seq(Relations) /\ WellMade(r)
    BY InputsAre DEF WellMade
  <2>2. \A i \in DOMAIN Inputs(r) : NormalizeRightJoins(Inputs(r)[i]) \in Relations
    BY <1>1, InputsAre
  <2>3. ins \in Seq(Relations) /\ Len(ins) = Len(Inputs(r))
    BY <2>1, <2>2 DEF NormalInputs
  <2>4. NormalizeRightJoins(r) = IF IsRightJoin(r) THEN Swapped(r, ins[1], ins[2]) ELSE WithInputs(r, ins)
    BY NormalIs
  <2> HIDE DEF ins
  <2>5. CASE IsRightJoin(r)
    <3>1. Len(Inputs(r)) = 2
      BY <2>1, <2>5 DEF WellMade, IsRightJoin, Arity
    <3>2. ins[1] \in Relations /\ ins[2] \in Relations
      BY <2>3, <3>1
    <3> QED
      BY <2>4, <2>5, <3>2, SwappedIs
  <2>6. CASE ~IsRightJoin(r)
    BY <2>3, <2>4, <2>6, Rebuilt
  <2> QED
    BY <2>5, <2>6
<1> HIDE DEF S
<1>2. \A r \in Relations : r \in S
  BY <1>1, RelationInduction
<1> QED
  BY <1>2 DEF S

\* and one that is not higher.
LEMMA NormalNoHigher ==
    ASSUME NEW leaves, NEW rank, NEW height, FiniteTrees(leaves, rank, height)
    PROVE  \A r \in Relations : height[NormalizeRightJoins(r)] <= height[r]
<1> DEFINE S == {r \in Relations : height[NormalizeRightJoins(r)] <= height[r]}
<1>0. \A r \in Relations : height[r] \in Nat
  BY DEF FiniteTrees
<1>1. ASSUME NEW r \in Relations, \A x \in Relations : height[x] < height[r] => x \in S
      PROVE  r \in S
  <2> DEFINE ins == NormalInputs(r)
  <2>1. Inputs(r) \in Seq(Relations) /\ WellMade(r)
    BY InputsAre DEF WellMade
  <2>2. \A i \in DOMAIN Inputs(r) : ins[i] \in Relations /\ height[ins[i]] <= height[Inputs(r)[i]]
    BY <1>1, InputsAre, NormalIsRelation DEF NormalInputs
  <2>3. ins \in Seq(Relations) /\ Len(ins) = Len(Inputs(r)) /\ DOMAIN ins = DOMAIN Inputs(r)
    BY <2>1, <2>2 DEF NormalInputs
  <2>4. NormalizeRightJoins(r) = IF IsRightJoin(r) THEN Swapped(r, ins[1], ins[2]) ELSE WithInputs(r, ins)
    BY NormalIs
  <2> HIDE DEF ins
  <2>5. CASE IsRightJoin(r)
    <3> DEFINE x == ins[1]
               y == ins[2]
               j == Join(y, x, SwapJoinOn(r.on), RightJoins[r.type])
               es == ReorderColumns(ColumnCount(r.left), ColumnCount(r.right))
    <3>1. Len(Inputs(r)) = 2 /\ DOMAIN Inputs(r) = 1..2
      BY <2>1, <2>5 DEF WellMade, IsRightJoin, Arity
    <3>2. x \in Relations /\ y \in Relations
      BY <2>3, <3>1
    <3>3. height[r] \in Nat /\ height[r] <= height[r] /\ Cost(r) = 2
      BY <1>0, <2>5 DEF Cost
    <3>4. \A i \in 1..2 : height[Inputs(r)[i]] + 2 <= height[r]
      BY <3>1, <3>3 DEF FiniteTrees
    <3>5. \A i \in 1..2 : height[ins[i]] < height[r] - 1
      <4> SUFFICES ASSUME NEW i \in 1..2 PROVE height[ins[i]] < height[r] - 1
        OBVIOUS
      <4>1. Inputs(r)[i] \in Relations /\ ins[i] \in Relations /\ height[ins[i]] <= height[Inputs(r)[i]]
        BY <2>2, <3>1, InputsAre
      <4>2. height[Inputs(r)[i]] \in Nat /\ height[ins[i]] \in Nat /\ height[Inputs(r)[i]] + 2 <= height[r]
        BY <1>0, <3>4, <4>1
      <4> QED
        BY <3>3, <4>1, <4>2
    <3>6. height[r] - 1 \in Nat
      <4>1. Inputs(r)[1] \in Relations
        BY <3>1, InputsAre
      <4>2. height[Inputs(r)[1]] \in Nat /\ height[Inputs(r)[1]] + 2 <= height[r]
        BY <1>0, <3>4, <4>1
      <4> QED
        BY <3>3, <4>2
    <3> HIDE DEF x, y
    <3>7. j \in Relations /\ RightJoins[r.type] \in {"Left", "LeftSemi", "LeftAnti"} /\ Swapped(r, x, y) \in Relations
      BY <2>5, <3>2, SwappedIs
    <3>8. Inputs(j) = <<y, x>> /\ j.op = "Join" /\ j.type = RightJoins[r.type]
      BY OfJoin
    <3>9. ~IsRightJoin(j)
      BY <3>7, <3>8 DEF IsRightJoin, RightJoins
    <3>10. Swapped(r, x, y) \in {j, Project(j, es)}
      BY DEF Swapped
    <3> HIDE DEF j, es
    <3>11. height[j] <= height[r] - 1
      <4>1. \A i \in DOMAIN Inputs(j) : Inputs(j)[i] \in {x, y}
        BY <3>8
      <4>2. \A i \in DOMAIN Inputs(j) : height[Inputs(j)[i]] < height[r] - 1
        BY <3>5, <4>1 DEF x, y
      <4> QED
        BY <3>6, <3>7, <3>9, <4>2, HigherByOne
    <3>12. CASE Swapped(r, x, y) = j
      BY <1>0, <2>4, <2>5, <3>7, <3>11, <3>12 DEF x, y
    <3>13. CASE Swapped(r, x, y) = Project(j, es)
      <4> DEFINE p == Project(j, es)
      <4>1. Inputs(p) = <<j>> /\ p.op = "Project" /\ p \in Relations
        BY <3>7, <3>13, OfProject
      <4> HIDE DEF p
      <4>2. height[j] < height[r]
        BY <1>0, <3>7, <3>11
      <4>3. \A i \in DOMAIN Inputs(p) : height[Inputs(p)[i]] < height[r]
        BY <4>1, <4>2
      <4>4. height[p] <= height[r]
        BY <3>3, <4>1, <4>3, HigherByOne DEF IsRightJoin
      <4> QED
        BY <2>4, <2>5, <3>13, <4>4 DEF p, x, y
    <3> QED
      BY <3>10, <3>12, <3>13
  <2>6. CASE ~IsRightJoin(r)
    <3> DEFINE s == WithInputs(r, ins)
    <3>1. s \in Relations /\ Inputs(s) = ins /\ Alike(r, s)
      BY <2>3, Rebuilt
    <3> HIDE DEF s
    <3>2. height[s] <= height[r]
      BY <2>2, <2>3, <3>1, NoHigher
    <3> QED
      BY <2>4, <2>6, <3>2 DEF s
  <2> QED
    BY <2>5, <2>6
<1> HIDE DEF S
<1>2. \A r \in Relations : r \in S
  BY <1>1, RelationInduction
<1> QED
  BY <1>2 DEF S

------------------------------------------------------------------------------
\* Expressions.

IsColumn(e)   == e.op = "Column" /\ e = Column(e.index) /\ e.index \in Nat
IsLiteral(e)  == e.op = "Literal" /\ e = Literal(e.value)
IsGetField(e) == e.op = "GetField" /\ e = GetField(e.column, e.field) /\ e.column \in Expressions
IsUnary(e)    == e.op \notin KnownBinary \cup {"Column", "GetField", "Literal"} /\ e = Unary(e.op, e.expr) /\ e.expr \in Expressions
IsBinary(e)   == e.op \notin KnownUnary \cup {"Column", "GetField", "Literal"} /\ e = Binary(e.op, e.left, e.right)
                 /\ e.left \in Expressions /\ e.right \in Expressions
IsCall(e)     == e.op \notin Known /\ e = Call(e.op, e.args) /\ e.args \in Seq(Expressions)

\* What is made of operands and the rest has them.
LEMMA OfColumn ==
    ASSUME NEW e, NEW n, e = Column(n)
    PROVE  e.op = "Column" /\ e.index = n /\ Operands(e) = <<>>
BY DEF Column, Operands

LEMMA OfLiteral ==
    ASSUME NEW e, NEW v, e = Literal(v)
    PROVE  e.op = "Literal" /\ e.value = v /\ Operands(e) = <<>>
BY DEF Literal, Operands

LEMMA OfGetField ==
    ASSUME NEW e, NEW x, NEW f, e = GetField(x, f)
    PROVE  /\ e.op = "GetField" /\ e.column = x /\ e.field = f /\ Operands(e) = <<x>>
BY DEF GetField, Operands

LEMMA OfUnary ==
    ASSUME NEW e, NEW op, NEW x, e = Unary(op, x)
    PROVE  /\ e.op = op /\ e.expr = x /\ Operands(e) = <<x>>
           /\ "expr" \in DOMAIN e /\ "left" \notin DOMAIN e
BY DEF Unary, Operands

LEMMA OfBinary ==
    ASSUME NEW e, NEW op, NEW x, NEW y, e = Binary(op, x, y)
    PROVE  /\ e.op = op /\ e.left = x /\ e.right = y /\ Operands(e) = <<x, y>>
           /\ "expr" \notin DOMAIN e /\ "left" \in DOMAIN e
BY DEF Binary, Operands

LEMMA OfCall ==
    ASSUME NEW e, NEW op, NEW args, e = Call(op, args)
    PROVE  /\ e.op = op /\ e.args = args /\ Operands(e) = args
           /\ "expr" \notin DOMAIN e /\ "left" \notin DOMAIN e
BY DEF Call, Operands

\* An expression is one of these.
LEMMA ExpressionShapes ==
    ASSUME NEW leaves, NEW rank, NEW height, FiniteTrees(leaves, rank, height), NEW e \in Expressions
    PROVE  /\ IsColumn(e) \/ IsLiteral(e) \/ IsGetField(e) \/ IsUnary(e) \/ IsBinary(e) \/ IsCall(e)
           /\ IsGetField(e) => e.field \in leaves.names
           /\ IsUnary(e) => e.op \in KnownUnary \cup leaves.operators
           /\ IsBinary(e) => e.op \in KnownBinary \cup leaves.operators
<1>0. leaves.operators \cap Known = {} /\ e \in ExpressionsOf(Expressions, leaves)
  BY DEF FiniteTrees
<1>00. /\ \A op \in KnownUnary \cup leaves.operators : op \notin KnownBinary \cup {"Column", "GetField", "Literal"}
       /\ \A op \in KnownBinary \cup leaves.operators : op \notin KnownUnary \cup {"Column", "GetField", "Literal"}
  BY <1>0 DEF Known, KnownUnary, KnownBinary, Comparisons
<1>1. CASE \E n \in Nat : e = Column(n)
  BY <1>1, OfColumn DEF IsColumn, IsGetField, IsUnary, IsBinary
<1>2. CASE \E v \in leaves.values : e = Literal(v)
  BY <1>2, OfLiteral DEF IsLiteral, IsGetField, IsUnary, IsBinary
<1>3. CASE \E x \in Expressions, f \in leaves.names : e = GetField(x, f)
  BY <1>3, OfGetField DEF IsGetField, IsUnary, IsBinary
<1>4. CASE \E op \in KnownUnary \cup leaves.operators, x \in Expressions : e = Unary(op, x)
  <2>1. PICK op \in KnownUnary \cup leaves.operators, x \in Expressions : e = Unary(op, x)
    BY <1>4
  <2>2. e.op = op /\ e.expr = x /\ "left" \notin DOMAIN e
    BY <2>1, OfUnary
  <2>3. IsUnary(e) /\ ~IsGetField(e)
    BY <1>00, <2>1, <2>2 DEF IsUnary, IsGetField
  <2>4. ~IsBinary(e)
    BY <2>2, OfBinary DEF IsBinary
  <2> QED
    BY <2>1, <2>2, <2>3, <2>4
<1>5. CASE \E op \in KnownBinary \cup leaves.operators, x \in Expressions, y \in Expressions : e = Binary(op, x, y)
  <2>1. PICK op \in KnownBinary \cup leaves.operators, x \in Expressions, y \in Expressions : e = Binary(op, x, y)
    BY <1>5
  <2>2. e.op = op /\ e.left = x /\ e.right = y /\ "expr" \notin DOMAIN e
    BY <2>1 DEF Binary
  <2>3. IsBinary(e) /\ ~IsGetField(e)
    BY <1>00, <2>1, <2>2 DEF IsBinary, IsGetField
  <2>4. ~IsUnary(e)
    BY <2>2, OfUnary DEF IsUnary
  <2> QED
    BY <2>1, <2>2, <2>3, <2>4
<1>6. CASE \E op \in leaves.operators, args \in Seq(Expressions) : e = Call(op, args)
  <2>1. PICK op \in leaves.operators, args \in Seq(Expressions) : e = Call(op, args)
    BY <1>6
  <2>2. e.op = op /\ e.args = args /\ "expr" \notin DOMAIN e /\ "left" \notin DOMAIN e
    BY <2>1, OfCall
  <2>3. op \notin Known
    BY <1>0, <2>1
  <2>4. IsCall(e) /\ ~IsGetField(e)
    BY <2>1, <2>2, <2>3 DEF IsCall, IsGetField, Known
  <2>5. ~IsUnary(e) /\ ~IsBinary(e)
    BY <2>2, OfUnary, OfBinary DEF IsUnary, IsBinary
  <2> QED
    BY <2>4, <2>5
<1> QED
  BY <1>0, <1>1, <1>2, <1>3, <1>4, <1>5, <1>6 DEF ExpressionsOf

\* An expression by its name
LEMMA ByName ==
    ASSUME NEW leaves, NEW rank, NEW height, FiniteTrees(leaves, rank, height), NEW e \in Expressions
    PROVE  /\ e.op = "Column" => IsColumn(e)
           /\ e.op = "Literal" => IsLiteral(e)
           /\ e.op = "GetField" => IsGetField(e)
           /\ e.op \in KnownUnary => IsUnary(e)
           /\ e.op \in KnownBinary => IsBinary(e)
<1>1. \A op \in KnownUnary \cup KnownBinary : op \in Known /\ op \notin {"Column", "GetField", "Literal"}
  BY DEF KnownUnary, KnownBinary, Known, Comparisons
<1>2. \A op \in KnownUnary : op \notin KnownBinary
  BY DEF KnownUnary, KnownBinary, Comparisons
<1>3. {"Column", "GetField", "Literal"} \subseteq Known
  BY DEF Known
<1>4. IsColumn(e) \/ IsLiteral(e) \/ IsGetField(e) \/ IsUnary(e) \/ IsBinary(e) \/ IsCall(e)
  BY ExpressionShapes
<1>5. /\ IsColumn(e) => e.op = "Column"
      /\ IsLiteral(e) => e.op = "Literal"
      /\ IsGetField(e) => e.op = "GetField"
      /\ IsUnary(e) => e.op \notin KnownBinary \cup {"Column", "GetField", "Literal"}
      /\ IsBinary(e) => e.op \notin KnownUnary \cup {"Column", "GetField", "Literal"}
      /\ IsCall(e) => e.op \notin Known
  BY DEF IsColumn, IsLiteral, IsGetField, IsUnary, IsBinary, IsCall
<1> QED
  BY <1>1, <1>2, <1>3, <1>4, <1>5

\* The operands of an expression are expressions, and of a lower rank.
LEMMA OperandsAre ==
    ASSUME NEW leaves, NEW rank, NEW height, FiniteTrees(leaves, rank, height), NEW e \in Expressions
    PROVE  /\ Operands(e) \in Seq(Expressions)
           /\ \A i \in DOMAIN Operands(e) : Operands(e)[i] \in Expressions /\ rank[Operands(e)[i]] < rank[e]
           /\ IsGetField(e) => Operands(e) = <<e.column>>
           /\ IsUnary(e) => Operands(e) = <<e.expr>>
           /\ IsBinary(e) => Operands(e) = <<e.left, e.right>>
<1>1. /\ IsColumn(e) \/ IsLiteral(e) => Operands(e) = <<>>
      /\ IsGetField(e) => Operands(e) = <<e.column>>
      /\ IsUnary(e) => Operands(e) = <<e.expr>>
      /\ IsBinary(e) => Operands(e) = <<e.left, e.right>>
      /\ IsCall(e) => Operands(e) = e.args
  <2>1. IsColumn(e) \/ IsLiteral(e) => Operands(e) = <<>>
    BY OfColumn, OfLiteral DEF IsColumn, IsLiteral
  <2>2. IsGetField(e) => Operands(e) = <<e.column>>
    BY OfGetField DEF IsGetField
  <2>3. IsUnary(e) => Operands(e) = <<e.expr>>
    BY OfUnary DEF IsUnary
  <2>4. IsBinary(e) => Operands(e) = <<e.left, e.right>>
    <3> SUFFICES ASSUME IsBinary(e) PROVE Operands(e) = <<e.left, e.right>>
      OBVIOUS
    <3> DEFINE op == e.op
               x == e.left
               y == e.right
    <3>1. e = Binary(op, x, y)
      BY DEF IsBinary
    <3> HIDE DEF op, x, y
    <3>2. Operands(e) = <<x, y>>
      BY <3>1, OfBinary
    <3> QED
      BY <3>2 DEF x, y
  <2>5. IsCall(e) => Operands(e) = e.args
    BY OfCall DEF IsCall
  <2> QED
    BY <2>1, <2>2, <2>3, <2>4, <2>5
<1>2. /\ <<>> \in Seq(Expressions)
      /\ \A x, y \in Expressions : <<x>> \in Seq(Expressions) /\ <<x, y>> \in Seq(Expressions)
  OBVIOUS
<1>3. Operands(e) \in Seq(Expressions)
  <2>1. CASE IsColumn(e) \/ IsLiteral(e)
    BY <1>1, <1>2, <2>1
  <2>2. CASE IsGetField(e)
    BY <1>1, <1>2, <2>2 DEF IsGetField
  <2>3. CASE IsUnary(e)
    BY <1>1, <1>2, <2>3 DEF IsUnary
  <2>4. CASE IsBinary(e)
    BY <1>1, <1>2, <2>4 DEF IsBinary
  <2>5. CASE IsCall(e)
    BY <1>1, <1>2, <2>5 DEF IsCall
  <2> QED
    BY <2>1, <2>2, <2>3, <2>4, <2>5, ExpressionShapes
<1>4. \A i \in DOMAIN Operands(e) : Operands(e)[i] \in Expressions
  BY <1>3
<1> QED
  BY <1>1, <1>3, <1>4 DEF FiniteTrees

\* What is defined by recursion over expressions is defined for what is of a lower rank first.
LEMMA ExpressionsFounded ==
    ASSUME NEW leaves, NEW rank, NEW height, FiniteTrees(leaves, rank, height),
           NEW of \in {"value", "obstacles", "remap"}
    PROVE  Founded(of, Expressions, rank) /\ \A x : Parts(of, x) = Operands(x)
<1>1. \A x : Parts(of, x) = Operands(x)
  BY DEF Parts
<1>2. rank \in [Expressions -> Nat]
  BY DEF FiniteTrees
<1> QED
  BY <1>1, <1>2, OperandsAre DEF Founded

\* A value, by those of the operands
LEMMA ValueIs ==
    ASSUME NEW leaves, NEW rank, NEW height, FiniteTrees(leaves, rank, height), NEW e \in Expressions, NEW row
    PROVE  Value(e, row) = Evaluated(e, [i \in DOMAIN Operands(e) |-> Value(Operands(e)[i], row)], row)
<1> DEFINE Body(f, x) == Evaluated(x, [i \in DOMAIN Operands(x) |-> f[Operands(x)[i]]], row)
           whole == CHOOSE f : f = [x \in Expressions |-> Body(f, x)]
<1>1. \A x : Value(x, row) = whole[x]
  BY DEF Value
<1>2. PICK f : Defines("value", row, Expressions, f)
  BY ExpressionsFounded, Recursion
<1>3. \A x : Made("value", row, x, Given("value", x, f)) = Body(f, x)
  BY ExpressionsFounded DEF Made, Given
<1>4. f = [x \in Expressions |-> Body(f, x)]
  <2> HIDE DEF Body
  <2> QED
    BY <1>2, <1>3 DEF Defines
<1>5. whole = [x \in Expressions |-> Body(whole, x)]
  <2> HIDE DEF Body
  <2> QED
    BY <1>4
<1> HIDE DEF whole
<1>6. whole[e] = Body(whole, e)
  <2> HIDE DEF Body
  <2> QED
    BY <1>5
<1>7. [i \in DOMAIN Operands(e) |-> Value(Operands(e)[i], row)] = [i \in DOMAIN Operands(e) |-> whole[Operands(e)[i]]]
  BY <1>1
<1> QED
  BY <1>1, <1>6, <1>7

\* What remap_expression returns nothing for
LEMMA ObstaclesAre ==
    ASSUME NEW leaves, NEW rank, NEW height, FiniteTrees(leaves, rank, height), NEW e \in Expressions, NEW exprs
    PROVE  Obstacles(e, exprs) = ObstaclesIn(e, exprs, [i \in DOMAIN Operands(e) |-> Obstacles(Operands(e)[i], exprs)])
<1> DEFINE Body(f, x) == ObstaclesIn(x, exprs, [i \in DOMAIN Operands(x) |-> f[Operands(x)[i]]])
           whole == CHOOSE f : f = [x \in Expressions |-> Body(f, x)]
<1>1. \A x : Obstacles(x, exprs) = whole[x]
  BY DEF Obstacles
<1>2. PICK f : Defines("obstacles", exprs, Expressions, f)
  BY ExpressionsFounded, Recursion
<1>3. \A x : Made("obstacles", exprs, x, Given("obstacles", x, f)) = Body(f, x)
  BY ExpressionsFounded DEF Made, Given
<1>4. f = [x \in Expressions |-> Body(f, x)]
  <2> HIDE DEF Body
  <2> QED
    BY <1>2, <1>3 DEF Defines
<1>5. whole = [x \in Expressions |-> Body(whole, x)]
  <2> HIDE DEF Body
  <2> QED
    BY <1>4
<1> HIDE DEF whole
<1>6. whole[e] = Body(whole, e)
  <2> HIDE DEF Body
  <2> QED
    BY <1>5
<1>7. [i \in DOMAIN Operands(e) |-> Obstacles(Operands(e)[i], exprs)] = [i \in DOMAIN Operands(e) |-> whole[Operands(e)[i]]]
  BY <1>1
<1> QED
  BY <1>1, <1>6, <1>7

\* Which expressions can be computed before a projection, by their form
LEMMA RemappableIs ==
    ASSUME NEW leaves, NEW rank, NEW height, FiniteTrees(leaves, rank, height), NEW e \in Expressions, NEW exprs,
           Remappable(e, exprs)
    PROVE  /\ e.op = "Column" => e.index < Len(exprs)
           /\ e.op # "Column" => \A i \in DOMAIN Operands(e) : Remappable(Operands(e)[i], exprs)
           /\ e.op \in Known
<1> DEFINE v == [i \in DOMAIN Operands(e) |-> Obstacles(Operands(e)[i], exprs)]
<1>1. ObstaclesIn(e, exprs, v) = {}
  BY ObstaclesAre DEF Remappable
<1> HIDE DEF v
<1>2. e.op = "Column" => e.index < Len(exprs)
  <2> SUFFICES ASSUME e.op = "Column", ~(e.index < Len(exprs)) PROVE FALSE
    OBVIOUS
  <2>1. ObstaclesIn(e, exprs, v) = {e}
    BY DEF ObstaclesIn, KnownUnary, KnownBinary, Comparisons
  <2> QED
    BY <1>1, <2>1
<1>3. e.op \in Known
  <2> SUFFICES ASSUME e.op \notin Known PROVE FALSE
    OBVIOUS
  <2>1. ObstaclesIn(e, exprs, v) = {e}
    BY DEF ObstaclesIn, Known
  <2> QED
    BY <1>1, <2>1
<1>4. ASSUME e.op # "Column", NEW i \in DOMAIN Operands(e) PROVE Remappable(Operands(e)[i], exprs)
  <2>1. ObstaclesIn(e, exprs, v) = UNION ToSet(v)
    BY <1>3, <1>4 DEF ObstaclesIn, Known
  <2>2. v[i] \in ToSet(v) /\ v[i] = Obstacles(Operands(e)[i], exprs)
    BY <1>4 DEF v, ToSet
  <2>3. v[i] = {}
    BY <1>1, <2>1, <2>2
  <2> QED
    BY <2>2, <2>3 DEF Remappable
<1> QED
  BY <1>2, <1>3, <1>4

\* What an expression becomes
LEMMA RemapIs ==
    ASSUME NEW leaves, NEW rank, NEW height, FiniteTrees(leaves, rank, height), NEW e \in Expressions, NEW exprs
    PROVE  RemapExpression(e, exprs) = Remapped(e, exprs, [i \in DOMAIN Operands(e) |-> RemapExpression(Operands(e)[i], exprs)])
<1> DEFINE Body(f, x) == Remapped(x, exprs, [i \in DOMAIN Operands(x) |-> f[Operands(x)[i]]])
           whole == CHOOSE f : f = [x \in Expressions |-> Body(f, x)]
<1>1. \A x : RemapExpression(x, exprs) = whole[x]
  BY DEF RemapExpression
<1>2. PICK f : Defines("remap", exprs, Expressions, f)
  BY ExpressionsFounded, Recursion
<1>3. \A x : Made("remap", exprs, x, Given("remap", x, f)) = Body(f, x)
  BY ExpressionsFounded DEF Made, Given
<1>4. f = [x \in Expressions |-> Body(f, x)]
  <2> HIDE DEF Body
  <2> QED
    BY <1>2, <1>3 DEF Defines
<1>5. whole = [x \in Expressions |-> Body(whole, x)]
  <2> HIDE DEF Body
  <2> QED
    BY <1>4
<1> HIDE DEF whole
<1>6. whole[e] = Body(whole, e)
  <2> HIDE DEF Body
  <2> QED
    BY <1>5
<1>7. [i \in DOMAIN Operands(e) |-> RemapExpression(Operands(e)[i], exprs)] = [i \in DOMAIN Operands(e) |-> whole[Operands(e)[i]]]
  BY <1>1
<1> QED
  BY <1>1, <1>6, <1>7

\* What the second pass makes of expressions is one.
LEMMA ExpressionsClosed ==
    ASSUME NEW leaves, NEW rank, NEW height, FiniteTrees(leaves, rank, height)
    PROVE  /\ \A x \in Expressions, f \in leaves.names : GetField(x, f) \in Expressions
           /\ \A op \in KnownUnary, x \in Expressions : Unary(op, x) \in Expressions
           /\ \A op \in KnownBinary, x \in Expressions, y \in Expressions : Binary(op, x, y) \in Expressions
<1>0. Expressions = ExpressionsOf(Expressions, leaves)
  BY DEF FiniteTrees
<1>1. \A x \in Expressions, f \in leaves.names : GetField(x, f) \in Expressions
  BY <1>0 DEF ExpressionsOf
<1>2. \A op \in KnownUnary, x \in Expressions : Unary(op, x) \in Expressions
  BY <1>0 DEF ExpressionsOf
<1>3. \A op \in KnownBinary, x \in Expressions, y \in Expressions : Binary(op, x, y) \in Expressions
  BY <1>0 DEF ExpressionsOf
<1> QED
  BY <1>1, <1>2, <1>3

\* Of two expressions of the same operation, on operands of the same values, the values are the same.
LEMMA SameValue ==
    ASSUME NEW leaves, NEW rank, NEW height, FiniteTrees(leaves, rank, height),
           NEW e \in Expressions, NEW f \in Expressions, NEW row, NEW sow,
           f.op = e.op, e.op # "Column", e.op = "Literal" => f = e, e.op = "GetField" => f.field = e.field,
           DOMAIN Operands(e) = DOMAIN Operands(f),
           \A i \in DOMAIN Operands(e) : Value(Operands(f)[i], row) = Value(Operands(e)[i], sow)
    PROVE  Value(f, row) = Value(e, sow)
<1> DEFINE v == [i \in DOMAIN Operands(e) |-> Value(Operands(e)[i], sow)]
           w == [i \in DOMAIN Operands(f) |-> Value(Operands(f)[i], row)]
<1>1. v = w
  OBVIOUS
<1>2. Value(e, sow) = Evaluated(e, v, sow) /\ Value(f, row) = Evaluated(f, w, row)
  BY ValueIs
<1> HIDE DEF v, w
<1>3. Evaluated(f, v, row) = Evaluated(e, v, sow)
  BY DEF Evaluated
<1> QED
  BY <1>1, <1>2, <1>3

\* An expression of the columns of a projection is, for a row before it, what it was for the row
\* that the projection makes of it.
LEMMA RemappedMeansTheSame ==
    ASSUME NEW leaves, NEW rank, NEW height, FiniteTrees(leaves, rank, height), NEW exprs \in Seq(Expressions)
    PROVE  \A e \in Expressions : Remappable(e, exprs) =>
               /\ RemapExpression(e, exprs) \in Expressions
               /\ \A row : Value(RemapExpression(e, exprs), row) = Value(e, Values(exprs, row))
<1> DEFINE Right(e) == Remappable(e, exprs) =>
                           /\ RemapExpression(e, exprs) \in Expressions
                           /\ \A row : Value(RemapExpression(e, exprs), row) = Value(e, Values(exprs, row))
           S == {e \in Expressions : Right(e)}
<1>1. ASSUME NEW e \in Expressions, \A x \in Expressions : rank[x] < rank[e] => x \in S
      PROVE  e \in S
  <2> SUFFICES ASSUME Remappable(e, exprs)
               PROVE  /\ RemapExpression(e, exprs) \in Expressions
                      /\ \A row : Value(RemapExpression(e, exprs), row) = Value(e, Values(exprs, row))
    OBVIOUS
  <2> DEFINE f == RemapExpression(e, exprs)
             v == [i \in DOMAIN Operands(e) |-> RemapExpression(Operands(e)[i], exprs)]
  <2>1. f = Remapped(e, exprs, v)
    BY RemapIs
  <2>2. /\ e.op = "Column" => e.index < Len(exprs)
        /\ e.op # "Column" => \A i \in DOMAIN Operands(e) : Remappable(Operands(e)[i], exprs)
        /\ e.op \in Known
    BY RemappableIs
  <2>3. CASE e.op = "Column"
    <3>1. e.index \in Nat /\ e.index < Len(exprs)
      BY <2>2, <2>3, ByName DEF IsColumn
    <3>2. f = exprs[e.index + 1]
      BY <2>1, <2>3 DEF Remapped, KnownUnary, KnownBinary, Comparisons
    <3>3. e.index + 1 \in DOMAIN exprs
      BY <3>1
    <3>4. f \in Expressions
      BY <3>2, <3>3
    <3>5. ASSUME NEW row PROVE Value(f, row) = Value(e, Values(exprs, row))
      <4> DEFINE sow == Values(exprs, row)
                 w == [i \in DOMAIN Operands(e) |-> Value(Operands(e)[i], sow)]
      <4>1. sow[e.index + 1] = Value(f, row)
        BY <3>2, <3>3 DEF Values
      <4>2. Value(e, sow) = Evaluated(e, w, sow)
        BY ValueIs
      <4> HIDE DEF sow, w
      <4>3. Evaluated(e, w, sow) = sow[e.index + 1]
        BY <2>3 DEF Evaluated
      <4> HIDE DEF f
      <4> QED
        BY <4>1, <4>2, <4>3 DEF sow
    <3> QED
      BY <3>4, <3>5
  <2>4. CASE e.op # "Column"
    <3>1. /\ DOMAIN v = DOMAIN Operands(e)
          /\ \A i \in DOMAIN v : v[i] \in Expressions
          /\ \A i \in DOMAIN Operands(e) : \A row : Value(v[i], row) = Value(Operands(e)[i], Values(exprs, row))
      <4>2. \A i \in DOMAIN Operands(e) : Operands(e)[i] \in S
        BY <1>1, OperandsAre
      <4>3. \A i \in DOMAIN Operands(e) : Right(Operands(e)[i])
        BY <4>2
      <4>4. \A i \in DOMAIN Operands(e) : RemapExpression(Operands(e)[i], exprs) \in Expressions
        BY <2>2, <2>4, <4>3
      <4>5. \A i \in DOMAIN Operands(e) : \A row :
                Value(RemapExpression(Operands(e)[i], exprs), row) = Value(Operands(e)[i], Values(exprs, row))
        BY <2>2, <2>4, <4>3
      <4>6. DOMAIN v = DOMAIN Operands(e)
        OBVIOUS
      <4>7. \A i \in DOMAIN Operands(e) : v[i] = RemapExpression(Operands(e)[i], exprs)
        OBVIOUS
      <4> HIDE DEF v, S, Right
      <4> QED
        BY <4>4, <4>5, <4>6, <4>7
    <3> HIDE DEF f, v, S, Right
    <3>2. /\ f \in Expressions /\ f.op = e.op /\ DOMAIN Operands(f) = DOMAIN v
          /\ \A i \in DOMAIN Operands(e) : Operands(f)[i] = v[i]
          /\ e.op = "Literal" => f = e
          /\ e.op = "GetField" => f.field = e.field
      <4>1. CASE e.op = "Literal"
        <5>1. f = e
          BY <2>1, <4>1 DEF Remapped, KnownUnary, KnownBinary, Comparisons
        <5>2. Operands(e) = <<>>
          BY <4>1, ByName, OfLiteral DEF IsLiteral
        <5> QED
          BY <3>1, <4>1, <5>1, <5>2
      <4>2. CASE e.op = "GetField"
        <5>1. f = GetField(v[1], e.field)
          BY <2>1, <4>2 DEF Remapped, KnownUnary, KnownBinary, Comparisons
        <5>2. Operands(e) = <<e.column>> /\ e.field \in leaves.names
          BY <4>2, ByName, OperandsAre, ExpressionShapes
        <5>3. v[1] \in Expressions /\ DOMAIN v = 1..1
          <6>1. DOMAIN v = 1..1
            BY <3>1, <5>2
          <6>2. 1 \in DOMAIN v
            BY <6>1
          <6> QED
            BY <3>1, <6>1, <6>2
        <5>4. f.op = "GetField" /\ f.field = e.field /\ Operands(f) = <<v[1]>>
          BY <5>1, OfGetField
        <5>5. f \in Expressions
          BY <5>1, <5>2, <5>3, ExpressionsClosed
        <5> QED
          BY <3>1, <4>2, <5>3, <5>4, <5>5
      <4>3. CASE e.op \in KnownUnary
        <5>1. f = Unary(e.op, v[1]) /\ e.op \notin {"Literal", "GetField"}
          BY <2>1, <4>3 DEF Remapped, KnownUnary, KnownBinary, Comparisons
        <5>2. Operands(e) = <<e.expr>>
          BY <4>3, ByName, OperandsAre
        <5>3. v[1] \in Expressions /\ DOMAIN v = 1..1
          <6>1. DOMAIN v = 1..1
            BY <3>1, <5>2
          <6>2. 1 \in DOMAIN v
            BY <6>1
          <6> QED
            BY <3>1, <6>1, <6>2
        <5>4. f.op = e.op /\ Operands(f) = <<v[1]>>
          BY <5>1, OfUnary
        <5>5. f \in Expressions
          BY <4>3, <5>1, <5>3, ExpressionsClosed
        <5> QED
          BY <3>1, <5>1, <5>3, <5>4, <5>5
      <4>4. CASE e.op \in KnownBinary
        <5>1. f = Binary(e.op, v[1], v[2]) /\ e.op \notin {"Literal", "GetField"}
          BY <2>1, <4>4 DEF Remapped, KnownUnary, KnownBinary, Comparisons
        <5>2. Operands(e) = <<e.left, e.right>>
          BY <4>4, ByName, OperandsAre
        <5>3. v[1] \in Expressions /\ v[2] \in Expressions /\ DOMAIN v = 1..2
          <6>1. DOMAIN v = 1..2
            BY <3>1, <5>2
          <6>2. 1 \in DOMAIN v /\ 2 \in DOMAIN v
            BY <6>1
          <6> QED
            BY <3>1, <6>1, <6>2
        <5>4. f.op = e.op /\ Operands(f) = <<v[1], v[2]>>
          BY <5>1, OfBinary
        <5>5. f \in Expressions
          BY <4>4, <5>1, <5>3, ExpressionsClosed
        <5> QED
          BY <3>1, <5>1, <5>3, <5>4, <5>5
      <4> QED
        BY <2>2, <2>4, <4>1, <4>2, <4>3, <4>4 DEF Known
    <3>3. ASSUME NEW row PROVE Value(f, row) = Value(e, Values(exprs, row))
      <4>1. \A i \in DOMAIN Operands(e) : Value(Operands(f)[i], row) = Value(Operands(e)[i], Values(exprs, row))
        BY <3>1, <3>2
      <4> DEFINE sow == Values(exprs, row)
      <4> HIDE DEF sow
      <4>2. \A i \in DOMAIN Operands(e) : Value(Operands(f)[i], row) = Value(Operands(e)[i], sow)
        BY <4>1 DEF sow
      <4>3. DOMAIN Operands(e) = DOMAIN Operands(f)
        BY <3>1, <3>2
      <4>4. Value(f, row) = Value(e, sow)
        BY <2>4, <3>2, <4>2, <4>3, SameValue
      <4> QED
        BY <4>4 DEF sow
    <3> QED
      BY <3>2, <3>3 DEF f
  <2> QED
    BY <2>3, <2>4
<1> HIDE DEF S
<1>2. rank \in [Expressions -> Nat]
  BY DEF FiniteTrees
<1>3. \A e \in Expressions : e \in S
  BY <1>1, <1>2, SizeInduction
<1> QED
  BY <1>3 DEF S

------------------------------------------------------------------------------
\* The second pass.

\* What a sort key sorts by is an expression.
LEMMA KeyExpression ==
    ASSUME NEW key \in SortKeys(Expressions)
    PROVE  key.expr \in Expressions
BY DEF SortKeys, SortBy

\* A sort key, of another expression
LEMMA OtherKey ==
    ASSUME NEW key \in SortKeys(Expressions), NEW e \in Expressions
    PROVE  /\ key.expr \in Expressions
           /\ [key EXCEPT !.expr = e] \in SortKeys(Expressions)
           /\ [key EXCEPT !.expr = e].expr = e
           /\ [key EXCEPT !.expr = e].desc = key.desc
           /\ [key EXCEPT !.expr = e].nulls_last = key.nulls_last
<1>1. PICK x \in Expressions, desc \in BOOLEAN, last \in BOOLEAN : key = SortBy(x, desc, last)
  BY DEF SortKeys
<1>2. key.expr = x /\ key.desc = desc /\ key.nulls_last = last
  BY <1>1 DEF SortBy
<1>3. [key EXCEPT !.expr = e] = SortBy(e, desc, last)
  BY <1>1 DEF SortBy
<1>4. SortBy(e, desc, last).expr = e /\ SortBy(e, desc, last).desc = desc /\ SortBy(e, desc, last).nulls_last = last
  BY DEF SortBy
<1>5. SortBy(e, desc, last) \in SortKeys(Expressions)
  BY DEF SortKeys
<1> QED
  BY <1>1, <1>2, <1>3, <1>4, <1>5

\* The keys of a sort, remapped
RemappedKeys(keys, exprs) == [i \in DOMAIN keys |-> [keys[i] EXCEPT !.expr = RemapExpression(@, exprs)]]

\* They sort by the remapped expressions, otherwise as before.
LEMMA RemappedKeysAre ==
    ASSUME NEW leaves, NEW rank, NEW height, FiniteTrees(leaves, rank, height), NEW exprs \in Seq(Expressions),
           NEW keys \in Seq(SortKeys(Expressions)), \A i \in DOMAIN keys : Remappable(keys[i].expr, exprs)
    PROVE  /\ RemappedKeys(keys, exprs) \in Seq(SortKeys(Expressions))
           /\ DOMAIN RemappedKeys(keys, exprs) = DOMAIN keys
           /\ \A i \in DOMAIN keys : /\ RemappedKeys(keys, exprs)[i].expr = RemapExpression(keys[i].expr, exprs)
                                     /\ RemappedKeys(keys, exprs)[i].desc = keys[i].desc
                                     /\ RemappedKeys(keys, exprs)[i].nulls_last = keys[i].nulls_last
<1> DEFINE new(i) == [keys[i] EXCEPT !.expr = RemapExpression(keys[i].expr, exprs)]
<1>1. ASSUME NEW i \in DOMAIN keys
      PROVE  /\ new(i) \in SortKeys(Expressions) /\ new(i).expr = RemapExpression(keys[i].expr, exprs)
             /\ new(i).desc = keys[i].desc /\ new(i).nulls_last = keys[i].nulls_last
  <2> DEFINE key == keys[i]
             e == RemapExpression(key.expr, exprs)
  <2>1. key \in SortKeys(Expressions)
    OBVIOUS
  <2>2. key.expr \in Expressions
    <3> HIDE DEF key
    <3> QED
      BY <2>1, KeyExpression
  <2>3. e \in Expressions
    BY <2>2, RemappedMeansTheSame
  <2> HIDE DEF key, e
  <2>4. /\ [key EXCEPT !.expr = e] \in SortKeys(Expressions) /\ [key EXCEPT !.expr = e].expr = e
        /\ [key EXCEPT !.expr = e].desc = key.desc /\ [key EXCEPT !.expr = e].nulls_last = key.nulls_last
    BY <2>1, <2>3, OtherKey
  <2> QED
    BY <2>4 DEF key, e
<1>2. RemappedKeys(keys, exprs) = [i \in DOMAIN keys |-> new(i)]
  BY DEF RemappedKeys
<1>3. DOMAIN keys = 1..Len(keys) /\ Len(keys) \in Nat
  OBVIOUS
<1> HIDE DEF new
<1>4. [i \in 1..Len(keys) |-> new(i)] \in Seq(SortKeys(Expressions))
  BY <1>1, <1>3
<1> QED
  BY <1>1, <1>2, <1>3, <1>4

\* What is pushed below a projection is a filter or a sort of its input.
LEMMA PushedIs ==
    ASSUME NEW leaves, NEW rank, NEW height, FiniteTrees(leaves, rank, height),
           NEW x \in Relations, NEW q \in Relations, IsPushed(x, q)
    PROVE  /\ q.input \in Relations /\ q.exprs \in Seq(Expressions) /\ height[q.input] < height[q] /\ q.op = "Project"
           /\ q = Project(q.input, q.exprs)
           /\ x.op = "Filter" => IsFilter(x) /\ Remappable(x.predicate, q.exprs)
                                 /\ Pushed(x, q) = Filter(q.input, RemapExpression(x.predicate, q.exprs))
           /\ x.op = "Sort" => IsSort(x) /\ (\A i \in DOMAIN x.exprs : Remappable(x.exprs[i].expr, q.exprs))
                               /\ Pushed(x, q) = Sort(q.input, RemappedKeys(x.exprs, q.exprs))
           /\ x.op \in {"Filter", "Sort"}
           /\ Pushed(x, q) \in Relations /\ Pushed(x, q).op = x.op
           /\ Inputs(Pushed(x, q)) = <<q.input>>
<1> DEFINE z == q.input
           es == q.exprs
<1>1. IsProject(q) /\ x.op \in {"Filter", "Sort"} /\ CanPush(x, es)
  BY ByOp DEF IsPushed
<1>2. z \in Relations /\ es \in Seq(Expressions) /\ q = Project(z, es) /\ q.op = "Project"
  BY <1>1 DEF IsProject
<1>3. height[z] < height[q]
  <2>1. Inputs(q) = <<z>>
    <3> HIDE DEF z, es
    <3> QED
      BY <1>2, OfProject
  <2>2. 1 \in DOMAIN Inputs(q) /\ Inputs(q)[1] = z
    BY <2>1
  <2> HIDE DEF z
  <2> QED
    BY <2>2, InputsAre
<1>4. ASSUME x.op = "Filter"
      PROVE  /\ IsFilter(x) /\ Remappable(x.predicate, es) /\ Pushed(x, q) = Filter(z, RemapExpression(x.predicate, es))
             /\ Pushed(x, q) \in Relations /\ Pushed(x, q).op = x.op /\ Inputs(Pushed(x, q)) = <<z>>
  <2>1. IsFilter(x) /\ Remappable(x.predicate, es)
    BY <1>1, <1>4, ByOp DEF CanPush
  <2>2. Pushed(x, q) = Filter(z, RemapExpression(x.predicate, es))
    BY <1>4 DEF Pushed
  <2> DEFINE p == RemapExpression(x.predicate, es)
  <2>3. x.predicate \in Expressions
    BY <2>1 DEF IsFilter
  <2> HIDE DEF es, z
  <2>4. p \in Expressions
    BY <1>2, <2>1, <2>3, RemappedMeansTheSame
  <2>5. Filter(z, p) \in Relations
    BY <1>2, <2>4, Closed
  <2>6. Filter(z, p).op = "Filter" /\ Inputs(Filter(z, p)) = <<z>>
    BY OfFilter
  <2> QED
    BY <1>4, <2>1, <2>2, <2>5, <2>6
<1>5. ASSUME x.op = "Sort"
      PROVE  /\ IsSort(x) /\ (\A i \in DOMAIN x.exprs : Remappable(x.exprs[i].expr, es))
             /\ Pushed(x, q) = Sort(z, RemappedKeys(x.exprs, es))
             /\ Pushed(x, q) \in Relations /\ Pushed(x, q).op = x.op /\ Inputs(Pushed(x, q)) = <<z>>
  <2>1. IsSort(x) /\ \A i \in DOMAIN x.exprs : Remappable(x.exprs[i].expr, es)
    BY <1>1, <1>5, ByOp DEF CanPush
  <2>2. Pushed(x, q) = Sort(z, RemappedKeys(x.exprs, es))
    BY <1>5 DEF Pushed, RemappedKeys
  <2> DEFINE keys == RemappedKeys(x.exprs, es)
  <2>3. x.exprs \in Seq(SortKeys(Expressions))
    BY <2>1 DEF IsSort
  <2> HIDE DEF es, z
  <2>4. keys \in Seq(SortKeys(Expressions))
    BY <1>2, <2>1, <2>3, RemappedKeysAre
  <2>5. Sort(z, keys) \in Relations
    BY <1>2, <2>4, Closed
  <2>6. Sort(z, keys).op = "Sort" /\ Inputs(Sort(z, keys)) = <<z>>
    BY OfSort
  <2> QED
    BY <1>5, <2>1, <2>2, <2>5, <2>6
<1> QED
  BY <1>1, <1>2, <1>3, <1>4, <1>5

\* What the second pass makes of a relation, given what it makes of lower ones
PushedInputs(f, x) == [i \in DOMAIN Inputs(x) |-> f[Inputs(x)[i]]]
PushBody(f, x) == LET inputs == PushedInputs(f, x)
                  IN  IF IsPushed(x, inputs[1])
                      THEN Project(f[Pushed(x, inputs[1])], inputs[1].exprs)
                      ELSE WithInputs(x, inputs)

LowerRelations(f, height, n) ==
    \A y \in Relations : height[y] < n => f[y] \in Relations /\ height[f[y]] <= height[y]

\* If the second pass has made relations of all lower relations, and none that are higher, it
\* makes one of this relation, looking at no others.
LEMMA PushStep ==
    ASSUME NEW leaves, NEW rank, NEW height, FiniteTrees(leaves, rank, height), NEW x \in Relations, NEW f,
           LowerRelations(f, height, height[x])
    PROVE  /\ PushBody(f, x) \in Relations /\ height[PushBody(f, x)] <= height[x]
           /\ \A g : (\A y \in Relations : height[y] < height[x] => g[y] = f[y]) => PushBody(g, x) = PushBody(f, x)
           /\ PushedInputs(f, x) \in Seq(Relations) /\ Len(PushedInputs(f, x)) = Len(Inputs(x))
           /\ IsPushed(x, PushedInputs(f, x)[1]) =>
                  /\ PushedInputs(f, x)[1] \in Relations
                  /\ Pushed(x, PushedInputs(f, x)[1]) \in Relations
                  /\ height[Pushed(x, PushedInputs(f, x)[1])] < height[x]
<1> DEFINE ins == PushedInputs(f, x)
           q == ins[1]
           p == Pushed(x, q)
<1>0. \A r \in Relations : height[r] \in Nat
  BY DEF FiniteTrees
<1>1. Inputs(x) \in Seq(Relations) /\ \A i \in DOMAIN Inputs(x) : Inputs(x)[i] \in Relations /\ height[Inputs(x)[i]] < height[x]
  BY InputsAre DEF WellMade
<1>2. \A i \in DOMAIN Inputs(x) : f[Inputs(x)[i]] \in Relations /\ height[f[Inputs(x)[i]]] <= height[Inputs(x)[i]]
  BY <1>1 DEF LowerRelations
<1>3. ins \in Seq(Relations) /\ Len(ins) = Len(Inputs(x)) /\ DOMAIN ins = DOMAIN Inputs(x)
  BY <1>1, <1>2 DEF PushedInputs
<1>4. \A i \in DOMAIN ins : ins[i] \in Relations /\ height[ins[i]] < height[x]
  <2> SUFFICES ASSUME NEW i \in DOMAIN ins PROVE ins[i] \in Relations /\ height[ins[i]] < height[x]
    OBVIOUS
  <2> DEFINE y == Inputs(x)[i]
  <2>1. ins[i] = f[y] /\ y \in Relations /\ height[y] < height[x] /\ f[y] \in Relations /\ height[f[y]] <= height[y]
    BY <1>1, <1>2, <1>3 DEF PushedInputs
  <2> HIDE DEF y, ins
  <2> QED
    BY <1>0, <2>1
<1>5. PushBody(f, x) = IF IsPushed(x, q) THEN Project(f[p], q.exprs) ELSE WithInputs(x, ins)
  BY DEF PushBody
<1>6. ASSUME NEW s \in Relations, ~IsRightJoin(s), \A i \in DOMAIN Inputs(s) : height[Inputs(s)[i]] < height[x]
      PROVE  height[s] <= height[x]
  BY <1>0, <1>6, HigherByOne
<1>7. ASSUME NEW g, \A y \in Relations : height[y] < height[x] => g[y] = f[y] PROVE PushedInputs(g, x) = ins
  BY <1>1, <1>7 DEF PushedInputs
<1> HIDE DEF ins
<1>8. CASE ~IsPushed(x, q)
  <2> DEFINE s == WithInputs(x, ins)
  <2>1. s \in Relations /\ Inputs(s) = ins /\ Alike(x, s)
    BY <1>3, Rebuilt
  <2> HIDE DEF s
  <2>0. \A i \in DOMAIN ins : height[ins[i]] <= height[Inputs(x)[i]]
    BY <1>2, <1>3 DEF ins, PushedInputs
  <2>2. height[s] <= height[x]
    BY <1>3, <2>0, <2>1, NoHigher
  <2>3. PushBody(f, x) = s
    BY <1>5, <1>8 DEF s
  <2>4. \A g : (\A y \in Relations : height[y] < height[x] => g[y] = f[y]) => PushBody(g, x) = s
    BY <1>7, <1>8 DEF PushBody, s
  <2> QED
    BY <1>3, <1>8, <2>1, <2>2, <2>3, <2>4 DEF ins
<1>9. CASE IsPushed(x, q)
  <2>1. q \in Relations /\ height[q] < height[x]
    <3>1. x.op \in {"Filter", "Sort"}
      BY <1>9 DEF IsPushed
    <3>2. Inputs(x) = <<x.input>>
      BY <3>1, InputsAre DEF WellMade
    <3>3. 1 \in DOMAIN ins
      BY <1>3, <3>2
    <3> QED
      BY <1>4, <3>3
  <2> HIDE DEF q
  <2>2. /\ q.input \in Relations /\ q.exprs \in Seq(Expressions) /\ height[q.input] < height[q]
        /\ p \in Relations /\ Inputs(p) = <<q.input>> /\ p.op \in {"Filter", "Sort"}
    BY <1>9, <2>1, PushedIs
  <2> HIDE DEF p
  <2>3. height[p] <= height[q]
    <3> DEFINE n == height[q]
    <3>1. \A i \in DOMAIN Inputs(p) : Inputs(p)[i] = q.input
      BY <2>2
    <3>2. n \in Nat /\ \A i \in DOMAIN Inputs(p) : height[Inputs(p)[i]] < n
      BY <1>0, <2>1, <2>2, <3>1
    <3> HIDE DEF n
    <3>3. height[p] <= n
      BY <2>2, <3>2, HigherByOne DEF IsRightJoin
    <3> QED
      BY <3>3 DEF n
  <2>4. height[p] < height[x]
    BY <1>0, <2>1, <2>2, <2>3
  <2>5. f[p] \in Relations /\ height[f[p]] < height[x]
    <3>1. f[p] \in Relations /\ height[f[p]] <= height[p]
      BY <2>2, <2>4 DEF LowerRelations
    <3> QED
      BY <1>0, <2>2, <2>4, <3>1
  <2> DEFINE s == Project(f[p], q.exprs)
  <2>6. s \in Relations /\ Inputs(s) = <<f[p]>> /\ s.op = "Project"
    BY <2>2, <2>5, Closed, OfProject
  <2>7. PushBody(f, x) = s
    BY <1>5, <1>9
  <2> HIDE DEF s
  <2>8. \A i \in DOMAIN Inputs(s) : Inputs(s)[i] = f[p]
    BY <2>6
  <2>9. height[s] <= height[x]
    BY <1>6, <2>5, <2>6, <2>8 DEF IsRightJoin
  <2>10. \A g : (\A y \in Relations : height[y] < height[x] => g[y] = f[y]) => PushBody(g, x) = s
    BY <1>7, <1>9, <2>2, <2>4 DEF PushBody, s, p, q
  <2> QED
    BY <1>3, <2>1, <2>2, <2>4, <2>6, <2>7, <2>9, <2>10 DEF ins, p, q
<1> QED
  BY <1>8, <1>9

\* The inputs of a relation, after the second pass
PushedDown(x) == [i \in DOMAIN Inputs(x) |-> PushdownPredicates(Inputs(x)[i])]

\* The second pass is defined on all relations, makes relations of them, and none that are higher.
LEMMA PushIs ==
    ASSUME NEW leaves, NEW rank, NEW height, FiniteTrees(leaves, rank, height), NEW x \in Relations
    PROVE  /\ PushdownPredicates(x) \in Relations /\ height[PushdownPredicates(x)] <= height[x]
           /\ PushedDown(x) \in Seq(Relations) /\ Len(PushedDown(x)) = Len(Inputs(x))
           /\ ~IsPushed(x, PushedDown(x)[1]) => PushdownPredicates(x) = WithInputs(x, PushedDown(x))
           /\ IsPushed(x, PushedDown(x)[1]) =>
                  /\ PushedDown(x)[1] \in Relations
                  /\ height[Pushed(x, PushedDown(x)[1])] < height[x]
                  /\ PushdownPredicates(x) =
                         Project(PushdownPredicates(Pushed(x, PushedDown(x)[1])), PushedDown(x)[1].exprs)
<1> DEFINE Below(n) == {y \in Relations : height[y] < n}
           Upto(n, g) == g = [y \in Below(n) |-> PushBody(g, y)]
<1>1. height \in [Relations -> Nat] /\ \A y \in Relations : height[y] \in Nat
  BY DEF FiniteTrees
<1>2. ASSUME NEW n \in Nat, NEW g, \A y \in Below(n) : g[y] = PushBody(g, y)
      PROVE  LowerRelations(g, height, n)
  <2> DEFINE S == {y \in Relations : height[y] < n => g[y] \in Relations /\ height[g[y]] <= height[y]}
  <2>1. ASSUME NEW y \in Relations, \A z \in Relations : height[z] < height[y] => z \in S
        PROVE  y \in S
    <3> SUFFICES ASSUME height[y] < n PROVE g[y] \in Relations /\ height[g[y]] <= height[y]
      OBVIOUS
    <3>1. LowerRelations(g, height, height[y])
      <4> SUFFICES ASSUME NEW z \in Relations, height[z] < height[y]
                   PROVE  g[z] \in Relations /\ height[g[z]] <= height[z]
        BY DEF LowerRelations
      <4>1. z \in S /\ height[z] < n
        BY <1>1, <2>1
      <4> QED
        BY <4>1
    <3>2. g[y] = PushBody(g, y)
      BY <1>2
    <3> QED
      BY <3>1, <3>2, PushStep
  <2> HIDE DEF S
  <2>2. \A y \in Relations : y \in S
    BY <1>1, <2>1, SizeInduction
  <2> QED
    BY <2>2 DEF S, LowerRelations
<1>3. ASSUME NEW n \in Nat, NEW g, Upto(n, g), NEW y \in Below(n)
      PROVE  g[y] = PushBody(g, y)
  BY <1>3
<1>4. ASSUME NEW n \in Nat, NEW g, LowerRelations(g, height, n), NEW m \in Nat, m <= n
      PROVE  LowerRelations(g, height, m)
  BY <1>1, <1>4 DEF LowerRelations
<1>5. ASSUME NEW n \in Nat, NEW g, Upto(n, g), NEW m \in Nat, NEW h, Upto(m, h), n <= m
      PROVE  \A y \in Below(n) : g[y] = h[y]
  <2> DEFINE Same == {y \in Relations : height[y] < n => g[y] = h[y]}
  <2>0. LowerRelations(g, height, n)
    <3> HIDE DEF Below
    <3> QED
      BY <1>2, <1>3, <1>5
  <2>1. ASSUME NEW y \in Relations, \A z \in Relations : height[z] < height[y] => z \in Same
        PROVE  y \in Same
    <3> SUFFICES ASSUME height[y] < n PROVE g[y] = h[y]
      OBVIOUS
    <3>1. y \in Below(n) /\ y \in Below(m)
      BY <1>1, <1>5
    <3>2. \A z \in Relations : height[z] < height[y] => h[z] = g[z]
      <4> SUFFICES ASSUME NEW z \in Relations, height[z] < height[y] PROVE h[z] = g[z]
        OBVIOUS
      <4>1. z \in Same /\ height[z] < n
        BY <1>1, <2>1
      <4> QED
        BY <4>1
    <3>3. LowerRelations(g, height, height[y])
      BY <1>1, <1>4, <2>0
    <3>4. PushBody(h, y) = PushBody(g, y)
      BY <3>2, <3>3, PushStep
    <3>5. g[y] = PushBody(g, y) /\ h[y] = PushBody(h, y)
      <4> HIDE DEF Below
      <4> QED
        BY <1>3, <1>5, <3>1
    <3> QED
      BY <3>4, <3>5
  <2> HIDE DEF Same
  <2>3. \A y \in Relations : y \in Same
    BY <1>1, <2>1, SizeInduction
  <2> QED
    BY <2>3 DEF Same
<1>6. ASSUME NEW n \in Nat PROVE \E g : Upto(n, g)
  <2> DEFINE None == {k \in Nat : ~ \E g : Upto(k, g)}
  <2> SUFFICES ASSUME n \in None PROVE FALSE
    OBVIOUS
  <2>0. None \in SUBSET Nat /\ None # {}
    OBVIOUS
  <2>1. PICK m \in None : \A k \in None : m <= k
    <3> HIDE DEF None
    <3> QED
      BY <2>0, Smallest
  <2>2. m \in Nat /\ ~ \E g : Upto(m, g)
    BY <2>1
  <2>3. m # 0
    <3> DEFINE g == [y \in {} |-> y]
    <3>1. Below(0) = {}
      BY <1>1
    <3>2. g = [y \in {} |-> PushBody(g, y)]
      OBVIOUS
    <3>3. Upto(0, g)
      BY <3>1, <3>2
    <3> QED
      BY <2>2, <3>3
  <2>4. m - 1 \in Nat /\ m - 1 \notin None
    <3>1. m - 1 \in Nat /\ ~(m <= m - 1)
      BY <2>2, <2>3
    <3> QED
      BY <2>1, <3>1
  <2>5. PICK g : Upto(m - 1, g)
    BY <2>4
  <2> DEFINE h == [y \in Below(m) |-> PushBody(g, y)]
  <2>6. ASSUME NEW y \in Below(m - 1) PROVE h[y] = g[y]
    <3>1. y \in Below(m)
      BY <1>1, <2>4, <2>2
    <3>2. g[y] = PushBody(g, y)
      BY <1>3, <2>4, <2>5
    <3> QED
      BY <3>1, <3>2
  <2>7. LowerRelations(g, height, m - 1)
    <3> HIDE DEF Below
    <3> QED
      BY <1>2, <1>3, <2>4, <2>5
  <2>8. ASSUME NEW y \in Below(m) PROVE h[y] = PushBody(h, y)
    <3>1. \A z \in Relations : height[z] < height[y] => h[z] = g[z]
      <4> SUFFICES ASSUME NEW z \in Relations, height[z] < height[y] PROVE h[z] = g[z]
        OBVIOUS
      <4>1. z \in Below(m - 1)
        BY <1>1, <2>2, <2>8
      <4> QED
        BY <2>6, <4>1
    <3>2. h[y] = PushBody(g, y) /\ y \in Relations
      OBVIOUS
    <3>3. LowerRelations(g, height, height[y])
      <4>1. height[y] \in Nat /\ height[y] <= m - 1
        BY <1>1, <2>2, <2>8
      <4> QED
        BY <1>4, <2>4, <2>7, <4>1
    <3> HIDE DEF h
    <3>4. PushBody(h, y) = PushBody(g, y)
      BY <3>1, <3>2, <3>3, PushStep
    <3> QED
      BY <3>2, <3>4
  <2>9. h = [y \in Below(m) |-> h[y]]
    OBVIOUS
  <2> HIDE DEF h
  <2>10. Upto(m, h)
    BY <2>8, <2>9
  <2> QED
    BY <2>2, <2>10
<1> DEFINE At(y) == CHOOSE g : Upto(height[y] + 1, g)
           f == [y \in Relations |-> At(y)[y]]
<1>7. ASSUME NEW y \in Relations PROVE Upto(height[y] + 1, At(y))
  <2> HIDE DEF Upto
  <2>0. height[y] + 1 \in Nat
    BY <1>1
  <2>1. \E g : Upto(height[y] + 1, g)
    BY <1>6, <2>0
  <2> QED
    BY <2>1
<1>8. ASSUME NEW y \in Relations PROVE f[y] = PushBody(f, y)
  <2>1. y \in Below(height[y] + 1) /\ height[y] + 1 \in Nat
    BY <1>1
  <2>2. At(y)[y] = PushBody(At(y), y) /\ LowerRelations(At(y), height, height[y] + 1)
    <3> HIDE DEF At, Below, Upto
    <3>1. Upto(height[y] + 1, At(y))
      BY <1>7
    <3> QED
      BY <1>2, <1>3, <2>1, <3>1
  <2>3. \A z \in Relations : height[z] < height[y] => f[z] = At(y)[z]
    <3> SUFFICES ASSUME NEW z \in Relations, height[z] < height[y] PROVE f[z] = At(y)[z]
      OBVIOUS
    <3>1. z \in Below(height[z] + 1) /\ height[z] + 1 \in Nat /\ height[y] + 1 \in Nat /\ height[z] + 1 <= height[y] + 1
      BY <1>1
    <3>2. f[z] = At(z)[z]
      OBVIOUS
    <3> HIDE DEF At, f, Below, Upto
    <3>3. Upto(height[z] + 1, At(z)) /\ Upto(height[y] + 1, At(y))
      BY <1>7
    <3>4. At(z)[z] = At(y)[z]
      BY <1>5, <3>1, <3>3
    <3> QED
      BY <3>2, <3>4
  <2>4. f[y] = At(y)[y]
    OBVIOUS
  <2> HIDE DEF At, f
  <2>5. LowerRelations(At(y), height, height[y])
    BY <1>1, <1>4, <2>1, <2>2
  <2>6. PushBody(f, y) = PushBody(At(y), y)
    BY <2>3, <2>5, PushStep
  <2> QED
    BY <2>2, <2>4, <2>6
<1>9. f = [y \in Relations |-> PushBody(f, y)]
  <2>1. f = [y \in Relations |-> f[y]]
    OBVIOUS
  <2> HIDE DEF f
  <2> QED
    BY <1>8, <2>1
<1> HIDE DEF f
<1> DEFINE whole == CHOOSE g : g = [y \in Relations |-> PushBody(g, y)]
<1>10. \A y : PushdownPredicates(y) = whole[y]
  BY DEF PushdownPredicates, PushBody, PushedInputs
<1>11. whole = [y \in Relations |-> PushBody(whole, y)]
  BY <1>9
<1> HIDE DEF whole
<1>12. \A y \in Relations : whole[y] = PushBody(whole, y)
  BY <1>11
<1>13. LowerRelations(whole, height, height[x] + 1)
  BY <1>1, <1>2, <1>12
<1>14. LowerRelations(whole, height, height[x])
  BY <1>1, <1>4, <1>13
<1>15. PushedDown(x) = PushedInputs(whole, x)
  BY <1>10 DEF PushedDown, PushedInputs
<1> DEFINE ins == PushedInputs(whole, x)
           q == ins[1]
<1>16. whole[x] = IF IsPushed(x, q) THEN Project(whole[Pushed(x, q)], q.exprs) ELSE WithInputs(x, ins)
  BY <1>12 DEF PushBody
<1>17. /\ PushBody(whole, x) \in Relations /\ height[PushBody(whole, x)] <= height[x]
       /\ ins \in Seq(Relations) /\ Len(ins) = Len(Inputs(x))
       /\ IsPushed(x, q) => q \in Relations /\ height[Pushed(x, q)] < height[x]
  BY <1>14, PushStep
<1> HIDE DEF ins
<1> QED
  BY <1>10, <1>12, <1>15, <1>16, <1>17 DEF ins

------------------------------------------------------------------------------
\* What the passes leave alone.

\* The first pass leaves alone what is not a right join, if it leaves the inputs alone.
LEMMA LeftNormal ==
    ASSUME NEW leaves, NEW rank, NEW height, FiniteTrees(leaves, rank, height), NEW y \in Relations,
           ~IsRightJoin(y), \A i \in DOMAIN Inputs(y) : NormalizeRightJoins(Inputs(y)[i]) = Inputs(y)[i]
    PROVE  NormalizeRightJoins(y) = y
<1>1. Inputs(y) \in Seq(Relations) /\ WithInputs(y, Inputs(y)) = y
  BY InputsAre DEF WellMade
<1>2. NormalInputs(y) = Inputs(y)
  BY <1>1 DEF NormalInputs
<1> QED
  BY <1>1, <1>2, NormalIs

\* It leaves nothing else alone.
LEMMA NormalInside ==
    ASSUME NEW leaves, NEW rank, NEW height, FiniteTrees(leaves, rank, height), NEW y \in Relations,
           NormalizeRightJoins(y) = y
    PROVE  ~IsRightJoin(y) /\ \A i \in DOMAIN Inputs(y) : NormalizeRightJoins(Inputs(y)[i]) = Inputs(y)[i]
<1> DEFINE ins == NormalInputs(y)
<1>1. WellMade(y) /\ Inputs(y) \in Seq(Relations)
  BY InputsAre DEF WellMade
<1>2. \A i \in DOMAIN Inputs(y) : NormalizeRightJoins(Inputs(y)[i]) \in Relations
  BY InputsAre, NormalIsRelation
<1>3. ins \in Seq(Relations) /\ Len(ins) = Len(Inputs(y))
  BY <1>1, <1>2 DEF NormalInputs
<1>4. y = IF IsRightJoin(y) THEN Swapped(y, ins[1], ins[2]) ELSE WithInputs(y, ins)
  BY NormalIs
<1>5. ~IsRightJoin(y)
  <2> SUFFICES ASSUME IsRightJoin(y) PROVE FALSE
    OBVIOUS
  <2> HIDE DEF ins
  <2> DEFINE type == RightJoins[y.type]
             j == Join(ins[2], ins[1], SwapJoinOn(y.on), type)
  <2>1. Len(Inputs(y)) = 2
    BY <1>1 DEF WellMade, IsRightJoin, Arity
  <2>2. ins[1] \in Relations /\ ins[2] \in Relations
    <3>1. 1 \in DOMAIN ins /\ 2 \in DOMAIN ins
      BY <1>3, <2>1
    <3> QED
      BY <1>3, <3>1
  <2>3. type \in {"Left", "LeftSemi", "LeftAnti"}
    BY <2>2, SwappedIs
  <2> HIDE DEF type
  <2>4. j.type = type /\ j.op = "Join"
    BY OfJoin
  <2>5. y = j \/ y.op = "Project"
    <3>1. \A es : Project(j, es).op = "Project"
      BY OfProject
    <3> QED
      BY <1>4, <3>1 DEF Swapped, type
  <2> HIDE DEF j
  <2> QED
    BY <2>3, <2>4, <2>5 DEF IsRightJoin, RightJoins
<1> HIDE DEF ins
<1>6. Inputs(y) = ins
  BY <1>3, <1>4, <1>5, Rebuilt
<1> QED
  BY <1>5, <1>6 DEF ins, NormalInputs

\* There is nothing left for the first pass to do.
LEMMA NormalIsNormal ==
    ASSUME NEW leaves, NEW rank, NEW height, FiniteTrees(leaves, rank, height)
    PROVE  \A x \in Relations : NormalizeRightJoins(NormalizeRightJoins(x)) = NormalizeRightJoins(x)
<1> DEFINE S == {x \in Relations : NormalizeRightJoins(NormalizeRightJoins(x)) = NormalizeRightJoins(x)}
<1>1. ASSUME NEW x \in Relations, \A y \in Relations : height[y] < height[x] => y \in S
      PROVE  x \in S
  <2> DEFINE ins == NormalInputs(x)
  <2>1. WellMade(x) /\ Inputs(x) \in Seq(Relations)
    BY InputsAre DEF WellMade
  <2>2. \A i \in DOMAIN Inputs(x) : NormalizeRightJoins(Inputs(x)[i]) \in Relations
    BY InputsAre, NormalIsRelation
  <2>3. ins \in Seq(Relations) /\ Len(ins) = Len(Inputs(x))
    BY <2>1, <2>2 DEF NormalInputs
  <2>4. \A i \in DOMAIN ins : NormalizeRightJoins(ins[i]) = ins[i]
    BY <1>1, InputsAre DEF NormalInputs
  <2>5. NormalizeRightJoins(x) = IF IsRightJoin(x) THEN Swapped(x, ins[1], ins[2]) ELSE WithInputs(x, ins)
    BY NormalIs
  <2> HIDE DEF ins
  <2>6. CASE ~IsRightJoin(x)
    <3> DEFINE s == WithInputs(x, ins)
    <3>1. s \in Relations /\ Alike(x, s) /\ Inputs(s) = ins
      BY <2>3, Rebuilt
    <3> HIDE DEF s
    <3>2. ~IsRightJoin(s)
      BY <2>6, <3>1 DEF Alike, IsRightJoin
    <3>3. NormalizeRightJoins(s) = s
      BY <2>4, <3>1, <3>2, LeftNormal
    <3> QED
      BY <2>5, <2>6, <3>3 DEF s
  <2>7. CASE IsRightJoin(x)
    <3> DEFINE type == RightJoins[x.type]
               on == SwapJoinOn(x.on)
               l == ins[2]
               r == ins[1]
               j == Join(l, r, on, type)
               es == ReorderColumns(Width(x.left), Width(x.right))
               s == Project(j, es)
    <3>1. Len(Inputs(x)) = 2
      BY <2>1, <2>7 DEF WellMade, IsRightJoin, Arity
    <3>2. 1 \in DOMAIN ins /\ 2 \in DOMAIN ins /\ ins[1] \in Relations /\ ins[2] \in Relations
      BY <2>3, <3>1
    <3>3. type \in {"Left", "LeftSemi", "LeftAnti"} /\ j \in Relations /\ es \in Seq(Expressions)
      BY <2>7, <3>2, SwappedIs
    <3>4. NormalizeRightJoins(l) = l /\ NormalizeRightJoins(r) = r
      BY <2>4, <3>2
    <3>5. NormalizeRightJoins(x) = j \/ NormalizeRightJoins(x) = s
      BY <2>5, <2>7 DEF Swapped, ColumnCount
    <3> HIDE DEF type, on, l, r, es
    <3>6. j.type = type /\ Inputs(j) = <<l, r>>
      BY OfJoin
    <3>7. s \in Relations /\ s.op = "Project" /\ Inputs(s) = <<j>>
      BY <3>3, Closed, OfProject
    <3> HIDE DEF j, s
    <3>8. ~IsRightJoin(j) /\ ~IsRightJoin(s)
      BY <3>3, <3>6, <3>7 DEF IsRightJoin, RightJoins
    <3>9. \A i \in DOMAIN Inputs(j) : NormalizeRightJoins(Inputs(j)[i]) = Inputs(j)[i]
      <4>1. \A i \in DOMAIN Inputs(j) : Inputs(j)[i] = l \/ Inputs(j)[i] = r
        BY <3>6
      <4> QED
        BY <3>4, <4>1
    <3>10. NormalizeRightJoins(j) = j
      BY <3>3, <3>8, <3>9, LeftNormal
    <3>11. \A i \in DOMAIN Inputs(s) : Inputs(s)[i] = j
      BY <3>7
    <3>12. NormalizeRightJoins(s) = s
      BY <3>7, <3>8, <3>10, <3>11, LeftNormal
    <3> QED
      BY <3>5, <3>10, <3>12
  <2> QED
    BY <2>6, <2>7
<1> HIDE DEF S
<1>2. \A x \in Relations : x \in S
  BY <1>1, RelationInduction
<1> QED
  BY <1>2 DEF S

\* The second pass makes nothing for the first to do.
LEMMA PushedIsNormal ==
    ASSUME NEW leaves, NEW rank, NEW height, FiniteTrees(leaves, rank, height)
    PROVE  \A y \in Relations : NormalizeRightJoins(y) = y =>
               NormalizeRightJoins(PushdownPredicates(y)) = PushdownPredicates(y)
<1> DEFINE Stays(y) == NormalizeRightJoins(y) = y =>
                           NormalizeRightJoins(PushdownPredicates(y)) = PushdownPredicates(y)
           S == {y \in Relations : Stays(y)}
<1>1. ASSUME NEW x \in Relations, \A y \in Relations : height[y] < height[x] => y \in S
      PROVE  x \in S
  <2> SUFFICES ASSUME NormalizeRightJoins(x) = x
               PROVE  NormalizeRightJoins(PushdownPredicates(x)) = PushdownPredicates(x)
    OBVIOUS
  <2> DEFINE ins == PushedDown(x)
             q == ins[1]
             p == Pushed(x, q)
  <2>1. ~IsRightJoin(x) /\ \A i \in DOMAIN Inputs(x) : NormalizeRightJoins(Inputs(x)[i]) = Inputs(x)[i]
    BY NormalInside
  <2>2. \A i \in DOMAIN ins : NormalizeRightJoins(ins[i]) = ins[i]
    <3> SUFFICES ASSUME NEW i \in DOMAIN Inputs(x)
                 PROVE  NormalizeRightJoins(PushdownPredicates(Inputs(x)[i])) = PushdownPredicates(Inputs(x)[i])
      BY DEF PushedDown
    <3>1. Inputs(x)[i] \in S
      BY <1>1, InputsAre
    <3> QED
      BY <2>1, <3>1
  <2>3. /\ ins \in Seq(Relations) /\ Len(ins) = Len(Inputs(x))
        /\ ~IsPushed(x, q) => PushdownPredicates(x) = WithInputs(x, ins)
        /\ IsPushed(x, q) => q \in Relations /\ height[p] < height[x]
                             /\ PushdownPredicates(x) = Project(PushdownPredicates(p), q.exprs)
    BY PushIs
  <2> HIDE DEF ins
  <2>4. CASE ~IsPushed(x, q)
    <3> DEFINE s == WithInputs(x, ins)
    <3>1. s \in Relations /\ Alike(x, s) /\ Inputs(s) = ins
      BY <2>3, Rebuilt
    <3> HIDE DEF s
    <3>2. ~IsRightJoin(s)
      BY <2>1, <3>1 DEF Alike, IsRightJoin
    <3>3. NormalizeRightJoins(s) = s
      BY <2>2, <3>1, <3>2, LeftNormal
    <3> QED
      BY <2>3, <2>4, <3>3 DEF s
  <2>5. CASE IsPushed(x, q)
    <3>0. x.op \in {"Filter", "Sort"}
      BY <2>5 DEF IsPushed
    <3>1. Inputs(x) = <<x.input>>
      BY <3>0, InputsAre DEF WellMade
    <3>2. 1 \in DOMAIN ins
      BY <2>3, <3>1
    <3>3. NormalizeRightJoins(q) = q
      BY <2>2, <3>2
    <3> HIDE DEF q
    <3>4. /\ q.input \in Relations /\ q.exprs \in Seq(Expressions) /\ q.op = "Project"
          /\ p \in Relations /\ p.op = x.op /\ Inputs(p) = <<q.input>>
      BY <2>3, <2>5, PushedIs
    <3>5. NormalizeRightJoins(q.input) = q.input
      <4>1. Inputs(q) = <<q.input>>
        BY <2>3, <2>5, <3>4, InputsAre DEF WellMade
      <4>2. 1 \in DOMAIN Inputs(q) /\ Inputs(q)[1] = q.input
        BY <4>1
      <4> QED
        BY <2>3, <2>5, <3>3, <4>2, NormalInside
    <3> HIDE DEF p
    <3>6. ~IsRightJoin(p) /\ \A i \in DOMAIN Inputs(p) : Inputs(p)[i] = q.input
      BY <3>0, <3>4 DEF IsRightJoin
    <3>7. NormalizeRightJoins(p) = p
      BY <3>4, <3>5, <3>6, LeftNormal
    <3> DEFINE u == PushdownPredicates(p)
               s == Project(u, q.exprs)
    <3>8. NormalizeRightJoins(u) = u
      <4>1. p \in S
        BY <1>1, <2>3, <2>5, <3>4
      <4> QED
        BY <3>7, <4>1
    <3>9. u \in Relations
      BY <3>4, PushIs
    <3> HIDE DEF u
    <3>10. s \in Relations /\ s.op = "Project" /\ Inputs(s) = <<u>>
      BY <3>4, <3>9, Closed, OfProject
    <3> HIDE DEF s
    <3>11. ~IsRightJoin(s) /\ \A i \in DOMAIN Inputs(s) : Inputs(s)[i] = u
      BY <3>10 DEF IsRightJoin
    <3>12. NormalizeRightJoins(s) = s
      BY <3>8, <3>10, <3>11, LeftNormal
    <3> QED
      BY <2>3, <2>5, <3>12 DEF s, u
  <2> QED
    BY <2>4, <2>5
<1> HIDE DEF S
<1>2. \A x \in Relations : x \in S
  BY <1>1, RelationInduction
<1> QED
  BY <1>2 DEF S

\* There is nothing left for the second pass to do.
LEMMA PushedIsPushed ==
    ASSUME NEW leaves, NEW rank, NEW height, FiniteTrees(leaves, rank, height)
    PROVE  \A x \in Relations : PushdownPredicates(PushdownPredicates(x)) = PushdownPredicates(x)
<1> DEFINE S == {x \in Relations : PushdownPredicates(PushdownPredicates(x)) = PushdownPredicates(x)}
<1>1. ASSUME NEW y \in Relations, ~IsPushed(y, Inputs(y)[1]),
             \A i \in DOMAIN Inputs(y) : PushdownPredicates(Inputs(y)[i]) = Inputs(y)[i]
      PROVE  PushdownPredicates(y) = y
  <2>1. Inputs(y) \in Seq(Relations) /\ WithInputs(y, Inputs(y)) = y
    BY InputsAre DEF WellMade
  <2>2. PushedDown(y) = Inputs(y)
    BY <1>1, <2>1 DEF PushedDown
  <2> QED
    BY <1>1, <2>1, <2>2, PushIs
<1>2. ASSUME NEW x \in Relations, \A y \in Relations : height[y] < height[x] => y \in S
      PROVE  x \in S
  <2> DEFINE ins == PushedDown(x)
             q == ins[1]
             p == Pushed(x, q)
  <2>1. /\ ins \in Seq(Relations) /\ Len(ins) = Len(Inputs(x))
        /\ ~IsPushed(x, q) => PushdownPredicates(x) = WithInputs(x, ins)
        /\ IsPushed(x, q) => q \in Relations /\ height[p] < height[x]
                             /\ PushdownPredicates(x) = Project(PushdownPredicates(p), q.exprs)
    BY PushIs
  <2>2. \A i \in DOMAIN ins : PushdownPredicates(ins[i]) = ins[i]
    <3> SUFFICES ASSUME NEW i \in DOMAIN Inputs(x)
                 PROVE  PushdownPredicates(PushdownPredicates(Inputs(x)[i])) = PushdownPredicates(Inputs(x)[i])
      BY DEF PushedDown
    <3>1. Inputs(x)[i] \in S
      BY <1>2, InputsAre
    <3> QED
      BY <3>1
  <2> HIDE DEF ins
  <2>3. CASE ~IsPushed(x, q)
    <3> DEFINE s == WithInputs(x, ins)
    <3>1. s \in Relations /\ Alike(x, s) /\ Inputs(s) = ins
      BY <2>1, Rebuilt
    <3> HIDE DEF s
    <3>2. ~IsPushed(s, q)
      BY <2>3, <3>1 DEF Alike, IsPushed, CanPush
    <3>3. PushdownPredicates(s) = s
      BY <1>1, <2>2, <3>1, <3>2
    <3> QED
      BY <2>1, <2>3, <3>3 DEF s
  <2>4. CASE IsPushed(x, q)
    <3> HIDE DEF q
    <3>1. q.exprs \in Seq(Expressions) /\ p \in Relations
      BY <2>1, <2>4, PushedIs
    <3> HIDE DEF p
    <3> DEFINE u == PushdownPredicates(p)
               s == Project(u, q.exprs)
    <3>2. u \in Relations
      BY <3>1, PushIs
    <3>3. PushdownPredicates(u) = u
      <4>1. p \in S
        BY <1>2, <2>1, <2>4, <3>1
      <4> QED
        BY <4>1
    <3> HIDE DEF u
    <3>4. s \in Relations /\ s.op = "Project" /\ Inputs(s) = <<u>>
      BY <3>1, <3>2, Closed, OfProject
    <3> HIDE DEF s
    <3>5. \A i \in DOMAIN Inputs(s) : Inputs(s)[i] = u
      BY <3>4
    <3>6. ~IsPushed(s, Inputs(s)[1])
      BY <3>4 DEF IsPushed
    <3>7. PushdownPredicates(s) = s
      BY <1>1, <3>3, <3>4, <3>5, <3>6
    <3> QED
      BY <2>1, <2>4, <3>7 DEF s, u
  <2> QED
    BY <2>3, <2>4
<1> HIDE DEF S
<1>3. \A x \in Relations : x \in S
  BY <1>2, RelationInduction
<1> QED
  BY <1>3 DEF S

------------------------------------------------------------------------------
\* A request, after each pass

\* What the passes made of it so far is a relation, and each pass that is over has nothing left to do.
Progress ==
    /\ request \in Relations /\ relation \in Relations
    /\ pc # "normalize" => NormalizeRightJoins(relation) = relation
    /\ pc \notin {"normalize", "pushdown"} => PushdownPredicates(relation) = relation

\* That is what every step keeps.
LEMMA ProgressInvariant ==
    ASSUME NEW leaves, NEW rank, NEW height, FiniteTrees(leaves, rank, height)
    PROVE  PassesSpec => []Progress
<1>1. PassesInit => Progress
  BY RequestsAssumption DEF PassesInit, Progress
<1>2. Progress /\ [PassesNext]_passes => Progress'
  <2> SUFFICES ASSUME Progress, [PassesNext]_passes PROVE Progress'
    OBVIOUS
  <2>1. CASE NormalizeRelation
    <3>1. relation' \in Relations /\ NormalizeRightJoins(relation') = relation'
      BY <2>1, NormalIsRelation, NormalIsNormal DEF NormalizeRelation, Progress
    <3> QED
      BY <2>1, <3>1 DEF NormalizeRelation, Progress
  <2>2. CASE PushdownRelation
    <3>0. relation \in Relations /\ NormalizeRightJoins(relation) = relation /\ relation' = PushdownPredicates(relation)
      BY <2>2 DEF PushdownRelation, Progress
    <3>1. relation' \in Relations /\ PushdownPredicates(relation') = relation'
      BY <3>0, PushIs, PushedIsPushed
    <3>2. NormalizeRightJoins(relation') = relation'
      BY <3>0, PushedIsNormal
    <3> QED
      BY <2>2, <3>1, <3>2 DEF PushdownRelation, Progress
  <2>3. CASE \E step \in LaterSteps : Proceed(step)
    BY <2>3 DEF Proceed, LaterSteps, Progress
  <2>4. CASE UNCHANGED passes
    BY <2>4 DEF passes, Progress
  <2> QED
    BY <2>1, <2>2, <2>3, <2>4 DEF PassesNext
<1> QED
  BY <1>1, <1>2, PTL DEF PassesSpec

\* After normalize_right_joins and pushdown_predicates, in that order and once each, no right join
\* is left in the relation of any request, and no filter or sort that pushdown_predicates could take
\* further down: the second pass brings no right join back, and goes on below a projection with what
\* it has pushed there.
THEOREM PassesAreCompleteAlways ==
    ASSUME NEW leaves, NEW rank, NEW height, FiniteTrees(leaves, rank, height)
    PROVE  PassesSpec => []PassesAreComplete
<1>1. Progress => PassesAreComplete
  BY DEF Progress, PassesAreComplete
<1> QED
  BY <1>1, ProgressInvariant, PTL

------------------------------------------------------------------------------
\* The number of columns, which neither pass changes

\* It is the same for relations that differ in nothing but inputs, which have as many columns.
LEMMA SameWidth ==
    ASSUME NEW leaves, NEW rank, NEW height, FiniteTrees(leaves, rank, height),
           NEW r \in Relations, NEW s \in Relations, Alike(r, s), Widths(s) = Widths(r)
    PROVE  Width(s) = Width(r)
<1> DEFINE v == Widths(r)
<1>1. Width(s) = Made("width", Null, s, v) /\ Width(r) = Made("width", Null, r, v)
  BY WidthIs
<1> HIDE DEF v
<1>2. Made("width", Null, s, v) = Made("width", Null, r, v)
  BY DEF Made, Alike
<1> QED
  BY <1>1, <1>2

\* The number of columns, by the operation
LEMMA WidthOf ==
    ASSUME NEW leaves, NEW rank, NEW height, FiniteTrees(leaves, rank, height), NEW r \in Relations
    PROVE  /\ r.op = "From" => Width(r) = Len(r.columns)
           /\ r.op \in {"Filter", "Sort", "Paginate"} => Width(r) = Width(Inputs(r)[1])
           /\ r.op = "Project" => Width(r) = Len(r.exprs)
           /\ r.op = "Aggregate" => Width(r) = Len(r.group_by) + Len(r.aggregates)
           /\ r.op = "Window" => Width(r) = Width(Inputs(r)[1]) + Len(r.exprs)
           /\ r.op = "Join" => Width(r) = IF r.type \in {"LeftSemi", "LeftAnti"} THEN Width(Inputs(r)[1])
                                          ELSE IF r.type \in {"RightSemi", "RightAnti"} THEN Width(Inputs(r)[2])
                                          ELSE Width(Inputs(r)[1]) + Width(Inputs(r)[2])
<1> DEFINE v == Widths(r)
<1>1. Width(r) = Made("width", Null, r, v)
  BY WidthIs
<1>2. WellMade(r)
  BY InputsAre
<1>3. r.op \in {"Filter", "Sort", "Paginate", "Window", "Join"} => v[1] = Width(Inputs(r)[1])
  <2> SUFFICES ASSUME r.op \in {"Filter", "Sort", "Paginate", "Window", "Join"} PROVE 1 \in DOMAIN Inputs(r)
    BY DEF Widths
  <2>1. Inputs(r) = <<r.input>> \/ Inputs(r) = <<r.left, r.right>>
    BY <1>2 DEF WellMade
  <2> QED
    BY <2>1
<1>4. r.op = "Join" => v[2] = Width(Inputs(r)[2])
  <2> SUFFICES ASSUME r.op = "Join" PROVE 2 \in DOMAIN Inputs(r)
    BY DEF Widths
  <2>1. Inputs(r) = <<r.left, r.right>>
    BY <1>2 DEF WellMade
  <2> QED
    BY <2>1
<1> HIDE DEF v
<1> QED
  BY <1>1, <1>3, <1>4 DEF Made

\* The first pass keeps it.
LEMMA NormalWidth ==
    ASSUME NEW leaves, NEW rank, NEW height, FiniteTrees(leaves, rank, height)
    PROVE  \A r \in Relations : Width(NormalizeRightJoins(r)) = Width(r)
<1> DEFINE S == {r \in Relations : Width(NormalizeRightJoins(r)) = Width(r)}
<1>1. ASSUME NEW r \in Relations, \A x \in Relations : height[x] < height[r] => x \in S
      PROVE  r \in S
  <2> DEFINE ins == NormalInputs(r)
  <2>1. WellMade(r) /\ Inputs(r) \in Seq(Relations)
    BY InputsAre DEF WellMade
  <2>2. \A i \in DOMAIN Inputs(r) : NormalizeRightJoins(Inputs(r)[i]) \in Relations
    BY InputsAre, NormalIsRelation
  <2>3. ins \in Seq(Relations) /\ Len(ins) = Len(Inputs(r)) /\ DOMAIN ins = DOMAIN Inputs(r)
    BY <2>1, <2>2 DEF NormalInputs
  <2>4. \A i \in DOMAIN Inputs(r) : Width(ins[i]) = Width(Inputs(r)[i])
    BY <1>1, InputsAre DEF NormalInputs
  <2>5. NormalizeRightJoins(r) = IF IsRightJoin(r) THEN Swapped(r, ins[1], ins[2]) ELSE WithInputs(r, ins)
    BY NormalIs
  <2> HIDE DEF ins
  <2>6. CASE ~IsRightJoin(r)
    <3> DEFINE s == WithInputs(r, ins)
    <3>1. s \in Relations /\ Alike(r, s) /\ Inputs(s) = ins
      BY <2>3, Rebuilt
    <3> HIDE DEF s
    <3>2. Widths(s) = Widths(r)
      BY <2>3, <2>4, <3>1 DEF Widths
    <3>3. Width(s) = Width(r)
      BY <3>1, <3>2, SameWidth
    <3> QED
      BY <2>5, <2>6, <3>3 DEF s
  <2>7. CASE IsRightJoin(r)
    <3> DEFINE type == RightJoins[r.type]
               on == SwapJoinOn(r.on)
               x == ins[2]
               y == ins[1]
               j == Join(x, y, on, type)
               m == Width(r.left)
               n == Width(r.right)
               s == Project(j, ReorderColumns(m, n))
    <3>1. r.op = "Join" /\ Inputs(r) = <<r.left, r.right>> /\ r.left \in Relations /\ r.right \in Relations
      BY <2>1, <2>7, ByOp DEF IsRightJoin, WellMade, IsJoin
    <3>2. Len(Inputs(r)) = 2 /\ 1 \in DOMAIN Inputs(r) /\ 2 \in DOMAIN Inputs(r)
      BY <3>1
    <3>3. x \in Relations /\ y \in Relations /\ Width(y) = m /\ Width(x) = n
      <4>1. 1 \in DOMAIN ins /\ 2 \in DOMAIN ins
        BY <2>3, <3>2
      <4>2. x \in Relations /\ y \in Relations
        BY <2>3, <4>1
      <4>3. Width(y) = Width(Inputs(r)[1]) /\ Width(x) = Width(Inputs(r)[2])
        BY <2>4, <3>2
      <4>4. Inputs(r)[1] = r.left /\ Inputs(r)[2] = r.right
        BY <3>1
      <4> QED
        BY <4>2, <4>3, <4>4
    <3>4. /\ r.type \in {"Right", "RightSemi", "RightAnti"}
          /\ r.type = "Right" => type = "Left"
          /\ r.type = "RightSemi" => type = "LeftSemi"
          /\ r.type = "RightAnti" => type = "LeftAnti"
          /\ j \in Relations /\ ReorderColumns(m, n) \in Seq(Expressions)
      BY <2>7, <3>3, SwappedIs
    <3>5. m \in Nat /\ n \in Nat
      BY <3>1, WidthIsNat
    <3>6. Len(ReorderColumns(m, n)) = m + n
      BY <3>5, ReorderedIs
    <3>7. NormalizeRightJoins(r) = IF r.type # "Right" THEN j ELSE s
      BY <2>5, <2>7 DEF Swapped, ColumnCount
    <3>8. Width(r) = IF r.type = "Right" THEN m + n ELSE n
      <4>1. Inputs(r)[1] = r.left /\ Inputs(r)[2] = r.right
        BY <3>1
      <4>2. Width(r) = IF r.type \in {"LeftSemi", "LeftAnti"} THEN Width(Inputs(r)[1])
                       ELSE IF r.type \in {"RightSemi", "RightAnti"} THEN Width(Inputs(r)[2])
                       ELSE Width(Inputs(r)[1]) + Width(Inputs(r)[2])
        BY <3>1, WidthOf
      <4> QED
        BY <3>4, <4>1, <4>2
    <3> HIDE DEF type, on, x, y, m, n
    <3>9. j.op = "Join" /\ j.type = type /\ Inputs(j) = <<x, y>>
      BY OfJoin
    <3>10. s \in Relations /\ s.op = "Project" /\ s.exprs = ReorderColumns(m, n)
      BY <3>4, Closed, OfProject
    <3> HIDE DEF j, s
    <3>11. r.type # "Right" => Width(j) = n
      <4>1. Inputs(j)[1] = x
        BY <3>9
      <4> QED
        BY <3>3, <3>4, <3>9, <4>1, WidthOf
    <3>12. Width(s) = m + n
      BY <3>6, <3>10, WidthOf
    <3> QED
      BY <3>7, <3>8, <3>11, <3>12
  <2> QED
    BY <2>6, <2>7
<1> HIDE DEF S
<1>2. \A r \in Relations : r \in S
  BY <1>1, RelationInduction
<1> QED
  BY <1>2 DEF S

\* So does the second.
LEMMA PushedWidth ==
    ASSUME NEW leaves, NEW rank, NEW height, FiniteTrees(leaves, rank, height)
    PROVE  \A r \in Relations : Width(PushdownPredicates(r)) = Width(r)
<1> DEFINE S == {r \in Relations : Width(PushdownPredicates(r)) = Width(r)}
<1>1. ASSUME NEW r \in Relations, \A x \in Relations : height[x] < height[r] => x \in S
      PROVE  r \in S
  <2> DEFINE ins == PushedDown(r)
             q == ins[1]
             p == Pushed(r, q)
  <2>1. /\ ins \in Seq(Relations) /\ Len(ins) = Len(Inputs(r))
        /\ ~IsPushed(r, q) => PushdownPredicates(r) = WithInputs(r, ins)
        /\ IsPushed(r, q) => q \in Relations /\ height[p] < height[r]
                             /\ PushdownPredicates(r) = Project(PushdownPredicates(p), q.exprs)
    BY PushIs
  <2>2. \A i \in DOMAIN Inputs(r) : Width(ins[i]) = Width(Inputs(r)[i])
    BY <1>1, InputsAre DEF PushedDown
  <2>3. DOMAIN ins = DOMAIN Inputs(r)
    BY DEF PushedDown
  <2> HIDE DEF ins
  <2>4. CASE ~IsPushed(r, q)
    <3> DEFINE s == WithInputs(r, ins)
    <3>1. s \in Relations /\ Alike(r, s) /\ Inputs(s) = ins
      BY <2>1, Rebuilt
    <3> HIDE DEF s
    <3>2. Widths(s) = Widths(r)
      BY <2>2, <2>3, <3>1 DEF Widths
    <3>3. Width(s) = Width(r)
      BY <3>1, <3>2, SameWidth
    <3> QED
      BY <2>1, <2>4, <3>3 DEF s
  <2>5. CASE IsPushed(r, q)
    <3>1. r.op \in {"Filter", "Sort"} /\ q.op = "Project"
      BY <2>5 DEF IsPushed
    <3>2. Inputs(r) = <<r.input>>
      BY <3>1, InputsAre DEF WellMade
    <3>3. 1 \in DOMAIN Inputs(r)
      BY <3>2
    <3>4. Width(r) = Width(q)
      BY <2>2, <3>1, <3>3, WidthOf
    <3> HIDE DEF q
    <3>5. Width(q) = Len(q.exprs)
      BY <2>1, <2>5, <3>1, WidthOf
    <3>6. q.exprs \in Seq(Expressions) /\ p \in Relations
      BY <2>1, <2>5, PushedIs
    <3> HIDE DEF p
    <3> DEFINE u == PushdownPredicates(p)
               s == Project(u, q.exprs)
    <3>7. u \in Relations
      BY <3>6, PushIs
    <3> HIDE DEF u
    <3>8. s \in Relations /\ s.op = "Project" /\ s.exprs = q.exprs
      BY <3>6, <3>7, Closed, OfProject
    <3> HIDE DEF s
    <3>9. Width(s) = Len(q.exprs)
      BY <3>8, WidthOf
    <3> QED
      BY <2>1, <2>5, <3>4, <3>5, <3>9 DEF s, u
  <2> QED
    BY <2>4, <2>5
<1> HIDE DEF S
<1>2. \A r \in Relations : r \in S
  BY <1>1, RelationInduction
<1> QED
  BY <1>2 DEF S

------------------------------------------------------------------------------
\* The rows of a relation, given those of its inputs

InputRows(r, d) == [i \in DOMAIN Inputs(r) |-> Rows(Inputs(r)[i], d)]

LEMMA RowsAre ==
    ASSUME NEW leaves, NEW rank, NEW height, FiniteTrees(leaves, rank, height), NEW r \in Relations, NEW d
    PROVE  Rows(r, d) = RowsFrom(r, InputRows(r, d), d)
<1> DEFINE Body(f, x) == RowsFrom(x, [i \in DOMAIN Inputs(x) |-> f[Inputs(x)[i]]], d)
           whole == CHOOSE f : f = [x \in Relations |-> Body(f, x)]
<1>1. \A x : Rows(x, d) = whole[x]
  BY DEF Rows
<1>2. PICK f : Defines("rows", d, Relations, f)
  BY RelationsFounded, Recursion
<1>3. \A x : Made("rows", d, x, Given("rows", x, f)) = Body(f, x)
  BY RelationsFounded DEF Made, Given
<1>4. f = [x \in Relations |-> Body(f, x)]
  <2> HIDE DEF Body
  <2> QED
    BY <1>2, <1>3 DEF Defines
<1>5. whole = [x \in Relations |-> Body(whole, x)]
  <2> HIDE DEF Body
  <2> QED
    BY <1>4
<1> HIDE DEF whole
<1>6. whole[r] = Body(whole, r)
  <2> HIDE DEF Body
  <2> QED
    BY <1>5
<1>7. InputRows(r, d) = [i \in DOMAIN Inputs(r) |-> whole[Inputs(r)[i]]]
  BY <1>1 DEF InputRows
<1> QED
  BY <1>1, <1>6, <1>7

\* Of relations that differ in nothing but inputs, which have the same columns, it is the same.
LEMMA SameRows ==
    ASSUME NEW leaves, NEW rank, NEW height, FiniteTrees(leaves, rank, height),
           NEW r \in Relations, NEW s, Alike(r, s), NEW v, NEW d,
           r.op = "Join" => Width(s.left) = Width(r.left) /\ Width(s.right) = Width(r.right)
    PROVE  RowsFrom(s, v, d) = RowsFrom(r, v, d)
<1>1. s.op = r.op
  BY DEF Alike
<1>2. CASE r.op = "From"
  BY <1>1, <1>2 DEF RowsFrom, Alike, SourceRows
<1>3. CASE r.op = "Filter"
  BY <1>1, <1>3 DEF RowsFrom, Alike
<1>4. CASE r.op = "Sort"
  BY <1>1, <1>4 DEF RowsFrom, Alike
<1>5. CASE r.op = "Paginate"
  BY <1>1, <1>5 DEF RowsFrom, Alike
<1>6. CASE r.op = "Project"
  BY <1>1, <1>6 DEF RowsFrom, Alike
<1>7. CASE r.op = "Window"
  BY <1>1, <1>7 DEF RowsFrom, Alike
<1>8. CASE r.op = "Aggregate"
  <2> DEFINE keys == [i \in DOMAIN v[1] |-> Values(r.group_by, v[1][i])]
  <2>1. s.group_by = r.group_by /\ s.aggregates = r.aggregates
    BY <1>8 DEF Alike
  <2>2. RowsFrom(r, v, d) = Grouped(r, v[1], keys)
    BY <1>8 DEF RowsFrom
  <2>3. RowsFrom(s, v, d) = Grouped(s, v[1], keys)
    BY <1>1, <1>8, <2>1 DEF RowsFrom
  <2> HIDE DEF keys
  <2>4. Grouped(s, v[1], keys) = Grouped(r, v[1], keys)
    BY <2>1 DEF Grouped
  <2> QED
    BY <2>2, <2>3, <2>4
<1>9. CASE r.op = "Union"
  BY <1>1, <1>9 DEF RowsFrom, Alike
<1>10. CASE r.op = "Join"
  <2>1. s.on = r.on /\ s.type = r.type
    BY <1>10 DEF Alike
  <2>2. RowsFrom(r, v, d) = JoinedRows(r.type, v[1], v[2], Matching(r.on, v[1], v[2]), Nulls(Width(r.left)), Nulls(Width(r.right)))
    BY <1>10 DEF RowsFrom
  <2>3. RowsFrom(s, v, d) = JoinedRows(s.type, v[1], v[2], Matching(s.on, v[1], v[2]), Nulls(Width(s.left)), Nulls(Width(s.right)))
    BY <1>1, <1>10 DEF RowsFrom
  <2>4. Width(s.left) = Width(r.left) /\ Width(s.right) = Width(r.right)
    BY <1>10
  <2> QED
    BY <2>1, <2>2, <2>3, <2>4
<1> QED
  BY <1>2, <1>3, <1>4, <1>5, <1>6, <1>7, <1>8, <1>9, <1>10, ByOp

------------------------------------------------------------------------------
\* Sequences of sequences, one after the other

\* Two sequences as long as each other, and each element of one with that of the other in Q
Paired(Q, s, t) == Len(t) = Len(s) /\ \A i \in 1..Len(s) : <<s[i], t[i]>> \in Q

\* So are two such sequences with two others behind them.
LEMMA ConcatPaired ==
    ASSUME NEW S, NEW T, NEW Q, NEW s \in Seq(S), NEW t \in Seq(T), NEW u \in Seq(S), NEW v \in Seq(T),
           Paired(Q, s, t), Paired(Q, u, v)
    PROVE  s \o u \in Seq(S) /\ t \o v \in Seq(T) /\ Paired(Q, s \o u, t \o v)
<1>1. s \o u \in Seq(S) /\ Len(s \o u) = Len(s) + Len(u)
  BY ConcatProperties
<1>2. t \o v \in Seq(T) /\ Len(t \o v) = Len(t) + Len(v)
  BY ConcatProperties
<1>3. /\ Len(t) = Len(s) /\ Len(v) = Len(u) /\ Len(s) \in Nat /\ Len(u) \in Nat
      /\ \A i \in 1..Len(s) : <<s[i], t[i]>> \in Q
      /\ \A i \in 1..Len(u) : <<u[i], v[i]>> \in Q
  BY DEF Paired
<1>4. ASSUME NEW i \in 1..(Len(s) + Len(u)) PROVE <<(s \o u)[i], (t \o v)[i]>> \in Q
  <2>1. CASE i <= Len(s)
    <3>1. (s \o u)[i] = s[i] /\ (t \o v)[i] = t[i]
      BY <1>3, <2>1
    <3>2. i \in 1..Len(s)
      BY <1>3, <2>1
    <3> QED
      BY <1>3, <3>1, <3>2
  <2>2. CASE ~(i <= Len(s))
    <3>1. (s \o u)[i] = u[i - Len(s)] /\ (t \o v)[i] = v[i - Len(s)]
      BY <1>3, <2>2
    <3>2. i - Len(s) \in 1..Len(u)
      BY <1>3, <2>2
    <3> QED
      BY <1>3, <3>1, <3>2
  <2> QED
    BY <2>1, <2>2
<1> QED
  BY <1>1, <1>2, <1>3, <1>4 DEF Paired

\* FlattenSeq puts one sequence after the other behind those it has so far.
LEMMA FlattenIs ==
    ASSUME NEW S, NEW seqs \in Seq(S), seqs # <<>>
    PROVE  \E f : /\ FlattenSeq(seqs) = f[Len(seqs)] /\ f[1] = seqs[1]
                  /\ \A i \in 2..Len(seqs) : f[i] = f[i - 1] \o seqs[i]
<1> DEFINE n == Len(seqs)
           size == [i \in 1..n |-> i]
           Body(f, i) == IF i = 1 THEN seqs[i] ELSE f[i - 1] \o seqs[i]
           whole == CHOOSE f : f = [i \in 1..n |-> Body(f, i)]
<1>1. n \in Nat /\ n # 0
  BY EmptySeq
<1>2. Founded("flatten", 1..n, size)
  <2>1. size \in [1..n -> Nat]
    BY <1>1
  <2>2. ASSUME NEW x \in 1..n, NEW i \in DOMAIN Parts("flatten", x)
        PROVE  Parts("flatten", x)[i] \in 1..n /\ size[Parts("flatten", x)[i]] < size[x]
    <3>1. x # 1
      BY <2>2 DEF Parts
    <3>2. Parts("flatten", x) = <<x - 1>>
      BY <3>1 DEF Parts
    <3>3. Parts("flatten", x)[i] = x - 1
      BY <3>2
    <3>4. x - 1 \in 1..n /\ size[x - 1] = x - 1 /\ size[x] = x
      BY <1>1, <3>1
    <3> QED
      BY <1>1, <3>3, <3>4
  <2> HIDE DEF size
  <2> QED
    BY <2>1, <2>2 DEF Founded
<1>3. PICK f : Defines("flatten", seqs, 1..n, f)
  <2> HIDE DEF n, size
  <2> QED
    BY <1>2, Recursion
<1>4. ASSUME NEW i \in 1..n PROVE Made("flatten", seqs, i, Given("flatten", i, f)) = Body(f, i)
  <2>1. CASE i = 1
    BY <2>1 DEF Made
  <2>2. CASE i # 1
    <3>1. Parts("flatten", i) = <<i - 1>>
      BY <2>2 DEF Parts
    <3>2. Given("flatten", i, f)[1] = f[i - 1]
      BY <3>1 DEF Given
    <3> QED
      BY <2>2, <3>2 DEF Made
  <2> QED
    BY <2>1, <2>2
<1>5. f = [i \in 1..n |-> Body(f, i)]
  <2> HIDE DEF Body, n
  <2> QED
    BY <1>3, <1>4 DEF Defines
<1>6. whole = [i \in 1..n |-> Body(whole, i)]
  <2> HIDE DEF Body, n
  <2> QED
    BY <1>5
<1>7. FlattenSeq(seqs) = whole[n]
  BY <1>1 DEF FlattenSeq
<1> HIDE DEF whole
<1>8. \A i \in 1..n : whole[i] = Body(whole, i)
  <2> HIDE DEF Body, n
  <2> QED
    BY <1>6
<1>9. whole[1] = seqs[1]
  <2>1. 1 \in 1..n
    BY <1>1
  <2> QED
    BY <1>8, <2>1
<1>10. ASSUME NEW i \in 2..n PROVE whole[i] = whole[i - 1] \o seqs[i]
  <2>1. i \in 1..n /\ i # 1
    BY <1>1
  <2>2. Body(whole, i) = whole[i - 1] \o seqs[i]
    BY <2>1
  <2> HIDE DEF Body, n
  <2> QED
    BY <1>8, <2>1, <2>2
<1> QED
  BY <1>7, <1>9, <1>10

\* Two sequences of sequences that are paired become two sequences that are.
LEMMA FlattenPaired ==
    ASSUME NEW S, NEW T, NEW Q, NEW ss \in Seq(Seq(S)), NEW tt \in Seq(Seq(T)), Len(tt) = Len(ss),
           \A j \in 1..Len(ss) : Paired(Q, ss[j], tt[j])
    PROVE  FlattenSeq(ss) \in Seq(S) /\ FlattenSeq(tt) \in Seq(T) /\ Paired(Q, FlattenSeq(ss), FlattenSeq(tt))
<1> DEFINE n == Len(ss)
<1>0. n \in Nat /\ Len(tt) = n
  OBVIOUS
<1>1. CASE n = 0
  <2>1. ss = <<>> /\ tt = <<>>
    BY <1>1, EmptySeq
  <2>2. FlattenSeq(<< >>) = << >>
    BY DEF FlattenSeq
  <2>3. << >> \in Seq(S) /\ << >> \in Seq(T) /\ Len(<< >>) = 0
    OBVIOUS
  <2>4. Paired(Q, << >>, << >>)
    <3>1. \A i \in 1..0 : <<(<< >>)[i], (<< >>)[i]>> \in Q
      BY Z3
    <3> QED
      BY <2>3, <3>1 DEF Paired
  <2> QED
    BY <2>1, <2>2, <2>3, <2>4
<1>2. CASE n # 0
  <2>0. ss # <<>> /\ tt # <<>>
    BY <1>2
  <2>1. PICK f : FlattenSeq(ss) = f[n] /\ f[1] = ss[1] /\ \A i \in 2..n : f[i] = f[i - 1] \o ss[i]
    BY <2>0, FlattenIs
  <2>20. \E g : FlattenSeq(tt) = g[Len(tt)] /\ g[1] = tt[1] /\ \A i \in 2..Len(tt) : g[i] = g[i - 1] \o tt[i]
    BY <2>0, FlattenIs
  <2>2. PICK g : FlattenSeq(tt) = g[n] /\ g[1] = tt[1] /\ \A i \in 2..n : g[i] = g[i - 1] \o tt[i]
    BY <1>0, <2>20
  <2> DEFINE D == 1..n
             size == [i \in D |-> i]
             Good == {i \in D : f[i] \in Seq(S) /\ g[i] \in Seq(T) /\ Paired(Q, f[i], g[i])}
  <2>3. \A i \in D : ss[i] \in Seq(S) /\ tt[i] \in Seq(T) /\ Paired(Q, ss[i], tt[i])
    BY <1>0
  <2>4. ASSUME NEW x \in D, \A y \in D : size[y] < size[x] => y \in Good
        PROVE  x \in Good
    <3>1. CASE x = 1
      BY <2>1, <2>2, <2>3, <3>1
    <3>2. CASE x # 1
      <4>1. x - 1 \in D /\ size[x - 1] = x - 1 /\ size[x] = x /\ x \in 2..n
        BY <1>0, <3>2
      <4>2. x - 1 \in Good
        BY <1>0, <2>4, <4>1
      <4>3. f[x - 1] \in Seq(S) /\ g[x - 1] \in Seq(T) /\ Paired(Q, f[x - 1], g[x - 1])
        BY <4>2
      <4>4. f[x] = f[x - 1] \o ss[x] /\ g[x] = g[x - 1] \o tt[x]
        BY <2>1, <2>2, <4>1
      <4>5. ss[x] \in Seq(S) /\ tt[x] \in Seq(T) /\ Paired(Q, ss[x], tt[x])
        BY <2>3
      <4>6. f[x] \in Seq(S) /\ g[x] \in Seq(T) /\ Paired(Q, f[x], g[x])
        BY <4>3, <4>4, <4>5, ConcatPaired
      <4> QED
        BY <4>6
    <3> QED
      BY <3>1, <3>2
  <2>5. size \in [D -> Nat]
    BY <1>0
  <2> HIDE DEF D, size, Good
  <2>6. \A x \in D : x \in Good
    BY <2>4, <2>5, SizeInduction
  <2>7. n \in Good
    BY <1>0, <1>2, <2>6 DEF D
  <2> QED
    BY <2>1, <2>2, <2>7 DEF Good
<1> QED
  BY <1>1, <1>2

------------------------------------------------------------------------------
\* Lists of rows

IsList(s) == s \in Seq(ToSet(s))

\* A sequence of anything is one of what it holds.
LEMMA SequenceIsList ==
    ASSUME NEW S, NEW s \in Seq(S)
    PROVE  IsList(s) /\ ToSet(s) \subseteq S /\ DOMAIN s = 1..Len(s) /\ Len(s) \in Nat
<1>1. Len(s) \in Nat /\ s \in [1..Len(s) -> S] /\ DOMAIN s = 1..Len(s)
  BY LenProperties
<1>2. ToSet(s) = {s[i] : i \in 1..Len(s)}
  BY <1>1 DEF ToSet
<1> DEFINE T == ToSet(s)
<1>3. \A i \in 1..Len(s) : s[i] \in T
  BY <1>2
<1>4. ToSet(s) \subseteq S
  BY <1>1, <1>2
<1> HIDE DEF T
<1>5. s \in [1..Len(s) -> T]
  BY <1>1, <1>3
<1>6. s \in Seq(T)
  BY <1>1, <1>5, SeqDef
<1> QED
  BY <1>1, <1>4, <1>6 DEF IsList, T

\* The elements that are kept of a sequence, and of another as long as that, at the same places
LEMMA KeptPaired ==
    ASSUME NEW S, NEW T, NEW Q, NEW s \in Seq(S), NEW t \in Seq(T), Paired(Q, s, t), NEW places
    PROVE  Kept(s, places) \in Seq(S) /\ Kept(t, places) \in Seq(T) /\ Paired(Q, Kept(s, places), Kept(t, places))
<1> DEFINE n == Len(s)
           bit(i) == IF i \in places THEN <<s[i]>> ELSE <<>>
           tib(i) == IF i \in places THEN <<t[i]>> ELSE <<>>
           ss == [i \in 1..n |-> bit(i)]
           tt == [i \in 1..n |-> tib(i)]
<1>1. n \in Nat /\ DOMAIN s = 1..n /\ DOMAIN t = 1..n /\ \A i \in 1..n : s[i] \in S /\ t[i] \in T /\ <<s[i], t[i]>> \in Q
  BY DEF Paired
<1>2. Kept(s, places) = FlattenSeq(ss) /\ Kept(t, places) = FlattenSeq(tt)
  BY <1>1 DEF Kept
<1>3. ASSUME NEW i \in 1..n PROVE bit(i) \in Seq(S) /\ tib(i) \in Seq(T) /\ Paired(Q, bit(i), tib(i))
  <2>1. CASE i \in places
    <3> DEFINE a == s[i]
               b == t[i]
    <3>1. a \in S /\ b \in T /\ <<a, b>> \in Q /\ bit(i) = <<a>> /\ tib(i) = <<b>>
      BY <1>1, <2>1
    <3> HIDE DEF a, b, bit, tib
    <3>2. <<a>> \in Seq(S) /\ <<b>> \in Seq(T) /\ Len(<<a>>) = 1 /\ Len(<<b>>) = 1 /\ <<a>>[1] = a /\ <<b>>[1] = b
      BY <3>1
    <3>3. Paired(Q, <<a>>, <<b>>)
      BY <3>1, <3>2 DEF Paired
    <3> QED
      BY <3>1, <3>2, <3>3
  <2>2. CASE i \notin places
    <3>1. bit(i) = << >> /\ tib(i) = << >>
      BY <2>2
    <3> HIDE DEF bit, tib
    <3>2. << >> \in Seq(S) /\ << >> \in Seq(T) /\ Len(<< >>) = 0
      BY EmptySeq
    <3>3. \A j \in 1..0 : <<(<< >>)[j], (<< >>)[j]>> \in Q
      BY Z3
    <3>4. Paired(Q, << >>, << >>)
      BY <3>2, <3>3 DEF Paired
    <3> QED
      BY <3>1, <3>2, <3>4
  <2> QED
    BY <2>1, <2>2
<1> HIDE DEF bit, tib, n
<1>4. ss \in Seq(Seq(S)) /\ Len(ss) = n /\ \A i \in 1..n : ss[i] = bit(i)
  BY <1>1, <1>3
<1>5. tt \in Seq(Seq(T)) /\ Len(tt) = n /\ \A i \in 1..n : tt[i] = tib(i)
  BY <1>1, <1>3
<1> HIDE DEF ss, tt
<1>6. \A j \in 1..Len(ss) : Paired(Q, ss[j], tt[j])
  BY <1>3, <1>4, <1>5
<1>7. ss \in Seq(Seq(S)) /\ tt \in Seq(Seq(T)) /\ Len(tt) = Len(ss)
  BY <1>4, <1>5
<1>8. FlattenSeq(ss) \in Seq(S) /\ FlattenSeq(tt) \in Seq(T) /\ Paired(Q, FlattenSeq(ss), FlattenSeq(tt))
  BY <1>6, <1>7, FlattenPaired
<1> QED
  BY <1>2, <1>8

\* A sequence is paired with itself.
LEMMA PairedAlone ==
    ASSUME NEW S, NEW s \in Seq(S)
    PROVE  Paired({<<x, x>> : x \in S}, s, s)
BY DEF Paired

LEMMA KeptIsSeq ==
    ASSUME NEW S, NEW s \in Seq(S), NEW places
    PROVE  Kept(s, places) \in Seq(S)
BY PairedAlone, KeptPaired

LEMMA FlattenIsSeq ==
    ASSUME NEW S, NEW ss \in Seq(Seq(S))
    PROVE  FlattenSeq(ss) \in Seq(S)
<1> DEFINE Q == {<<x, x>> : x \in S}
<1>1. \A j \in 1..Len(ss) : ss[j] \in Seq(S)
  BY ElementOfSeq
<1>2. \A j \in 1..Len(ss) : Paired(Q, ss[j], ss[j])
  BY <1>1, PairedAlone
<1> HIDE DEF Q
<1> QED
  BY <1>2, FlattenPaired

\* In an order of n places, the element that comes at place p is that at at[p].
Reorders(before, n, at) ==
    /\ at \in [1..n -> 1..n]
    /\ \A S : \A s \in Seq(S) : Len(s) = n => Placed(s, before) = [p \in 1..n |-> s[at[p]]]

\* A sequence in an order has its elements.
LEMMA PlacedIs ==
    ASSUME NEW before, NEW n \in Nat
    PROVE  \E at : Reorders(before, n, at)
<1> DEFINE place(i) == 1 + Cardinality({j \in 1..n : <<j, i>> \in before \/ (<<i, j>> \notin before /\ j < i)})
           Good(p, i) == place(i) = p \/ \A j \in 1..n : place(j) # p
           at(p) == CHOOSE i \in 1..n : Good(p, i)
           whole == [p \in 1..n |-> at(p)]
<1>1. ASSUME NEW p \in 1..n PROVE at(p) \in 1..n
  <2> HIDE DEF place
  <2>1. \E i \in 1..n : Good(p, i)
    BY <1>1
  <2> HIDE DEF Good
  <2> QED
    BY <2>1
<1>2. ASSUME NEW S, NEW s \in Seq(S), Len(s) = n
      PROVE  Placed(s, before) = [p \in 1..n |-> s[at(p)]]
  <2>1. DOMAIN s = 1..n
    BY <1>2
  <2> QED
    BY <2>1 DEF Placed
<1> HIDE DEF at
<1>3. whole \in [1..n -> 1..n] /\ \A p \in 1..n : whole[p] = at(p)
  BY <1>1
<1>4. ASSUME NEW S, NEW s \in Seq(S), Len(s) = n
      PROVE  Placed(s, before) = [p \in 1..n |-> s[whole[p]]]
  <2>1. Placed(s, before) = [p \in 1..n |-> s[at(p)]]
    BY <1>2, <1>4
  <2> HIDE DEF whole
  <2> QED
    BY <1>3, <2>1
<1> HIDE DEF whole
<1>5. Reorders(before, n, whole)
  BY <1>3, <1>4 DEF Reorders
<1> QED
  BY <1>5

\* A function on 1..n is a list.
LEMMA FunctionIsList ==
    ASSUME NEW n \in Nat, NEW f, f = [i \in 1..n |-> f[i]]
    PROVE  IsList(f) /\ Len(f) = n /\ DOMAIN f = 1..n
<1> DEFINE S == {f[i] : i \in 1..n}
<1>1. \A i \in 1..n : f[i] \in S
  OBVIOUS
<1> HIDE DEF S
<1>2. f \in [1..n -> S]
  BY <1>1
<1>3. f \in Seq(S)
  BY <1>2, SeqDef
<1>4. DOMAIN f = 1..n
  BY <1>2
<1>5. IsList(f) /\ DOMAIN f = 1..Len(f) /\ Len(f) \in Nat
  BY <1>3, SequenceIsList
<1>6. Len(f) = n
  BY <1>2, <1>3
<1> QED
  BY <1>4, <1>5, <1>6

------------------------------------------------------------------------------
\* The parts of a join

\* The rows that a row of the left is joined to, and what becomes of it
RightsOf(right, match, i, padding) == Padded(Kept(right, {j \in DOMAIN right : <<i, j>> \in match}), padding)
AfterRow(row, rows) == [k \in DOMAIN rows |-> row \o rows[k]]
FromLeft(left, right, match, padding) ==
    FlattenSeq([i \in DOMAIN left |-> AfterRow(left[i], RightsOf(right, match, i, padding))])

\* The same of the right
LeftsOf(left, match, j, padding) == Padded(Kept(left, {i \in DOMAIN left : <<i, j>> \in match}), padding)
BeforeRow(row, rows) == [k \in DOMAIN rows |-> rows[k] \o row]
FromRight(left, right, match, padding) ==
    FlattenSeq([j \in DOMAIN right |-> BeforeRow(right[j], LeftsOf(left, match, j, padding))])

\* What matches something
MatchedOf(left, right, match)  == {i \in DOMAIN left : \E j \in DOMAIN right : <<i, j>> \in match}
MatchingOf(left, right, match) == {j \in DOMAIN right : \E i \in DOMAIN left : <<i, j>> \in match}

\* What matches nothing
UnmatchedOf(left, right, match)   == DOMAIN left \ MatchedOf(left, right, match)
NoMatchingOf(left, right, match) == DOMAIN right \ MatchingOf(left, right, match)

\* Both, each row once
FromBoth(left, right, match, ln, rn) ==
    FromLeft(left, right, match, <<rn>>) \o AfterRow(ln, Kept(right, NoMatchingOf(left, right, match)))

\* What a join of each type consists of
LEMMA JoinedIs ==
    /\ \A left, right, match, ln, rn :
           JoinedRows("Inner", left, right, match, ln, rn) = FromLeft(left, right, match, << >>)
    /\ \A left, right, match, ln, rn :
           JoinedRows("Left", left, right, match, ln, rn) = FromLeft(left, right, match, <<rn>>)
    /\ \A left, right, match, ln, rn :
           JoinedRows("Right", left, right, match, ln, rn) = FromRight(left, right, match, <<ln>>)
    /\ \A left, right, match, ln, rn :
           JoinedRows("LeftSemi", left, right, match, ln, rn) = Kept(left, MatchedOf(left, right, match))
    /\ \A left, right, match, ln, rn :
           JoinedRows("LeftAnti", left, right, match, ln, rn) = Kept(left, UnmatchedOf(left, right, match))
    /\ \A left, right, match, ln, rn :
           JoinedRows("RightSemi", left, right, match, ln, rn) = Kept(right, MatchingOf(left, right, match))
    /\ \A left, right, match, ln, rn :
           JoinedRows("RightAnti", left, right, match, ln, rn) = Kept(right, NoMatchingOf(left, right, match))
    /\ \A left, right, match, ln, rn :
           JoinedRows("Full", left, right, match, ln, rn) = FromBoth(left, right, match, ln, rn)
BY DEF JoinedRows, FromBoth, FromLeft, RightsOf, AfterRow, FromRight, LeftsOf, BeforeRow, MatchedOf, MatchingOf,
       UnmatchedOf, NoMatchingOf

\* What is joined is one row after the other.
LEMMA JoinedAreSeqs ==
    ASSUME NEW A, NEW B, NEW left \in Seq(A), NEW right \in Seq(B), NEW match,
           NEW pairs, \A a \in A, b \in B : a \o b \in pairs
    PROVE  /\ \A a \in A : \A rows \in Seq(B) : AfterRow(a, rows) \in Seq(pairs)
           /\ \A b \in B : \A rows \in Seq(A) : BeforeRow(b, rows) \in Seq(pairs)
           /\ \A padding \in Seq(B) : FromLeft(left, right, match, padding) \in Seq(pairs)
           /\ \A padding \in Seq(A) : FromRight(left, right, match, padding) \in Seq(pairs)
<1>0. DOMAIN left = 1..Len(left) /\ DOMAIN right = 1..Len(right) /\ Len(left) \in Nat /\ Len(right) \in Nat
  OBVIOUS
<1>1. ASSUME NEW a \in A, NEW rows \in Seq(B) PROVE AfterRow(a, rows) \in Seq(pairs)
  <2>1. DOMAIN rows = 1..Len(rows) /\ Len(rows) \in Nat /\ \A k \in 1..Len(rows) : rows[k] \in B
    OBVIOUS
  <2>2. \A k \in 1..Len(rows) : a \o rows[k] \in pairs
    BY <2>1
  <2> QED
    BY <2>1, <2>2 DEF AfterRow
<1>2. ASSUME NEW b \in B, NEW rows \in Seq(A) PROVE BeforeRow(b, rows) \in Seq(pairs)
  <2>1. DOMAIN rows = 1..Len(rows) /\ Len(rows) \in Nat /\ \A k \in 1..Len(rows) : rows[k] \in A
    OBVIOUS
  <2>2. \A k \in 1..Len(rows) : rows[k] \o b \in pairs
    BY <2>1
  <2> QED
    BY <2>1, <2>2 DEF BeforeRow
<1>3. ASSUME NEW padding \in Seq(B) PROVE FromLeft(left, right, match, padding) \in Seq(pairs)
  <2> DEFINE part(i) == AfterRow(left[i], RightsOf(right, match, i, padding))
             parts == [i \in 1..Len(left) |-> part(i)]
  <2>1. ASSUME NEW i \in 1..Len(left) PROVE part(i) \in Seq(pairs)
    <3>1. RightsOf(right, match, i, padding) \in Seq(B)
      BY KeptIsSeq DEF RightsOf, Padded
    <3>2. left[i] \in A
      OBVIOUS
    <3> QED
      BY <1>1, <3>1, <3>2
  <2>2. FromLeft(left, right, match, padding) = FlattenSeq(parts)
    BY <1>0 DEF FromLeft
  <2> HIDE DEF part
  <2>3. parts \in Seq(Seq(pairs))
    BY <1>0, <2>1
  <2> HIDE DEF parts
  <2> QED
    BY <2>2, <2>3, FlattenIsSeq
<1>4. ASSUME NEW padding \in Seq(A) PROVE FromRight(left, right, match, padding) \in Seq(pairs)
  <2> DEFINE part(j) == BeforeRow(right[j], LeftsOf(left, match, j, padding))
             parts == [j \in 1..Len(right) |-> part(j)]
  <2>1. ASSUME NEW j \in 1..Len(right) PROVE part(j) \in Seq(pairs)
    <3>1. LeftsOf(left, match, j, padding) \in Seq(A)
      BY KeptIsSeq DEF LeftsOf, Padded
    <3>2. right[j] \in B
      OBVIOUS
    <3> QED
      BY <1>2, <3>1, <3>2
  <2>2. FromRight(left, right, match, padding) = FlattenSeq(parts)
    BY <1>0 DEF FromRight
  <2> HIDE DEF part
  <2>3. parts \in Seq(Seq(pairs))
    BY <1>0, <2>1
  <2> HIDE DEF parts
  <2> QED
    BY <2>2, <2>3, FlattenIsSeq
<1> QED
  BY <1>1, <1>2, <1>3, <1>4

\* Rows with n columns
IsTable(rows, n) == IsList(rows) /\ \A i \in DOMAIN rows : IsList(rows[i]) /\ Len(rows[i]) = n

\* A row behind another is one.
LEMMA BehindIsList ==
    ASSUME NEW a, NEW b, IsList(a), IsList(b)
    PROVE  IsList(a \o b) /\ Len(a \o b) = Len(a) + Len(b)
<1> DEFINE S == ToSet(a) \cup ToSet(b)
<1>1. a \in Seq(S)
  <2> DEFINE A == ToSet(a)
  <2>1. a \in Seq(A) /\ A \subseteq S
    BY DEF IsList
  <2> HIDE DEF A, S
  <2> QED
    BY <2>1, SeqMonotonic
<1>2. b \in Seq(S)
  <2> DEFINE B == ToSet(b)
  <2>1. b \in Seq(B) /\ B \subseteq S
    BY DEF IsList
  <2> HIDE DEF B, S
  <2> QED
    BY <2>1, SeqMonotonic
<1> HIDE DEF S
<1>3. a \o b \in Seq(S) /\ Len(a \o b) = Len(a) + Len(b)
  BY <1>1, <1>2, ConcatProperties
<1> QED
  BY <1>3, SequenceIsList

\* A sequence of rows with n columns is a table.
LEMMA TableOf ==
    ASSUME NEW S, NEW rows \in Seq(S)
    PROVE  /\ IsList(rows)
           /\ \A n : (\A t \in S : IsList(t) /\ Len(t) = n) => IsTable(rows, n)
<1>1. IsList(rows) /\ \A i \in DOMAIN rows : rows[i] \in S
  BY SequenceIsList
<1> QED
  BY <1>1 DEF IsTable

------------------------------------------------------------------------------
\* Unions

\* What there is in a relation is it, and what there is in its inputs.
LEMMA SubrelationsAre ==
    ASSUME NEW leaves, NEW rank, NEW height, FiniteTrees(leaves, rank, height), NEW r \in Relations
    PROVE  Subrelations(r) = {r} \cup UNION {Subrelations(Inputs(r)[i]) : i \in DOMAIN Inputs(r)}
<1> DEFINE Body(f, x) == {x} \cup UNION {f[i] : i \in ToSet(Inputs(x))}
           whole == CHOOSE f : f = [x \in Relations |-> Body(f, x)]
<1>1. \A x : Subrelations(x) = whole[x]
  BY DEF Subrelations
<1>2. PICK f : Defines("subrelations", Null, Relations, f)
  BY RelationsFounded, Recursion
<1>3. ASSUME NEW x PROVE Made("subrelations", Null, x, Given("subrelations", x, f)) = Body(f, x)
  <2> DEFINE v == Given("subrelations", x, f)
  <2>1. v = [i \in DOMAIN Inputs(x) |-> f[Inputs(x)[i]]]
    BY RelationsFounded DEF Given
  <2>2. {v[i] : i \in DOMAIN v} = {f[i] : i \in ToSet(Inputs(x))}
    BY <2>1 DEF ToSet
  <2> HIDE DEF v
  <2>3. Made("subrelations", Null, x, v) = {x} \cup UNION {v[i] : i \in DOMAIN v}
    BY DEF Made
  <2> QED
    BY <2>2, <2>3 DEF v
<1>4. f = [x \in Relations |-> Body(f, x)]
  <2> HIDE DEF Body
  <2> QED
    BY <1>2, <1>3 DEF Defines
<1>5. whole = [x \in Relations |-> Body(whole, x)]
  <2> HIDE DEF Body
  <2> QED
    BY <1>4
<1> HIDE DEF whole
<1>6. whole[r] = Body(whole, r)
  <2> HIDE DEF Body
  <2> QED
    BY <1>5
<1>7. {whole[i] : i \in ToSet(Inputs(r))} = {Subrelations(Inputs(r)[i]) : i \in DOMAIN Inputs(r)}
  BY <1>1 DEF ToSet
<1> QED
  BY <1>1, <1>6, <1>7

\* If no union in a relation is of relations that differ in the number of columns, neither is one
\* in its inputs, nor is it one itself.
LEMMA DifferInside ==
    ASSUME NEW leaves, NEW rank, NEW height, FiniteTrees(leaves, rank, height), NEW r \in Relations, ~UnionsDiffer(r)
    PROVE  /\ \A i \in DOMAIN Inputs(r) : ~UnionsDiffer(Inputs(r)[i])
           /\ r.op = "Union" => \A i \in DOMAIN Inputs(r) : Width(Inputs(r)[i]) = Width(r)
<1>1. r \in Subrelations(r) /\ \A i \in DOMAIN Inputs(r) : Subrelations(Inputs(r)[i]) \subseteq Subrelations(r)
  BY SubrelationsAre
<1>2. \A i \in DOMAIN Inputs(r) : ~UnionsDiffer(Inputs(r)[i])
  BY <1>1 DEF UnionsDiffer
<1>3. ASSUME r.op = "Union", NEW i \in DOMAIN Inputs(r) PROVE Width(Inputs(r)[i]) = Width(r)
  <2>1. WellMade(r) /\ IsUnion(r)
    BY <1>3, InputsAre, ByOp
  <2>2. Inputs(r) = r.relations /\ Inputs(r) \in Seq(Relations) /\ Inputs(r) # << >>
    BY <1>3, <2>1 DEF WellMade, IsUnion
  <2>3. Width(Inputs(r)[i]) = Width(Inputs(r)[1])
    BY <1>1, <1>3, <2>2 DEF UnionsDiffer, ColumnCount
  <2>4. 1 \in DOMAIN Inputs(r)
    BY <2>2
  <2> DEFINE v == Widths(r)
  <2>5. v[1] = Width(Inputs(r)[1])
    BY <2>4 DEF Widths
  <2>6. Width(r) = Made("width", Null, r, v)
    BY WidthIs
  <2> HIDE DEF v
  <2>7. Made("width", Null, r, v) = v[1]
    BY <1>3 DEF Made
  <2> QED
    BY <2>3, <2>5, <2>6, <2>7
<1> QED
  BY <1>2, <1>3

------------------------------------------------------------------------------
\* What each operation makes is a list of rows, each with as many columns as it has.

\* Some of the rows of a table are a table.
LEMMA SomeRows ==
    ASSUME NEW rows, IsList(rows), NEW some \in Seq(ToSet(rows))
    PROVE  IsList(some) /\ \A n : IsTable(rows, n) => IsTable(some, n)
<1>1. IsList(some)
  BY SequenceIsList
<1>2. ASSUME NEW n, IsTable(rows, n) PROVE IsTable(some, n)
  <2> DEFINE S == ToSet(rows)
  <2>1. \A t \in S : IsList(t) /\ Len(t) = n
    BY <1>2 DEF IsTable, ToSet
  <2>2. some \in Seq(S)
    OBVIOUS
  <2> HIDE DEF S
  <2> QED
    BY <2>1, <2>2, TableOf
<1> QED
  BY <1>1, <1>2

LEMMA KeptIsTable ==
    ASSUME NEW rows, IsList(rows), NEW places
    PROVE  IsList(Kept(rows, places)) /\ \A n : IsTable(rows, n) => IsTable(Kept(rows, places), n)
<1> DEFINE S == ToSet(rows)
<1>1. rows \in Seq(S)
  BY DEF IsList
<1> HIDE DEF S
<1>2. Kept(rows, places) \in Seq(S)
  BY <1>1, KeptIsSeq
<1> QED
  BY <1>2, SomeRows DEF S

LEMMA PlacedIsTable ==
    ASSUME NEW rows, IsList(rows), NEW before
    PROVE  IsList(Placed(rows, before)) /\ \A n : IsTable(rows, n) => IsTable(Placed(rows, before), n)
<1> DEFINE S == ToSet(rows)
           m == Len(rows)
<1>1. rows \in Seq(S) /\ m \in Nat
  BY SequenceIsList DEF IsList
<1> HIDE DEF S, m
<1>2. PICK at : Reorders(before, m, at)
  BY <1>1, PlacedIs
<1>3. at \in [1..m -> 1..m] /\ Len(rows) = m /\ Placed(rows, before) = [p \in 1..m |-> rows[at[p]]]
  BY <1>1, <1>2 DEF m, Reorders
<1>4. \A p \in 1..m : rows[at[p]] \in S
  BY <1>1, <1>3
<1>5. Placed(rows, before) \in Seq(S)
  BY <1>1, <1>3, <1>4
<1> QED
  BY <1>5, SomeRows DEF S

LEMMA PageIsTable ==
    ASSUME NEW rows, IsList(rows), NEW fetch \in Fetches, NEW skip \in Nat
    PROVE  IsList(Page(rows, fetch, skip)) /\ \A n : IsTable(rows, n) => IsTable(Page(rows, fetch, skip), n)
<1> DEFINE S == ToSet(rows)
           last == IF fetch = Null \/ skip + fetch > Len(rows) THEN Len(rows) ELSE skip + fetch
<1>1. rows \in Seq(S) /\ Len(rows) \in Nat /\ \A i \in 1..Len(rows) : rows[i] \in S
  BY SequenceIsList DEF IsList, ToSet
<1>2. last \in Nat /\ last <= Len(rows)
  BY <1>1 DEF Fetches
<1>3. Page(rows, fetch, skip) = SubSeq(rows, skip + 1, last)
  BY DEF Page
<1> HIDE DEF S, last
<1>4. \A i \in (skip + 1)..last : rows[i] \in S
  BY <1>1, <1>2
<1>5. SubSeq(rows, skip + 1, last) \in Seq(S)
  BY <1>2, <1>4, SubSeqProperties
<1> QED
  BY <1>3, <1>5, SomeRows DEF S

\* A row that is made for each of a list
LEMMA MadeIsTable ==
    ASSUME NEW m \in Nat, NEW rows, rows = [i \in 1..m |-> rows[i]], NEW n,
           \A i \in 1..m : IsList(rows[i]) /\ Len(rows[i]) = n
    PROVE  IsTable(rows, n)
BY FunctionIsList DEF IsTable

LEMMA ListDomain ==
    ASSUME NEW s, IsList(s)
    PROVE  DOMAIN s = 1..Len(s) /\ Len(s) \in Nat
BY SequenceIsList DEF IsList

LEMMA ValuesIsList ==
    ASSUME NEW exprs \in Seq(Expressions), NEW row
    PROVE  IsList(Values(exprs, row)) /\ Len(Values(exprs, row)) = Len(exprs)
<1> DEFINE m == Len(exprs)
           f == Values(exprs, row)
<1>1. m \in Nat /\ DOMAIN exprs = 1..m
  OBVIOUS
<1>2. f = [i \in 1..m |-> Value(exprs[i], row)]
  BY <1>1 DEF Values
<1>3. f = [i \in 1..m |-> f[i]]
  BY <1>2
<1> HIDE DEF f, m
<1>4. IsList(f) /\ Len(f) = m
  BY <1>1, <1>3, FunctionIsList
<1> QED
  BY <1>4 DEF f, m

ProjectRows(exprs, rows) == [i \in DOMAIN rows |-> Values(exprs, rows[i])]

LEMMA ProjectIsTable ==
    ASSUME NEW rows, IsList(rows), NEW exprs \in Seq(Expressions)
    PROVE  IsTable(ProjectRows(exprs, rows), Len(exprs))
<1> DEFINE m == Len(rows)
           f == ProjectRows(exprs, rows)
<1>1. m \in Nat /\ DOMAIN rows = 1..m
  BY ListDomain
<1>2. f = [i \in 1..m |-> Values(exprs, rows[i])]
  BY <1>1 DEF ProjectRows
<1>3. f = [i \in 1..m |-> f[i]] /\ \A i \in 1..m : f[i] = Values(exprs, rows[i])
  BY <1>2
<1> HIDE DEF f, m
<1>4. \A i \in 1..m : IsList(f[i]) /\ Len(f[i]) = Len(exprs)
  BY <1>3, ValuesIsList
<1> QED
  BY <1>1, <1>3, <1>4, MadeIsTable DEF f

LEMMA SourceIsTable ==
    ASSUME NEW d \in Databases, NEW r, r.collection \in DOMAIN d, NEW S, r.columns \in Seq(S)
    PROVE  IsTable(SourceRows(r, d), Len(r.columns))
<1> DEFINE docs == d[r.collection]
           m == Len(docs)
           n == Len(r.columns)
           cell(i, j) == IF r.columns[j] \in DOMAIN docs[i] THEN docs[i][r.columns[j]] ELSE Null
           row(i) == [j \in 1..n |-> cell(i, j)]
           f == SourceRows(r, d)
<1>1. m \in Nat /\ DOMAIN docs = 1..m
  BY DatabasesAssumption, SequenceIsList
<1>2. n \in Nat /\ DOMAIN r.columns = 1..n
  OBVIOUS
<1>3. f = [i \in 1..m |-> row(i)]
  BY <1>1, <1>2 DEF SourceRows
<1> HIDE DEF docs, m, n, cell, f
<1>4. f = [i \in 1..m |-> f[i]] /\ \A i \in 1..m : f[i] = row(i)
  BY <1>3
<1>5. ASSUME NEW i \in 1..m PROVE IsList(row(i)) /\ Len(row(i)) = n
  <2> DEFINE g == row(i)
  <2>1. g = [j \in 1..n |-> g[j]]
    OBVIOUS
  <2> HIDE DEF g
  <2>2. IsList(g) /\ Len(g) = n
    BY <1>2, <2>1, FunctionIsList
  <2> QED
    BY <2>2 DEF g
<1>6. \A i \in 1..m : IsList(f[i]) /\ Len(f[i]) = n
  BY <1>4, <1>5
<1> QED
  BY <1>1, <1>4, <1>6, MadeIsTable DEF f, n

LEMMA WindowIsTable ==
    ASSUME NEW rows, IsList(rows), NEW S, NEW exprs \in Seq(S)
    PROVE  /\ IsList(WindowRows(exprs, rows))
           /\ \A n : IsTable(rows, n) => IsTable(WindowRows(exprs, rows), n + Len(exprs))
<1> DEFINE m == Len(rows)
           k == Len(exprs)
           numbers == [j \in DOMAIN exprs |-> Numbered(exprs[j], rows)]
           more(i) == [j \in 1..k |-> numbers[j][i]]
           f == WindowRows(exprs, rows)
<1>1. m \in Nat /\ DOMAIN rows = 1..m /\ k \in Nat /\ DOMAIN exprs = 1..k
  BY ListDomain
<1>2. f = [i \in 1..m |-> rows[i] \o more(i)]
  BY <1>1 DEF WindowRows
<1> HIDE DEF numbers, m, k, f
<1>3. f = [i \in 1..m |-> f[i]] /\ \A i \in 1..m : f[i] = rows[i] \o more(i)
  BY <1>2
<1>4. ASSUME NEW i \in 1..m PROVE IsList(more(i)) /\ Len(more(i)) = k
  <2> DEFINE g == more(i)
  <2>1. g = [j \in 1..k |-> g[j]]
    OBVIOUS
  <2> HIDE DEF g
  <2>2. IsList(g) /\ Len(g) = k
    BY <1>1, <2>1, FunctionIsList
  <2> QED
    BY <2>2 DEF g
<1> HIDE DEF more
<1>5. IsList(f)
  BY <1>1, <1>3, FunctionIsList
<1>6. ASSUME NEW n, IsTable(rows, n) PROVE IsTable(f, n + k)
  <2>1. \A i \in 1..m : IsList(rows[i]) /\ Len(rows[i]) = n
    BY <1>1, <1>6 DEF IsTable
  <2>2. ASSUME NEW i \in 1..m PROVE IsList(f[i]) /\ Len(f[i]) = n + k
    <3> DEFINE a == rows[i]
               b == more(i)
    <3>1. IsList(a) /\ IsList(b) /\ Len(a) = n /\ Len(b) = k /\ f[i] = a \o b
      BY <1>3, <1>4, <2>1
    <3> HIDE DEF a, b
    <3> QED
      BY <3>1, BehindIsList
  <2> QED
    BY <1>1, <1>3, <2>2, MadeIsTable
<1> QED
  BY <1>5, <1>6 DEF f, k

\* The row of a group
GroupTotals(r, all) == [j \in DOMAIN r.aggregates |-> Total(r.aggregates[j], all[j], NonNull(all[j]))]
GroupRow(r, rows, keys, key) ==
    key \o GroupTotals(r, [j \in DOMAIN r.aggregates |->
                              Listed(r.aggregates[j], Kept(rows, {i \in DOMAIN rows : keys[i] = key}))])

LEMMA GroupedIsTable ==
    ASSUME NEW r, NEW A, r.group_by \in Seq(A), NEW B, r.aggregates \in Seq(B),
           NEW rows, NEW keys, IsTable(keys, Len(r.group_by))
    PROVE  IsTable(Grouped(r, rows, keys), Len(r.group_by) + Len(r.aggregates))
<1> DEFINE distinct == IF r.group_by = <<>> THEN << <<>> >> ELSE Distinct(keys)
           m == Len(distinct)
           n == Len(r.group_by)
           k == Len(r.aggregates)
           f == Grouped(r, rows, keys)
<1>1. IsTable(distinct, n)
  <2>1. CASE r.group_by = <<>>
    <3> DEFINE one == << << >> >>
    <3>1. << >> \in Seq({1}) /\ Len(<< >>) = 0
      BY EmptySeq
    <3>2. IsList(<< >>)
      BY <3>1, SequenceIsList
    <3>3. one \in Seq({<< >>}) /\ DOMAIN one = {1} /\ one[1] = << >>
      OBVIOUS
    <3>4. IsList(one) /\ \A i \in DOMAIN one : IsList(one[i]) /\ Len(one[i]) = 0
      BY <3>1, <3>2, <3>3, SequenceIsList
    <3>5. IsTable(one, 0)
      BY <3>4 DEF IsTable
    <3>6. distinct = one /\ n = 0
      BY <2>1, <3>1
    <3> QED
      BY <3>5, <3>6
  <2>2. CASE r.group_by # <<>>
    <3>1. distinct = Distinct(keys)
      BY <2>2
    <3>2. IsList(keys)
      BY DEF IsTable
    <3>3. \A places : \A w : IsTable(keys, w) => IsTable(Kept(keys, places), w)
      BY <3>2, KeptIsTable
    <3>4. IsTable(Distinct(keys), Len(r.group_by))
      BY <3>3 DEF Distinct
    <3> QED
      BY <3>1, <3>4
  <2> QED
    BY <2>1, <2>2
<1>2. f = [i \in DOMAIN distinct |-> GroupRow(r, rows, keys, distinct[i])]
  BY DEF Grouped, GroupRow, GroupTotals
<1>3. k \in Nat /\ DOMAIN r.aggregates = 1..k /\ n \in Nat
  OBVIOUS
<1> HIDE DEF distinct, f, n, k
<1>4. m \in Nat /\ DOMAIN distinct = 1..m
  BY <1>1, ListDomain DEF IsTable
<1> HIDE DEF m
<1>5. f = [i \in 1..m |-> f[i]] /\ \A i \in 1..m : f[i] = GroupRow(r, rows, keys, distinct[i])
  BY <1>2, <1>4
<1>6. ASSUME NEW all PROVE IsList(GroupTotals(r, all)) /\ Len(GroupTotals(r, all)) = k
  <2> DEFINE g == GroupTotals(r, all)
  <2>1. g = [j \in 1..k |-> g[j]]
    BY <1>3 DEF GroupTotals
  <2> HIDE DEF g
  <2>2. IsList(g) /\ Len(g) = k
    BY <1>3, <2>1, FunctionIsList
  <2> QED
    BY <2>2 DEF g
<1>7. ASSUME NEW i \in 1..m PROVE IsList(f[i]) /\ Len(f[i]) = n + k
  <2> DEFINE a == distinct[i]
             b == GroupTotals(r, [j \in DOMAIN r.aggregates |->
                                     Listed(r.aggregates[j], Kept(rows, {x \in DOMAIN rows : keys[x] = a}))])
  <2>1. f[i] = a \o b
    BY <1>5 DEF GroupRow
  <2>2. IsList(a) /\ Len(a) = n
    BY <1>1, <1>4 DEF IsTable
  <2>3. IsList(b) /\ Len(b) = k
    BY <1>6
  <2> HIDE DEF a, b
  <2> QED
    BY <2>1, <2>2, <2>3, BehindIsList
<1> QED
  BY <1>4, <1>5, <1>7, MadeIsTable DEF f, n, k

LEMMA UnionIsTable ==
    ASSUME NEW T, NEW in \in Seq(T), \A i \in DOMAIN in : IsList(in[i])
    PROVE  /\ IsList(FlattenSeq(in))
           /\ \A n : (\A i \in DOMAIN in : IsTable(in[i], n)) => IsTable(FlattenSeq(in), n)
<1> DEFINE S == UNION {ToSet(in[i]) : i \in DOMAIN in}
           flat == FlattenSeq(in)
<1>1. DOMAIN in = 1..Len(in) /\ Len(in) \in Nat /\ in = [i \in 1..Len(in) |-> in[i]]
  OBVIOUS
<1>2. ASSUME NEW i \in DOMAIN in PROVE in[i] \in Seq(S)
  <2> DEFINE s == in[i]
             P == ToSet(s)
  <2>1. s \in Seq(P) /\ P \subseteq S
    BY DEF IsList
  <2> HIDE DEF P, S
  <2> QED
    BY <2>1, SeqMonotonic
<1>4. \A t \in S : \E i \in DOMAIN in : \E j \in DOMAIN in[i] : t = in[i][j]
  BY DEF ToSet
<1> HIDE DEF S
<1>5. in \in Seq(Seq(S))
  <2> DEFINE Q == Seq(S)
  <2>1. \A i \in 1..Len(in) : in[i] \in Q
    BY <1>1, <1>2
  <2> HIDE DEF Q
  <2>2. in \in [1..Len(in) -> Q]
    BY <1>1, <2>1
  <2>3. in \in Seq(Q)
    BY <1>1, <2>2, SeqDef
  <2> QED
    BY <2>3 DEF Q
<1>6. flat \in Seq(S)
  BY <1>5, FlattenIsSeq
<1>7. ASSUME NEW n, \A i \in DOMAIN in : IsTable(in[i], n) PROVE IsTable(flat, n)
  <2>1. \A t \in S : IsList(t) /\ Len(t) = n
    BY <1>4, <1>7 DEF IsTable
  <2> HIDE DEF flat
  <2> QED
    BY <1>6, <2>1, TableOf
<1>8. IsList(flat)
  BY <1>6, SequenceIsList
<1> QED
  BY <1>7, <1>8

JoinWidth(type, m, n) == IF type \in {"LeftSemi", "LeftAnti"} THEN m
                         ELSE IF type \in {"RightSemi", "RightAnti"} THEN n ELSE m + n

LEMMA JoinIsTable ==
    ASSUME NEW left, IsList(left), NEW right, IsList(right), NEW match, NEW ln, NEW rn, NEW type \in JoinTypes
    PROVE  /\ IsList(JoinedRows(type, left, right, match, ln, rn))
           /\ \A m, n : IsTable(left, m) /\ IsTable(right, n) /\ IsTable(<<ln>>, m) /\ IsTable(<<rn>>, n)
                        => IsTable(JoinedRows(type, left, right, match, ln, rn), JoinWidth(type, m, n))
<1> DEFINE joined == JoinedRows(type, left, right, match, ln, rn)
           A == ToSet(left) \cup {ln}
           B == ToSet(right) \cup {rn}
           pairs == {a \o b : a \in A, b \in B}
           alone == NoMatchingOf(left, right, match)
<1>1. left \in Seq(A) /\ right \in Seq(B) /\ <<ln>> \in Seq(A) /\ <<rn>> \in Seq(B) /\ << >> \in Seq(B) /\ ln \in A
  <2> DEFINE L == ToSet(left)
             R == ToSet(right)
  <2>1. left \in Seq(L) /\ right \in Seq(R) /\ L \subseteq A /\ R \subseteq B /\ ln \in A /\ rn \in B
    BY DEF IsList
  <2> HIDE DEF L, R, A, B
  <2>2. left \in Seq(A) /\ right \in Seq(B)
    BY <2>1, SeqMonotonic
  <2> QED
    BY <2>1, <2>2
<1>2. \A a \in A, b \in B : a \o b \in pairs
  OBVIOUS
<1>3. \A t \in pairs : \E a \in A, b \in B : t = a \o b
  OBVIOUS
<1> HIDE DEF A, B, pairs, alone
<1>4. /\ type = "Inner" => joined = FromLeft(left, right, match, << >>)
      /\ type = "Left" => joined = FromLeft(left, right, match, <<rn>>)
      /\ type = "Right" => joined = FromRight(left, right, match, <<ln>>)
      /\ type \in {"LeftSemi", "LeftAnti"} => \E places : joined = Kept(left, places)
      /\ type \in {"RightSemi", "RightAnti"} => \E places : joined = Kept(right, places)
      /\ type = "Full" => joined = FromBoth(left, right, match, ln, rn)
  <2>1. CASE type \in {"Inner", "Left", "Right", "Full"}
    BY <2>1, JoinedIs
  <2>2. CASE type \in {"LeftSemi", "LeftAnti", "RightSemi", "RightAnti"}
    BY <2>2, JoinedIs
  <2> QED
    BY <2>1, <2>2 DEF JoinTypes
<1> HIDE DEF joined
<1>5. CASE type \in {"Inner", "Left", "Right", "Full"}
  <2>1. joined \in Seq(pairs)
    <3>1. /\ FromLeft(left, right, match, << >>) \in Seq(pairs) /\ FromLeft(left, right, match, <<rn>>) \in Seq(pairs)
          /\ FromRight(left, right, match, <<ln>>) \in Seq(pairs)
          /\ \A rows \in Seq(B) : AfterRow(ln, rows) \in Seq(pairs)
      BY <1>1, <1>2, JoinedAreSeqs
    <3>2. Kept(right, alone) \in Seq(B)
      BY <1>1, KeptIsSeq
    <3>3. AfterRow(ln, Kept(right, alone)) \in Seq(pairs)
      BY <3>1, <3>2
    <3>4. FromLeft(left, right, match, <<rn>>) \o AfterRow(ln, Kept(right, alone)) \in Seq(pairs)
      BY <3>1, <3>3, ConcatProperties
    <3>5. FromBoth(left, right, match, ln, rn) \in Seq(pairs)
      BY <3>4 DEF FromBoth, alone
    <3> QED
      BY <1>4, <1>5, <3>1, <3>5
  <2>2. ASSUME NEW m, NEW n, IsTable(left, m), IsTable(right, n), IsTable(<<ln>>, m), IsTable(<<rn>>, n)
        PROVE  IsTable(joined, m + n)
    <3>1. IsList(ln) /\ Len(ln) = m /\ IsList(rn) /\ Len(rn) = n
      <4>1. 1 \in DOMAIN <<ln>> /\ 1 \in DOMAIN <<rn>> /\ <<ln>>[1] = ln /\ <<rn>>[1] = rn
        OBVIOUS
      <4>2. IsList(<<ln>>[1]) /\ Len(<<ln>>[1]) = m /\ IsList(<<rn>>[1]) /\ Len(<<rn>>[1]) = n
        BY <2>2, <4>1 DEF IsTable
      <4> QED
        BY <4>1, <4>2
    <3>2. \A a \in A : IsList(a) /\ Len(a) = m
      BY <2>2, <3>1 DEF A, IsTable, ToSet
    <3>3. \A b \in B : IsList(b) /\ Len(b) = n
      BY <2>2, <3>1 DEF B, IsTable, ToSet
    <3>4. ASSUME NEW t \in pairs PROVE IsList(t) /\ Len(t) = m + n
      <4>1. PICK a \in A, b \in B : t = a \o b
        BY <1>3
      <4> QED
        BY <3>2, <3>3, <4>1, BehindIsList
    <3> QED
      BY <2>1, <3>4, TableOf
  <2>3. IsList(joined)
    BY <2>1, SequenceIsList
  <2>4. \A m, n : JoinWidth(type, m, n) = m + n
    BY <1>5 DEF JoinWidth
  <2> QED
    BY <2>2, <2>3, <2>4 DEF joined
<1>6. CASE type \in {"LeftSemi", "LeftAnti"}
  <2>1. PICK places : joined = Kept(left, places)
    BY <1>4, <1>6
  <2>2. \A m, n : JoinWidth(type, m, n) = m
    BY <1>6 DEF JoinWidth
  <2> QED
    BY <2>1, <2>2, KeptIsTable DEF joined
<1>7. CASE type \in {"RightSemi", "RightAnti"}
  <2>1. PICK places : joined = Kept(right, places)
    BY <1>4, <1>7
  <2>2. \A m, n : JoinWidth(type, m, n) = n
    BY <1>7 DEF JoinWidth
  <2> QED
    BY <2>1, <2>2, KeptIsTable DEF joined
<1> QED
  BY <1>5, <1>6, <1>7 DEF JoinTypes

\* The rows of a relation are a list; and each has as many columns as the relation, unless a union
\* in it is of relations that differ in that number.
RightRows(r, d) == IsList(Rows(r, d)) /\ (~UnionsDiffer(r) => IsTable(Rows(r, d), Width(r)))

\* Nulls for each column are a row.
LEMMA NullsAreTable ==
    ASSUME NEW n \in Nat
    PROVE  IsTable(<<Nulls(n)>>, n)
<1> DEFINE row == Nulls(n)
<1>1. row = [i \in 1..n |-> row[i]]
  BY DEF Nulls
<1> HIDE DEF row
<1>2. IsList(row) /\ Len(row) = n
  BY <1>1, FunctionIsList
<1>3. <<row>> \in Seq({row}) /\ DOMAIN <<row>> = {1} /\ <<row>>[1] = row
  OBVIOUS
<1>4. IsList(<<row>>)
  BY <1>3, SequenceIsList
<1>5. \A i \in DOMAIN <<row>> : <<row>>[i] = row
  BY <1>3
<1>6. IsTable(<<row>>, n)
  BY <1>2, <1>4, <1>5 DEF IsTable
<1> QED
  BY <1>6 DEF row

LEMMA RowsAreTables ==
    ASSUME NEW leaves, NEW rank, NEW height, FiniteTrees(leaves, rank, height), NEW d \in Databases
    PROVE  \A r \in Relations : RightRows(r, d)
<1> DEFINE S == {r \in Relations : RightRows(r, d)}
<1>1. ASSUME NEW r \in Relations, \A x \in Relations : height[x] < height[r] => x \in S
      PROVE  r \in S
  <2> DEFINE in == InputRows(r, d)
             rows == Rows(r, d)
             w == Width(r)
             fine == ~UnionsDiffer(r)
             \* what is to be shown of rows that the operation makes
             Right(made) == IsList(made) /\ (fine => IsTable(made, w))
  <2>1. WellMade(r) /\ Leaf(r, leaves) /\ \A i \in DOMAIN Inputs(r) : Inputs(r)[i] \in Relations
    BY InputsAre, Shapes
  <2>2. DOMAIN in = DOMAIN Inputs(r) /\ \A i \in DOMAIN Inputs(r) : in[i] = Rows(Inputs(r)[i], d)
    BY DEF InputRows
  <2>3. \A i \in DOMAIN Inputs(r) : IsList(in[i]) /\ (fine => IsTable(in[i], Width(Inputs(r)[i])))
    <3> SUFFICES ASSUME NEW i \in DOMAIN Inputs(r)
                 PROVE  IsList(in[i]) /\ (fine => IsTable(in[i], Width(Inputs(r)[i])))
      OBVIOUS
    <3>1. RightRows(Inputs(r)[i], d)
      BY <1>1, InputsAre
    <3>2. fine => ~UnionsDiffer(Inputs(r)[i])
      BY DifferInside
    <3> QED
      BY <2>2, <3>1, <3>2 DEF RightRows
  <2>4. rows = RowsFrom(r, in, d)
    BY RowsAre
  <2>5. /\ fine => (r.op = "Union" => \A i \in DOMAIN Inputs(r) : Width(Inputs(r)[i]) = w)
        /\ w \in Nat
    BY DifferInside, WidthIsNat
  <2>6. /\ r.op = "From" => w = Len(r.columns)
        /\ r.op \in {"Filter", "Sort", "Paginate"} => w = Width(Inputs(r)[1])
        /\ r.op = "Project" => w = Len(r.exprs)
        /\ r.op = "Aggregate" => w = Len(r.group_by) + Len(r.aggregates)
        /\ r.op = "Window" => w = Width(Inputs(r)[1]) + Len(r.exprs)
        /\ r.op = "Join" => w = JoinWidth(r.type, Width(Inputs(r)[1]), Width(Inputs(r)[2]))
    BY WidthOf DEF JoinWidth
  <2>7. ASSUME r.op \in {"Filter", "Sort", "Paginate", "Project", "Aggregate", "Window"}
        PROVE  IsList(in[1]) /\ (fine => IsTable(in[1], Width(Inputs(r)[1])))
    <3>1. Inputs(r) = <<r.input>>
      BY <2>1, <2>7 DEF WellMade
    <3>2. 1 \in DOMAIN Inputs(r)
      BY <3>1
    <3> QED
      BY <2>3, <3>2
  <2> HIDE DEF in, rows, w, fine
  <2>8. SUFFICES Right(rows)
    BY DEF RightRows, rows, w, fine
  <2>9. CASE r.op = "From"
    <3>1. r.collection \in DOMAIN d /\ r.columns \in Seq(leaves.names)
      BY <2>1, <2>9, ByOp DEF Leaf, IsFrom, FiniteTrees
    <3>2. rows = SourceRows(r, d)
      BY <2>4, <2>9 DEF RowsFrom
    <3>3. IsTable(SourceRows(r, d), w)
      BY <2>6, <2>9, <3>1, SourceIsTable
    <3> QED
      BY <3>2, <3>3 DEF IsTable
  <2>10. CASE r.op = "Filter"
    <3>1. PICK places : rows = Kept(in[1], places)
      BY <2>4, <2>10 DEF RowsFrom
    <3> QED
      BY <2>6, <2>7, <2>10, <3>1, KeptIsTable
  <2>11. CASE r.op = "Sort"
    <3>1. rows = SortedRows(in[1], r.exprs)
      BY <2>4, <2>11 DEF RowsFrom
    <3>2. PICK before : rows = Placed(in[1], before)
      BY <3>1 DEF SortedRows, InOrder
    <3> QED
      BY <2>6, <2>7, <2>11, <3>2, PlacedIsTable
  <2>12. CASE r.op = "Paginate"
    <3>1. r.fetch \in Fetches /\ r.skip \in Nat
      BY <2>12, ByOp DEF IsPaginate
    <3>2. rows = Page(in[1], r.fetch, r.skip)
      BY <2>4, <2>12 DEF RowsFrom
    <3> QED
      BY <2>6, <2>7, <2>12, <3>1, <3>2, PageIsTable
  <2>13. CASE r.op = "Project"
    <3>1. r.exprs \in Seq(Expressions)
      BY <2>13, ByOp DEF IsProject
    <3>2. rows = ProjectRows(r.exprs, in[1])
      BY <2>4, <2>13 DEF RowsFrom, ProjectRows
    <3>3. IsTable(rows, w)
      BY <2>6, <2>7, <2>13, <3>1, <3>2, ProjectIsTable
    <3> QED
      BY <3>3 DEF IsTable
  <2>14. CASE r.op = "Aggregate"
    <3>1. r.group_by \in Seq(Expressions) /\ r.aggregates \in Seq(leaves.aggregates)
      BY <2>1, <2>14, ByOp DEF IsAggregate, Leaf
    <3> DEFINE keys == ProjectRows(r.group_by, in[1])
    <3>2. rows = Grouped(r, in[1], keys)
      BY <2>4, <2>14 DEF RowsFrom, ProjectRows
    <3>3. IsTable(keys, Len(r.group_by))
      BY <2>7, <2>14, <3>1, ProjectIsTable
    <3> HIDE DEF keys
    <3>4. IsTable(rows, w)
      BY <2>6, <2>14, <3>1, <3>2, <3>3, GroupedIsTable
    <3> QED
      BY <3>4 DEF IsTable
  <2>15. CASE r.op = "Window"
    <3>1. r.exprs \in Seq(leaves.windows)
      BY <2>1, <2>15, ByOp DEF IsWindow, Leaf
    <3>2. rows = WindowRows(r.exprs, in[1])
      BY <2>4, <2>15 DEF RowsFrom
    <3> QED
      BY <2>6, <2>7, <2>15, <3>1, <3>2, WindowIsTable
  <2>16. CASE r.op = "Union"
    <3>1. rows = FlattenSeq(in)
      BY <2>4, <2>16 DEF RowsFrom
    <3> DEFINE T == {in[i] : i \in DOMAIN Inputs(r)}
    <3>2. in \in Seq(T)
      <4>1. Inputs(r) \in Seq(Relations) /\ DOMAIN Inputs(r) = 1..Len(Inputs(r)) /\ Len(Inputs(r)) \in Nat
        BY <2>1 DEF WellMade
      <4>2. in = [i \in 1..Len(Inputs(r)) |-> in[i]]
        BY <4>1 DEF in, InputRows
      <4>3. \A i \in 1..Len(Inputs(r)) : in[i] \in T
        BY <4>1
      <4> HIDE DEF T
      <4>4. in \in [1..Len(Inputs(r)) -> T]
        BY <4>2, <4>3
      <4> QED
        BY <4>1, <4>4, SeqDef
    <3>3. \A i \in DOMAIN in : IsList(in[i]) /\ (fine => IsTable(in[i], w))
      BY <2>2, <2>3, <2>5, <2>16
    <3> HIDE DEF T
    <3> QED
      BY <3>1, <3>2, <3>3, UnionIsTable
  <2>17. CASE r.op = "Join"
    <3>1. IsJoin(r) /\ Inputs(r) = <<r.left, r.right>>
      BY <2>1, <2>17, ByOp DEF WellMade
    <3>2. r.left \in Relations /\ r.right \in Relations /\ r.type \in JoinTypes
      BY <3>1 DEF IsJoin
    <3>3. 1 \in DOMAIN Inputs(r) /\ 2 \in DOMAIN Inputs(r) /\ Inputs(r)[1] = r.left /\ Inputs(r)[2] = r.right
      BY <3>1
    <3> DEFINE match == Matching(r.on, in[1], in[2])
               m == Width(r.left)
               n == Width(r.right)
               ln == Nulls(m)
               rn == Nulls(n)
    <3>4. rows = JoinedRows(r.type, in[1], in[2], match, ln, rn)
      BY <2>4, <2>17 DEF RowsFrom
    <3>5. m \in Nat /\ n \in Nat
      BY <3>2, WidthIsNat
    <3>6. IsTable(<<ln>>, m) /\ IsTable(<<rn>>, n)
      BY <3>5, NullsAreTable
    <3>7. IsList(in[1]) /\ IsList(in[2]) /\ (fine => IsTable(in[1], m) /\ IsTable(in[2], n))
      BY <2>3, <3>3
    <3>8. w = JoinWidth(r.type, m, n)
      BY <2>6, <2>17, <3>3
    <3> HIDE DEF match, m, n, ln, rn
    <3> QED
      BY <3>2, <3>4, <3>6, <3>7, <3>8, JoinIsTable
  <2> QED
    BY <2>9, <2>10, <2>11, <2>12, <2>13, <2>14, <2>15, <2>16, <2>17, ByOp
<1> HIDE DEF S
<1>2. \A r \in Relations : r \in S
  BY <1>1, RelationInduction
<1> QED
  BY <1>2 DEF S

------------------------------------------------------------------------------
\* What is pushed below a projection

\* What a projection makes of each row
ProjectedPairs(exprs, S) == {<<x, Values(exprs, x)>> : x \in S}

LEMMA PairedIsProjected ==
    ASSUME NEW S, NEW T, NEW s \in Seq(S), NEW t \in Seq(T), NEW exprs, Paired(ProjectedPairs(exprs, S), s, t)
    PROVE  t = ProjectRows(exprs, s)
<1>1. Len(t) = Len(s) /\ Len(s) \in Nat /\ DOMAIN s = 1..Len(s) /\ DOMAIN t = 1..Len(s)
  BY DEF Paired
<1>2. ASSUME NEW i \in 1..Len(s) PROVE t[i] = Values(exprs, s[i])
  <2>1. <<s[i], t[i]>> \in ProjectedPairs(exprs, S)
    BY <1>2 DEF Paired
  <2>2. PICK x \in S : <<s[i], t[i]>> = <<x, Values(exprs, x)>>
    BY <2>1 DEF ProjectedPairs
  <2> QED
    BY <2>2
<1>3. t = [i \in 1..Len(s) |-> t[i]]
  BY <1>1
<1> QED
  BY <1>1, <1>2, <1>3 DEF ProjectRows

LEMMA ProjectedIsPaired ==
    ASSUME NEW S, NEW s \in Seq(S), NEW exprs, NEW T, \A x \in S : Values(exprs, x) \in T
    PROVE  ProjectRows(exprs, s) \in Seq(T) /\ Paired(ProjectedPairs(exprs, S), s, ProjectRows(exprs, s))
<1> DEFINE t == ProjectRows(exprs, s)
           n == Len(s)
<1>1. n \in Nat /\ DOMAIN s = 1..n /\ \A i \in 1..n : s[i] \in S
  OBVIOUS
<1>2. t = [i \in 1..n |-> Values(exprs, s[i])]
  BY <1>1 DEF ProjectRows
<1>3. \A i \in 1..n : Values(exprs, s[i]) \in T
  BY <1>1
<1> HIDE DEF n
<1>4. t \in Seq(T) /\ Len(t) = n /\ \A i \in 1..n : t[i] = Values(exprs, s[i])
  BY <1>1, <1>2, <1>3
<1> HIDE DEF t
<1>5. \A i \in 1..n : <<s[i], t[i]>> \in ProjectedPairs(exprs, S)
  BY <1>1, <1>4 DEF ProjectedPairs
<1>6. Paired(ProjectedPairs(exprs, S), s, t)
  BY <1>4, <1>5 DEF Paired, n
<1> QED
  BY <1>4, <1>6 DEF t

\* A projection of what is kept is what is kept of the projection.
LEMMA KeepProjected ==
    ASSUME NEW rows, IsList(rows), NEW exprs, NEW places
    PROVE  Kept(ProjectRows(exprs, rows), places) = ProjectRows(exprs, Kept(rows, places))
<1> DEFINE S == ToSet(rows)
           T == {Values(exprs, x) : x \in S}
           Q == ProjectedPairs(exprs, S)
           t == ProjectRows(exprs, rows)
<1>1. rows \in Seq(S)
  BY DEF IsList
<1>2. \A x \in S : Values(exprs, x) \in T
  OBVIOUS
<1> HIDE DEF S, T
<1>3. t \in Seq(T) /\ Paired(Q, rows, t)
  BY <1>1, <1>2, ProjectedIsPaired
<1> HIDE DEF t, Q
<1>4. Kept(rows, places) \in Seq(S) /\ Kept(t, places) \in Seq(T) /\ Paired(Q, Kept(rows, places), Kept(t, places))
  BY <1>1, <1>3, KeptPaired
<1>5. Kept(t, places) = ProjectRows(exprs, Kept(rows, places))
  BY <1>4, PairedIsProjected DEF Q
<1> QED
  BY <1>5 DEF t

\* A projection of rows in an order is the projection in that order.
LEMMA PlaceProjected ==
    ASSUME NEW rows, IsList(rows), NEW exprs, NEW before
    PROVE  Placed(ProjectRows(exprs, rows), before) = ProjectRows(exprs, Placed(rows, before))
<1> DEFINE S == ToSet(rows)
           T == {Values(exprs, x) : x \in S}
           t == ProjectRows(exprs, rows)
           n == Len(rows)
           s == Placed(rows, before)
<1>1. rows \in Seq(S) /\ n \in Nat /\ DOMAIN rows = 1..n
  BY ListDomain DEF IsList
<1>2. \A x \in S : Values(exprs, x) \in T
  OBVIOUS
<1> HIDE DEF S, T
<1>3. t \in Seq(T) /\ Len(t) = n /\ \A i \in 1..n : t[i] = Values(exprs, rows[i])
  <2>1. t \in Seq(T) /\ Paired(ProjectedPairs(exprs, S), rows, t)
    BY <1>1, <1>2, ProjectedIsPaired
  <2>2. \A i \in 1..n : t[i] = Values(exprs, rows[i])
    BY <1>1 DEF ProjectRows
  <2> QED
    BY <2>1, <2>2 DEF Paired
<1> HIDE DEF t, n
<1>4. PICK at : Reorders(before, n, at)
  BY <1>1, PlacedIs
<1>5. at \in [1..n -> 1..n] /\ s = [p \in 1..n |-> rows[at[p]]]
  BY <1>1, <1>4 DEF Reorders, n
<1>6. Placed(t, before) = [p \in 1..n |-> t[at[p]]]
  BY <1>3, <1>4 DEF Reorders
<1>7. ProjectRows(exprs, s) = [p \in 1..n |-> Values(exprs, s[p])]
  <2>1. DOMAIN s = 1..n
    BY <1>5
  <2> QED
    BY <2>1 DEF ProjectRows
<1>8. \A p \in 1..n : t[at[p]] = Values(exprs, s[p])
  BY <1>3, <1>5
<1> HIDE DEF s
<1>9. Placed(t, before) = ProjectRows(exprs, s)
  BY <1>6, <1>7, <1>8
<1> QED
  BY <1>9 DEF s, t

\* The rows that a filter keeps
FilterRows(e, rows) == Kept(rows, {i \in DOMAIN rows : Value(e, rows[i]) = TRUE})

\* The filter below the projection keeps the rows that the one above would keep.
LEMMA FilterPushed ==
    ASSUME NEW leaves, NEW rank, NEW height, FiniteTrees(leaves, rank, height), NEW exprs \in Seq(Expressions),
           NEW e \in Expressions, Remappable(e, exprs), NEW rows, IsList(rows),
           NEW above, above = ProjectRows(exprs, rows)
    PROVE  FilterRows(e, above) = ProjectRows(exprs, FilterRows(RemapExpression(e, exprs), rows))
<1> DEFINE f == RemapExpression(e, exprs)
           places == {i \in DOMAIN rows : Value(f, rows[i]) = TRUE}
           n == Len(rows)
<1>1. \A row : Value(f, row) = Value(e, Values(exprs, row))
  BY RemappedMeansTheSame
<1>2. DOMAIN above = DOMAIN rows /\ \A i \in DOMAIN rows : above[i] = Values(exprs, rows[i])
  BY DEF ProjectRows
<1>3. {i \in DOMAIN above : Value(e, above[i]) = TRUE} = places
  <2> HIDE DEF f
  <2> QED
    BY <1>1, <1>2
<1> HIDE DEF places
<1>4. Kept(above, places) = ProjectRows(exprs, Kept(rows, places))
  BY KeepProjected
<1> QED
  BY <1>3, <1>4 DEF places, FilterRows

\* The sort below the projection orders the rows as the one above would.
LEMMA SortPushed ==
    ASSUME NEW leaves, NEW rank, NEW height, FiniteTrees(leaves, rank, height), NEW exprs \in Seq(Expressions),
           NEW keys \in Seq(SortKeys(Expressions)), \A i \in DOMAIN keys : Remappable(keys[i].expr, exprs),
           NEW rows, IsList(rows), NEW above, above = ProjectRows(exprs, rows)
    PROVE  SortedRows(above, keys) = ProjectRows(exprs, SortedRows(rows, RemappedKeys(keys, exprs)))
<1> DEFINE new == RemappedKeys(keys, exprs)
           v == [i \in DOMAIN above |-> SortKey(keys, above[i])]
           w == [i \in DOMAIN rows |-> SortKey(new, rows[i])]
           before == {p \in Places(rows) : Before(new, w[p[1]], w[p[2]])}
<1>1. DOMAIN above = DOMAIN rows /\ \A i \in DOMAIN rows : above[i] = Values(exprs, rows[i])
  BY DEF ProjectRows
<1>2. /\ DOMAIN new = DOMAIN keys
      /\ \A i \in DOMAIN keys : /\ new[i].expr = RemapExpression(keys[i].expr, exprs)
                                /\ new[i].desc = keys[i].desc /\ new[i].nulls_last = keys[i].nulls_last
  BY RemappedKeysAre
<1> HIDE DEF new
<1>3. ASSUME NEW i \in DOMAIN keys, NEW row PROVE Value(new[i].expr, row) = Value(keys[i].expr, Values(exprs, row))
  <2> DEFINE key == keys[i]
  <2>1. key \in SortKeys(Expressions)
    BY ElementOfSeq
  <2> HIDE DEF key
  <2>2. key.expr \in Expressions
    BY <2>1, KeyExpression
  <2>3. Remappable(key.expr, exprs) /\ new[i].expr = RemapExpression(key.expr, exprs)
    BY <1>2 DEF key
  <2>4. Value(RemapExpression(key.expr, exprs), row) = Value(key.expr, Values(exprs, row))
    BY <2>2, <2>3, RemappedMeansTheSame
  <2> QED
    BY <2>3, <2>4 DEF key
<1>4. \A row : SortKey(new, row) = SortKey(keys, Values(exprs, row))
  BY <1>2, <1>3 DEF SortKey
<1>5. v = w
  BY <1>1, <1>4
<1> HIDE DEF v, w
<1>6. ASSUME NEW a, NEW b PROVE Before(new, a, b) <=> Before(keys, a, b)
  <2>1. \A i \in DOMAIN keys : Precedes(new[i], a[i], b[i]) <=> Precedes(keys[i], a[i], b[i])
    BY <1>2 DEF Precedes
  <2> QED
    BY <1>2, <2>1 DEF Before
<1>7. Places(above) = Places(rows)
  BY <1>1 DEF Places
<1>8. {p \in Places(above) : Before(keys, v[p[1]], v[p[2]])} = before
  BY <1>5, <1>6, <1>7
<1>9. SortedRows(above, keys) = Placed(above, before)
  BY <1>8 DEF SortedRows, InOrder, v
<1>10. SortedRows(rows, new) = Placed(rows, before)
  BY DEF SortedRows, InOrder, w
<1> HIDE DEF before
<1>11. Placed(above, before) = ProjectRows(exprs, Placed(rows, before))
  BY PlaceProjected
<1> QED
  BY <1>9, <1>10, <1>11 DEF new

\* What an operation makes of inputs of the same rows is the same.
LEMMA SameRowsInside ==
    ASSUME NEW leaves, NEW rank, NEW height, FiniteTrees(leaves, rank, height), NEW d,
           NEW r \in Relations, NEW ins \in Seq(Relations), Len(ins) = Len(Inputs(r)),
           \A i \in DOMAIN Inputs(r) : Rows(ins[i], d) = Rows(Inputs(r)[i], d) /\ Width(ins[i]) = Width(Inputs(r)[i])
    PROVE  Rows(WithInputs(r, ins), d) = Rows(r, d)
<1> DEFINE s == WithInputs(r, ins)
<1>0. WellMade(r) /\ Inputs(r) \in Seq(Relations)
  BY InputsAre DEF WellMade
<1>1. s \in Relations /\ Alike(r, s) /\ Inputs(s) = ins
  BY Rebuilt
<1> HIDE DEF s
<1>2. DOMAIN ins = DOMAIN Inputs(r)
  BY <1>0
<1>3. InputRows(s, d) = InputRows(r, d)
  BY <1>1, <1>2 DEF InputRows
<1>4. ASSUME r.op = "Join" PROVE Width(s.left) = Width(r.left) /\ Width(s.right) = Width(r.right)
  <2>1. s.op = "Join" /\ WellMade(s)
    BY <1>1, <1>4, InputsAre DEF Alike
  <2>2. Inputs(r) = <<r.left, r.right>> /\ ins = <<s.left, s.right>>
    BY <1>0, <1>1, <1>4, <2>1 DEF WellMade
  <2>3. 1 \in DOMAIN Inputs(r) /\ 2 \in DOMAIN Inputs(r)
    BY <2>2
  <2>4. Width(ins[1]) = Width(Inputs(r)[1]) /\ Width(ins[2]) = Width(Inputs(r)[2])
    BY <2>3
  <2> QED
    BY <2>2, <2>4
<1>5. Rows(s, d) = RowsFrom(s, InputRows(s, d), d) /\ Rows(r, d) = RowsFrom(r, InputRows(r, d), d)
  BY <1>1, RowsAre
<1> DEFINE v == InputRows(r, d)
<1> HIDE DEF v
<1>6. RowsFrom(s, v, d) = RowsFrom(r, v, d)
  BY <1>1, <1>4, SameRows
<1> QED
  BY <1>3, <1>5, <1>6 DEF s, v

\* The rows of a filter, a sort and a projection, given those of the input
LEMMA RowsOfOne ==
    ASSUME NEW leaves, NEW rank, NEW height, FiniteTrees(leaves, rank, height), NEW d,
           NEW r \in Relations, NEW x, Inputs(r) = <<x>>
    PROVE  \E v : v[1] = Rows(x, d) /\ Rows(r, d) = RowsFrom(r, v, d)
<1>1. 1 \in DOMAIN Inputs(r) /\ Inputs(r)[1] = x
  OBVIOUS
<1>2. InputRows(r, d)[1] = Rows(x, d)
  BY <1>1 DEF InputRows
<1> QED
  BY <1>2, RowsAre

LEMMA RowsOfFilter ==
    ASSUME NEW leaves, NEW rank, NEW height, FiniteTrees(leaves, rank, height), NEW d,
           NEW r \in Relations, NEW x, Inputs(r) = <<x>>, r.op = "Filter"
    PROVE  Rows(r, d) = FilterRows(r.predicate, Rows(x, d))
<1>1. PICK v : v[1] = Rows(x, d) /\ Rows(r, d) = RowsFrom(r, v, d)
  BY RowsOfOne
<1>2. RowsFrom(r, v, d) = FilterRows(r.predicate, v[1])
  BY DEF RowsFrom, FilterRows
<1> QED
  BY <1>1, <1>2

LEMMA RowsOfSort ==
    ASSUME NEW leaves, NEW rank, NEW height, FiniteTrees(leaves, rank, height), NEW d,
           NEW r \in Relations, NEW x, Inputs(r) = <<x>>, r.op = "Sort"
    PROVE  Rows(r, d) = SortedRows(Rows(x, d), r.exprs)
<1>1. PICK v : v[1] = Rows(x, d) /\ Rows(r, d) = RowsFrom(r, v, d)
  BY RowsOfOne
<1>2. RowsFrom(r, v, d) = SortedRows(v[1], r.exprs)
  BY DEF RowsFrom
<1> QED
  BY <1>1, <1>2

LEMMA RowsOfProject ==
    ASSUME NEW leaves, NEW rank, NEW height, FiniteTrees(leaves, rank, height), NEW d,
           NEW r \in Relations, NEW x, Inputs(r) = <<x>>, r.op = "Project"
    PROVE  Rows(r, d) = ProjectRows(r.exprs, Rows(x, d))
<1>1. PICK v : v[1] = Rows(x, d) /\ Rows(r, d) = RowsFrom(r, v, d)
  BY RowsOfOne
<1>2. RowsFrom(r, v, d) = ProjectRows(r.exprs, v[1])
  BY DEF RowsFrom, ProjectRows
<1> QED
  BY <1>1, <1>2

\* The filter or the sort of a projection, and the projection of what it is below it, have the same rows.
LEMMA PushedRows ==
    ASSUME NEW leaves, NEW rank, NEW height, FiniteTrees(leaves, rank, height), NEW d \in Databases,
           NEW r \in Relations, NEW x, Inputs(r) = <<x>>, NEW q \in Relations, IsPushed(r, q), Rows(q, d) = Rows(x, d)
    PROVE  Rows(r, d) = ProjectRows(q.exprs, Rows(Pushed(r, q), d))
<1> DEFINE p == Pushed(r, q)
           z == q.input
           es == q.exprs
           rows == Rows(z, d)
           above == Rows(x, d)
<1>1. /\ z \in Relations /\ es \in Seq(Expressions) /\ q.op = "Project" /\ q = Project(z, es)
      /\ r.op = "Filter" => IsFilter(r) /\ Remappable(r.predicate, es) /\ p = Filter(z, RemapExpression(r.predicate, es))
      /\ r.op = "Sort" => IsSort(r) /\ (\A i \in DOMAIN r.exprs : Remappable(r.exprs[i].expr, es))
                          /\ p = Sort(z, RemappedKeys(r.exprs, es))
      /\ r.op \in {"Filter", "Sort"}
      /\ p \in Relations /\ p.op = r.op /\ Inputs(p) = <<z>>
  BY PushedIs
<1>2. IsList(rows)
  BY <1>1, RowsAreTables DEF RightRows
<1>3. Inputs(q) = <<z>>
  <2> HIDE DEF z, es
  <2> QED
    BY <1>1, OfProject
<1>4. above = ProjectRows(es, rows)
  BY <1>1, <1>3, RowsOfProject
<1> HIDE DEF p, z, es
<1>5. CASE r.op = "Filter"
  <2> DEFINE e == r.predicate
             f == RemapExpression(e, es)
  <2>1. e \in Expressions /\ Remappable(e, es) /\ p = Filter(z, f)
    BY <1>1, <1>5 DEF IsFilter
  <2>2. p.predicate = f
    <3> HIDE DEF f
    <3> QED
      BY <2>1 DEF Filter
  <2>3. Rows(p, d) = FilterRows(p.predicate, rows)
    BY <1>1, <1>5, RowsOfFilter
  <2>4. Rows(r, d) = FilterRows(e, above)
    BY <1>5, RowsOfFilter
  <2> HIDE DEF e, rows, above
  <2>5. FilterRows(e, above) = ProjectRows(es, FilterRows(f, rows))
    BY <1>1, <1>2, <1>4, <2>1, FilterPushed
  <2> QED
    BY <2>2, <2>3, <2>4, <2>5 DEF es, p, rows, above
<1>6. CASE r.op = "Sort"
  <2> DEFINE keys == r.exprs
             new == RemappedKeys(keys, es)
  <2>1. keys \in Seq(SortKeys(Expressions)) /\ (\A i \in DOMAIN keys : Remappable(keys[i].expr, es)) /\ p = Sort(z, new)
    BY <1>1, <1>6 DEF IsSort
  <2>2. p.exprs = new
    <3> HIDE DEF new
    <3> QED
      BY <2>1 DEF Sort
  <2>3. Rows(p, d) = SortedRows(rows, p.exprs)
    BY <1>1, <1>6, RowsOfSort
  <2>4. Rows(r, d) = SortedRows(above, keys)
    BY <1>6, RowsOfSort
  <2> HIDE DEF keys, rows, above
  <2>5. SortedRows(above, keys) = ProjectRows(es, SortedRows(rows, new))
    BY <1>1, <1>2, <1>4, <2>1, SortPushed
  <2> QED
    BY <2>2, <2>3, <2>4, <2>5 DEF es, p, rows, above
<1> QED
  BY <1>1, <1>5, <1>6

\* The second pass keeps the rows of every relation.
LEMMA PushKeepsRows ==
    ASSUME NEW leaves, NEW rank, NEW height, FiniteTrees(leaves, rank, height), NEW d \in Databases
    PROVE  \A r \in Relations : Rows(PushdownPredicates(r), d) = Rows(r, d)
<1> DEFINE S == {r \in Relations : Rows(PushdownPredicates(r), d) = Rows(r, d)}
<1>1. ASSUME NEW r \in Relations, \A x \in Relations : height[x] < height[r] => x \in S
      PROVE  r \in S
  <2> DEFINE ins == PushedDown(r)
             q == ins[1]
             p == Pushed(r, q)
  <2>1. /\ ins \in Seq(Relations) /\ Len(ins) = Len(Inputs(r))
        /\ ~IsPushed(r, q) => PushdownPredicates(r) = WithInputs(r, ins)
        /\ IsPushed(r, q) => q \in Relations /\ height[p] < height[r]
                             /\ PushdownPredicates(r) = Project(PushdownPredicates(p), q.exprs)
    BY PushIs
  <2>2. \A i \in DOMAIN Inputs(r) : Rows(ins[i], d) = Rows(Inputs(r)[i], d) /\ Width(ins[i]) = Width(Inputs(r)[i])
    BY <1>1, InputsAre, PushedWidth DEF PushedDown
  <2> HIDE DEF ins
  <2>3. CASE ~IsPushed(r, q)
    BY <2>1, <2>2, <2>3, SameRowsInside
  <2>4. CASE IsPushed(r, q)
    <3>1. r.op \in {"Filter", "Sort"}
      BY <2>4 DEF IsPushed
    <3>2. Inputs(r) = <<r.input>>
      BY <3>1, InputsAre DEF WellMade
    <3>3. 1 \in DOMAIN Inputs(r) /\ Inputs(r)[1] = r.input
      BY <3>2
    <3>4. Rows(q, d) = Rows(r.input, d)
      BY <2>2, <3>3
    <3> HIDE DEF q
    <3>5. Rows(r, d) = ProjectRows(q.exprs, Rows(p, d))
      BY <2>1, <2>4, <3>2, <3>4, PushedRows
    <3>6. q.exprs \in Seq(Expressions) /\ p \in Relations
      BY <2>1, <2>4, PushedIs
    <3> HIDE DEF p
    <3> DEFINE u == PushdownPredicates(p)
               s == Project(u, q.exprs)
    <3>7. u \in Relations /\ Rows(u, d) = Rows(p, d)
      BY <1>1, <2>1, <2>4, <3>6, PushIs
    <3> HIDE DEF u
    <3>8. s \in Relations /\ s.op = "Project" /\ s.exprs = q.exprs /\ Inputs(s) = <<u>>
      BY <3>6, <3>7, Closed, OfProject
    <3>9. PushdownPredicates(r) = s
      BY <2>1, <2>4 DEF u
    <3> HIDE DEF s
    <3>10. Rows(s, d) = ProjectRows(q.exprs, Rows(u, d))
      BY <3>8, RowsOfProject
    <3> QED
      BY <3>5, <3>7, <3>9, <3>10
  <2> QED
    BY <2>3, <2>4
<1> HIDE DEF S
<1>2. \A r \in Relations : r \in S
  BY <1>1, RelationInduction
<1> QED
  BY <1>2 DEF S

------------------------------------------------------------------------------
\* Joins, the other way round

\* What a column is for a row
LEMMA ColumnValue ==
    ASSUME NEW leaves, NEW rank, NEW height, FiniteTrees(leaves, rank, height), NEW i \in Nat, NEW row
    PROVE  Value(Column(i), row) = row[i + 1]
<1> DEFINE e == Column(i)
           v == [j \in DOMAIN Operands(e) |-> Value(Operands(e)[j], row)]
<1>1. e \in Expressions /\ e.op = "Column" /\ e.index = i
  BY ColumnIsExpression DEF Column
<1> HIDE DEF e
<1>2. Value(e, row) = Evaluated(e, v, row)
  BY <1>1, ValueIs
<1> HIDE DEF v
<1>3. Evaluated(e, v, row) = row[i + 1]
  BY <1>1 DEF Evaluated
<1> QED
  BY <1>2, <1>3 DEF e

\* ReorderColumns puts the columns back in their order.
LEMMA ReorderedRow ==
    ASSUME NEW leaves, NEW rank, NEW height, FiniteTrees(leaves, rank, height), NEW m \in Nat, NEW n \in Nat,
           NEW a, IsList(a), Len(a) = m, NEW b, IsList(b), Len(b) = n
    PROVE  Values(ReorderColumns(m, n), b \o a) = a \o b
<1> DEFINE es == ReorderColumns(m, n)
           v == Values(es, b \o a)
           S == ToSet(a) \cup ToSet(b)
<1>1. a \in Seq(S) /\ b \in Seq(S)
  <2> DEFINE A == ToSet(a)
             B == ToSet(b)
  <2>1. a \in Seq(A) /\ b \in Seq(B) /\ A \subseteq S /\ B \subseteq S
    BY DEF IsList
  <2> HIDE DEF A, B, S
  <2> QED
    BY <2>1, SeqMonotonic
<1> HIDE DEF S
<1>2. /\ a \o b \in Seq(S) /\ Len(a \o b) = m + n
      /\ \A i \in 1..m : (a \o b)[i] = a[i] /\ (b \o a)[n + i] = a[i]
      /\ \A i \in 1..n : (a \o b)[m + i] = b[i] /\ (b \o a)[i] = b[i]
  BY <1>1
<1>3. /\ es \in Seq(Expressions) /\ Len(es) = m + n
      /\ \A i \in 1..m : es[i] = Column(n + i - 1)
      /\ \A i \in 1..n : es[m + i] = Column(i - 1)
  BY ReorderedIs
<1> HIDE DEF es
<1>4. v = [i \in 1..(m + n) |-> Value(es[i], b \o a)]
  BY <1>3 DEF Values
<1>5. ASSUME NEW i \in 1..m PROVE v[i] = (a \o b)[i]
  <2>1. n + i - 1 \in Nat /\ i \in 1..(m + n)
    OBVIOUS
  <2>2. Value(Column(n + i - 1), b \o a) = (b \o a)[n + i - 1 + 1]
    BY <2>1, ColumnValue
  <2>3. v[i] = Value(Column(n + i - 1), b \o a)
    BY <1>3, <1>4, <2>1
  <2>4. n + i - 1 + 1 = n + i
    OBVIOUS
  <2> QED
    BY <1>2, <2>2, <2>3, <2>4
<1>6. ASSUME NEW i \in 1..n PROVE v[m + i] = (a \o b)[m + i]
  <2>1. i - 1 \in Nat /\ m + i \in 1..(m + n)
    OBVIOUS
  <2>2. Value(Column(i - 1), b \o a) = (b \o a)[i - 1 + 1]
    BY <2>1, ColumnValue
  <2>3. v[m + i] = Value(Column(i - 1), b \o a)
    BY <1>3, <1>4, <2>1
  <2>4. i - 1 + 1 = i
    OBVIOUS
  <2> QED
    BY <1>2, <2>2, <2>3, <2>4
<1> DEFINE c == a \o b
<1>7. \A i \in 1..(m + n) : v[i] = c[i]
  <2> SUFFICES ASSUME NEW i \in 1..(m + n) PROVE v[i] = c[i]
    OBVIOUS
  <2>1. CASE i <= m
    BY <1>5, <2>1
  <2>2. CASE ~(i <= m)
    <3>1. i - m \in 1..n /\ m + (i - m) = i
      BY <2>2
    <3> QED
      BY <1>6, <3>1
  <2> QED
    BY <2>1, <2>2
<1>8. v = [i \in 1..(m + n) |-> v[i]]
  BY <1>4
<1> HIDE DEF v
<1>9. c \in Seq(S) /\ Len(c) = m + n
  BY <1>2
<1> HIDE DEF c
<1>11. c = [i \in 1..(m + n) |-> c[i]]
  BY <1>9
<1>10. v = c
  BY <1>7, <1>8, <1>11
<1> QED
  BY <1>10 DEF v, c, es

\* What matches the other way round matches.
LEMMA MatchingSwapped ==
    ASSUME NEW on \in Seq(JoinTests(Expressions)), NEW left, NEW right, NEW i \in DOMAIN left, NEW j \in DOMAIN right
    PROVE  <<j, i>> \in Matching(SwapJoinOn(on), right, left) <=> <<i, j>> \in Matching(on, left, right)
<1> DEFINE no == SwapJoinOn(on)
<1>1. DOMAIN no = DOMAIN on /\ \A k \in DOMAIN on : no[k].left = on[k].right /\ no[k].right = on[k].left
  BY SwapJoinOnIs
<1> HIDE DEF no
<1>2. ASSUME NEW l, NEW r PROVE Matches(no, r, l) <=> Matches(on, l, r)
  BY <1>1 DEF Matches, Equal
<1>3. <<j, i>> \in Matching(no, right, left) <=> Matches(no, right[j], left[i])
  BY DEF Matching
<1>4. <<i, j>> \in Matching(on, left, right) <=> Matches(on, left[i], right[j])
  BY DEF Matching
<1> QED
  BY <1>2, <1>3, <1>4 DEF no

\* A right join is the left join of its sides, swapped: what is kept of the right side is the same ...
LEMMA SwappedKeeps ==
    ASSUME NEW left, NEW right, NEW match, NEW hctam,
           \A i \in DOMAIN left, j \in DOMAIN right : <<j, i>> \in hctam <=> <<i, j>> \in match
    PROVE  /\ MatchedOf(right, left, hctam) = MatchingOf(left, right, match)
           /\ UnmatchedOf(right, left, hctam) = NoMatchingOf(left, right, match)
<1>1. MatchedOf(right, left, hctam) = MatchingOf(left, right, match)
  BY DEF MatchedOf, MatchingOf
<1> QED
  BY <1>1 DEF UnmatchedOf, NoMatchingOf

LEMMA SwappedPartners ==
    ASSUME NEW left, NEW right, NEW match, NEW hctam,
           \A i \in DOMAIN left, j \in DOMAIN right : <<j, i>> \in hctam <=> <<i, j>> \in match,
           NEW j \in DOMAIN right, NEW padding
    PROVE  RightsOf(left, hctam, j, padding) = LeftsOf(left, match, j, padding)
<1>1. {i \in DOMAIN left : <<j, i>> \in hctam} = {i \in DOMAIN left : <<i, j>> \in match}
  OBVIOUS
<1> QED
  BY <1>1 DEF RightsOf, LeftsOf

\* ... and so are the rows, once their columns are put back in their order.
LEMMA SwappedJoins ==
    ASSUME NEW leaves, NEW rank, NEW height, FiniteTrees(leaves, rank, height), NEW m \in Nat, NEW n \in Nat,
           NEW left, IsTable(left, m), NEW right, IsTable(right, n), NEW match, NEW hctam,
           \A i \in DOMAIN left, j \in DOMAIN right : <<j, i>> \in hctam <=> <<i, j>> \in match,
           NEW padding, IsTable(padding, m)
    PROVE  FromRight(left, right, match, padding)
           = ProjectRows(ReorderColumns(m, n), FromLeft(right, left, hctam, padding))
<1> DEFINE es == ReorderColumns(m, n)
           A == ToSet(left) \cup ToSet(padding)
           B == ToSet(right)
           S == {b \o a : a \in A, b \in B}
           T == {a \o b : a \in A, b \in B}
           Q == ProjectedPairs(es, S)
           k == Len(right)
           partners(j) == LeftsOf(left, match, j, padding)
           ss == [j \in 1..k |-> AfterRow(right[j], partners(j))]
           tt == [j \in 1..k |-> BeforeRow(right[j], partners(j))]
<1>1. left \in Seq(A) /\ right \in Seq(B) /\ padding \in Seq(A)
  <2> DEFINE L == ToSet(left)
             P == ToSet(padding)
  <2>1. left \in Seq(L) /\ right \in Seq(B) /\ padding \in Seq(P) /\ L \subseteq A /\ P \subseteq A
    BY DEF IsList, IsTable
  <2> HIDE DEF L, P, A, B
  <2> QED
    BY <2>1, SeqMonotonic
<1>2. /\ \A a \in A : IsList(a) /\ Len(a) = m
      /\ \A b \in B : IsList(b) /\ Len(b) = n
  BY DEF IsTable, ToSet
<1>3. k \in Nat /\ DOMAIN right = 1..k /\ \A j \in 1..k : right[j] \in B
  <2> HIDE DEF B
  <2> QED
    BY <1>1
<1>4. \A a \in A, b \in B : b \o a \in S /\ a \o b \in T
  OBVIOUS
<1> HIDE DEF A, B, S, T, es, k
<1>5. \A a \in A, b \in B : <<b \o a, a \o b>> \in Q
  <2> SUFFICES ASSUME NEW a \in A, NEW b \in B PROVE <<b \o a, a \o b>> \in Q
    OBVIOUS
  <2>1. Values(es, b \o a) = a \o b
    BY <1>2, ReorderedRow DEF es
  <2>2. b \o a \in S
    BY <1>4
  <2> DEFINE x == b \o a
             y == a \o b
  <2> HIDE DEF x, y
  <2>3. Values(es, x) = y /\ x \in S
    BY <2>1, <2>2 DEF x, y
  <2>4. <<x, y>> \in Q
    BY <2>3 DEF ProjectedPairs
  <2> QED
    BY <2>4 DEF x, y
<1> HIDE DEF Q
<1>6. \A j \in 1..k : partners(j) \in Seq(A)
  BY <1>1, KeptIsSeq DEF LeftsOf, Padded
<1>7. FromRight(left, right, match, padding) = FlattenSeq(tt)
  BY <1>3 DEF FromRight
<1>8. FromLeft(right, left, hctam, padding) = FlattenSeq(ss)
  <2>1. ASSUME NEW j \in 1..k PROVE RightsOf(left, hctam, j, padding) = partners(j)
    <3>1. j \in DOMAIN right
      BY <1>3
    <3> QED
      BY <3>1, SwappedPartners
  <2> HIDE DEF partners
  <2>2. [j \in 1..k |-> AfterRow(right[j], RightsOf(left, hctam, j, padding))] = ss
    BY <2>1
  <2>3. FromLeft(right, left, hctam, padding) = FlattenSeq([j \in 1..k |-> AfterRow(right[j], RightsOf(left, hctam, j, padding))])
    BY <1>3 DEF FromLeft
  <2> QED
    BY <2>2, <2>3
<1> HIDE DEF partners
<1>9. ASSUME NEW b \in B, NEW rows \in Seq(A)
      PROVE  AfterRow(b, rows) \in Seq(S) /\ BeforeRow(b, rows) \in Seq(T) /\ Paired(Q, AfterRow(b, rows), BeforeRow(b, rows))
  <2> DEFINE s == AfterRow(b, rows)
             t == BeforeRow(b, rows)
             l == Len(rows)
             after(i) == b \o rows[i]
             before(i) == rows[i] \o b
  <2>1. l \in Nat /\ DOMAIN rows = 1..l /\ \A i \in 1..l : rows[i] \in A
    OBVIOUS
  <2>2. s = [i \in 1..l |-> after(i)] /\ t = [i \in 1..l |-> before(i)]
    BY <2>1 DEF AfterRow, BeforeRow
  <2> HIDE DEF l, s, t
  <2>3. \A i \in 1..l : after(i) \in S /\ before(i) \in T /\ <<after(i), before(i)>> \in Q
    BY <1>4, <1>5, <2>1
  <2> HIDE DEF after, before
  <2>30. \A i \in 1..l : after(i) \in S
    BY <2>3
  <2>31. \A i \in 1..l : before(i) \in T
    BY <2>3
  <2>4. s \in Seq(S) /\ Len(s) = l /\ \A i \in 1..l : s[i] = after(i)
    BY <2>1, <2>2, <2>30
  <2>5. t \in Seq(T) /\ Len(t) = l /\ \A i \in 1..l : t[i] = before(i)
    BY <2>1, <2>2, <2>31
  <2>6. Paired(Q, s, t)
    BY <2>3, <2>4, <2>5 DEF Paired
  <2> QED
    BY <2>4, <2>5, <2>6 DEF s, t
<1>10. ss \in Seq(Seq(S)) /\ Len(ss) = k /\ \A j \in 1..k : ss[j] = AfterRow(right[j], partners(j))
  BY <1>3, <1>6, <1>9
<1>11. tt \in Seq(Seq(T)) /\ Len(tt) = k /\ \A j \in 1..k : tt[j] = BeforeRow(right[j], partners(j))
  BY <1>3, <1>6, <1>9
<1> HIDE DEF ss, tt
<1>12. \A j \in 1..Len(ss) : Paired(Q, ss[j], tt[j])
  BY <1>3, <1>6, <1>9, <1>10, <1>11
<1>13. Len(tt) = Len(ss)
  BY <1>10, <1>11
<1>14. FlattenSeq(ss) \in Seq(S) /\ FlattenSeq(tt) \in Seq(T) /\ Paired(Q, FlattenSeq(ss), FlattenSeq(tt))
  BY <1>10, <1>11, <1>12, <1>13, FlattenPaired
<1> DEFINE u == FlattenSeq(ss)
           v == FlattenSeq(tt)
<1> HIDE DEF u, v
<1>15. v = ProjectRows(es, u)
  BY <1>14, PairedIsProjected DEF Q, u, v
<1> QED
  BY <1>7, <1>8, <1>15 DEF u, v, es

\* The first pass keeps the rows of every relation whose unions are all of relations of the same
\* number of columns.
LEMMA NormalKeepsRows ==
    ASSUME NEW leaves, NEW rank, NEW height, FiniteTrees(leaves, rank, height), NEW d \in Databases
    PROVE  \A r \in Relations : ~UnionsDiffer(r) => Rows(NormalizeRightJoins(r), d) = Rows(r, d)
<1> DEFINE S == {r \in Relations : ~UnionsDiffer(r) => Rows(NormalizeRightJoins(r), d) = Rows(r, d)}
<1>1. ASSUME NEW r \in Relations, \A x \in Relations : height[x] < height[r] => x \in S
      PROVE  r \in S
  <2> SUFFICES ASSUME ~UnionsDiffer(r) PROVE Rows(NormalizeRightJoins(r), d) = Rows(r, d)
    OBVIOUS
  <2> DEFINE ins == NormalInputs(r)
  <2>1. WellMade(r) /\ Inputs(r) \in Seq(Relations)
    BY InputsAre DEF WellMade
  <2>2. \A i \in DOMAIN Inputs(r) : ins[i] = NormalizeRightJoins(Inputs(r)[i]) /\ Inputs(r)[i] \in Relations
    BY InputsAre DEF NormalInputs
  <2>3. ins \in Seq(Relations) /\ Len(ins) = Len(Inputs(r)) /\ DOMAIN ins = DOMAIN Inputs(r)
    BY <2>1, <2>2, NormalIsRelation DEF NormalInputs
  <2>4. \A i \in DOMAIN Inputs(r) : Rows(ins[i], d) = Rows(Inputs(r)[i], d) /\ Width(ins[i]) = Width(Inputs(r)[i])
    <3> SUFFICES ASSUME NEW i \in DOMAIN Inputs(r)
                 PROVE  Rows(ins[i], d) = Rows(Inputs(r)[i], d) /\ Width(ins[i]) = Width(Inputs(r)[i])
      OBVIOUS
    <3>1. Inputs(r)[i] \in S /\ ~UnionsDiffer(Inputs(r)[i])
      BY <1>1, InputsAre, DifferInside
    <3> QED
      BY <2>2, <3>1, NormalWidth
  <2>5. NormalizeRightJoins(r) = IF IsRightJoin(r) THEN Swapped(r, ins[1], ins[2]) ELSE WithInputs(r, ins)
    BY NormalIs
  <2> HIDE DEF ins
  <2>6. CASE ~IsRightJoin(r)
    BY <2>3, <2>4, <2>5, <2>6, SameRowsInside
  <2>7. CASE IsRightJoin(r)
    <3> DEFINE type == RightJoins[r.type]
               on == SwapJoinOn(r.on)
               x == ins[2]
               y == ins[1]
               j == Join(x, y, on, type)
               m == Width(r.left)
               n == Width(r.right)
               s == Project(j, ReorderColumns(m, n))
               left == Rows(r.left, d)
               right == Rows(r.right, d)
               match == Matching(r.on, left, right)
               hctam == Matching(on, right, left)
    <3>1. r.op = "Join" /\ IsJoin(r) /\ Inputs(r) = <<r.left, r.right>> /\ r.left \in Relations /\ r.right \in Relations
      BY <2>1, <2>7, ByOp DEF IsRightJoin, WellMade, IsJoin
    <3>2. 1 \in DOMAIN Inputs(r) /\ 2 \in DOMAIN Inputs(r) /\ Inputs(r)[1] = r.left /\ Inputs(r)[2] = r.right
      BY <3>1
    <3>3. x \in Relations /\ y \in Relations /\ Width(y) = m /\ Width(x) = n /\ Rows(y, d) = left /\ Rows(x, d) = right
      <4>1. 1 \in DOMAIN ins /\ 2 \in DOMAIN ins
        BY <2>3, <3>2
      <4>2. x \in Relations /\ y \in Relations
        BY <2>3, <4>1
      <4> QED
        BY <2>4, <3>2, <4>2
    <3>4. /\ r.type \in {"Right", "RightSemi", "RightAnti"}
          /\ r.type = "Right" => type = "Left"
          /\ r.type = "RightSemi" => type = "LeftSemi"
          /\ r.type = "RightAnti" => type = "LeftAnti"
          /\ j \in Relations /\ ReorderColumns(m, n) \in Seq(Expressions)
      BY <2>7, <3>3, SwappedIs
    <3>5. NormalizeRightJoins(r) = IF r.type # "Right" THEN j ELSE s
      BY <2>5, <2>7 DEF Swapped, ColumnCount
    <3>6. \A a \in DOMAIN left, b \in DOMAIN right : <<b, a>> \in hctam <=> <<a, b>> \in match
      BY <3>1, MatchingSwapped DEF IsJoin
    <3>7. Rows(r, d) = JoinedRows(r.type, left, right, match, Nulls(m), Nulls(n))
      <4> DEFINE v == InputRows(r, d)
      <4>1. v[1] = left /\ v[2] = right
        BY <3>2 DEF InputRows
      <4>2. Rows(r, d) = RowsFrom(r, v, d)
        BY RowsAre
      <4> HIDE DEF v
      <4>3. RowsFrom(r, v, d) = JoinedRows(r.type, v[1], v[2], Matching(r.on, v[1], v[2]), Nulls(m), Nulls(n))
        BY <3>1 DEF RowsFrom
      <4> QED
        BY <4>1, <4>2, <4>3
    <3>8. Rows(j, d) = JoinedRows(type, right, left, hctam, Nulls(n), Nulls(m))
      <4> DEFINE v == InputRows(j, d)
      <4> HIDE DEF type, on, x, y, m, n
      <4>1. j.op = "Join" /\ j.type = type /\ j.on = on /\ j.left = x /\ j.right = y /\ Inputs(j) = <<x, y>>
        BY OfJoin DEF Join
      <4> HIDE DEF j
      <4>2. 1 \in DOMAIN Inputs(j) /\ 2 \in DOMAIN Inputs(j) /\ Inputs(j)[1] = x /\ Inputs(j)[2] = y
        BY <4>1
      <4>3. v[1] = right /\ v[2] = left
        BY <3>3, <4>2 DEF InputRows
      <4>4. Rows(j, d) = RowsFrom(j, v, d)
        BY <3>4, RowsAre
      <4> HIDE DEF v
      <4>5. RowsFrom(j, v, d) = JoinedRows(type, v[1], v[2], Matching(on, v[1], v[2]), Nulls(Width(x)), Nulls(Width(y)))
        BY <4>1 DEF RowsFrom
      <4> QED
        BY <3>3, <4>3, <4>4, <4>5
    <3>9. m \in Nat /\ n \in Nat
      BY <3>1, WidthIsNat
    <3>10. IsTable(left, m) /\ IsTable(right, n)
      <4>1. RightRows(r.left, d) /\ RightRows(r.right, d)
        BY <3>1, RowsAreTables
      <4>2. ~UnionsDiffer(r.left) /\ ~UnionsDiffer(r.right)
        BY <3>2, DifferInside
      <4> QED
        BY <4>1, <4>2 DEF RightRows
    <3> HIDE DEF type, on, x, y, left, right, match, hctam
    <3>11. CASE r.type = "RightSemi"
      <4>1. Rows(r, d) = Kept(right, MatchingOf(left, right, match))
        BY <3>7, <3>11, JoinedIs
      <4>2. Rows(j, d) = Kept(right, MatchedOf(right, left, hctam))
        BY <3>4, <3>8, <3>11, JoinedIs
      <4> HIDE DEF j, s
      <4> QED
        BY <3>5, <3>6, <3>11, <4>1, <4>2, SwappedKeeps
    <3>12. CASE r.type = "RightAnti"
      <4>1. Rows(r, d) = Kept(right, NoMatchingOf(left, right, match))
        BY <3>7, <3>12, JoinedIs
      <4>2. Rows(j, d) = Kept(right, UnmatchedOf(right, left, hctam))
        BY <3>4, <3>8, <3>12, JoinedIs
      <4> HIDE DEF j, s
      <4> QED
        BY <3>5, <3>6, <3>12, <4>1, <4>2, SwappedKeeps
    <3>13. CASE r.type = "Right"
      <4> DEFINE padding == <<Nulls(m)>>
      <4>1. Rows(r, d) = FromRight(left, right, match, padding)
        BY <3>7, <3>13, JoinedIs
      <4>2. Rows(j, d) = FromLeft(right, left, hctam, padding)
        BY <3>4, <3>8, <3>13, JoinedIs
      <4>3. IsTable(padding, m)
        BY <3>9, NullsAreTable
      <4> HIDE DEF j, padding, m, n
      <4>4. s \in Relations /\ s.op = "Project" /\ s.exprs = ReorderColumns(m, n) /\ Inputs(s) = <<j>>
        BY <3>4, Closed, OfProject
      <4> HIDE DEF s
      <4>5. Rows(s, d) = ProjectRows(ReorderColumns(m, n), Rows(j, d))
        BY <4>4, RowsOfProject
      <4>6. FromRight(left, right, match, padding) = ProjectRows(ReorderColumns(m, n), FromLeft(right, left, hctam, padding))
        BY <3>6, <3>9, <3>10, <4>3, SwappedJoins
      <4> QED
        BY <3>5, <3>13, <4>1, <4>2, <4>5, <4>6
    <3> QED
      BY <3>4, <3>11, <3>12, <3>13
  <2> QED
    BY <2>6, <2>7
<1> HIDE DEF S
<1>2. \A r \in Relations : r \in S
  BY <1>1, RelationInduction
<1> QED
  BY <1>2 DEF S

------------------------------------------------------------------------------

\* What the passes made of the request so far: nothing, its normal form, or that with everything
\* pushed down.
Rewritten ==
    /\ documents \in Databases /\ request \in Relations
    /\ pc = "normalize" => relation = request
    /\ pc = "pushdown" => relation = NormalizeRightJoins(request)
    /\ pc \in LaterSteps => relation = PushdownPredicates(NormalizeRightJoins(request))

\* That is what every step keeps.
LEMMA RewrittenInvariant == PassesSpec => []Rewritten
<1>1. PassesInit => Rewritten
  BY RequestsAssumption DEF PassesInit, Rewritten, LaterSteps
<1>2. Rewritten /\ [PassesNext]_passes => Rewritten'
  <2> SUFFICES ASSUME Rewritten, [PassesNext]_passes PROVE Rewritten'
    OBVIOUS
  <2>1. CASE NormalizeRelation
    BY <2>1 DEF NormalizeRelation, Rewritten, LaterSteps
  <2>2. CASE PushdownRelation
    BY <2>2 DEF PushdownRelation, Rewritten, LaterSteps
  <2>3. CASE \E step \in LaterSteps : Proceed(step)
    BY <2>3 DEF Proceed, LaterSteps, Rewritten
  <2>4. CASE UNCHANGED passes
    BY <2>4 DEF passes, Rewritten
  <2> QED
    BY <2>1, <2>2, <2>3, <2>4 DEF PassesNext
<1> QED
  BY <1>1, <1>2, PTL DEF PassesSpec

\* normalize_right_joins and pushdown_predicates change how the rows of a request are computed, not
\* which they are nor their order: after each of them the relation has, for any documents of the
\* collections, the rows of the request, unless a union in it is of relations that differ in the
\* number of columns.  A right join becomes the left join the other way round, with its columns put
\* back in their order; a filter or a sort below a projection decides by what the projection would
\* have computed.
THEOREM PassesPreserveRowsAlways ==
    ASSUME NEW leaves, NEW rank, NEW height, FiniteTrees(leaves, rank, height)
    PROVE  PassesSpec => []PassesPreserveRows
<1>1. Rewritten => PassesPreserveRows
  <2> SUFFICES ASSUME Rewritten, pc \in {"pushdown", "extract"}, ~UnionsDiffer(request)
               PROVE  Rows(relation, documents) = Rows(request, documents)
    BY DEF PassesPreserveRows
  <2> DEFINE r == NormalizeRightJoins(request)
  <2>1. documents \in Databases /\ request \in Relations
    BY DEF Rewritten
  <2>2. r \in Relations /\ Rows(r, documents) = Rows(request, documents)
    BY <2>1, NormalIsRelation, NormalKeepsRows
  <2> HIDE DEF r
  <2>3. Rows(PushdownPredicates(r), documents) = Rows(r, documents)
    BY <2>1, <2>2, PushKeepsRows
  <2>4. relation = r \/ relation = PushdownPredicates(r)
    BY DEF Rewritten, LaterSteps, r
  <2> QED
    BY <2>2, <2>3, <2>4
<1> QED
  BY <1>1, RewrittenInvariant, PTL

------------------------------------------------------------------------------
\* Pipelines of native queries

\* What there is of an input, of what has one
LEMMA FirstInput ==
    ASSUME NEW leaves, NEW rank, NEW height, FiniteTrees(leaves, rank, height), NEW r \in Relations, r.op # "From"
    PROVE  1 \in DOMAIN Inputs(r) /\ Inputs(r)[1] \in Relations /\ height[Inputs(r)[1]] < height[r]
<1>1. WellMade(r)
  BY InputsAre
<1>2. 1 \in DOMAIN Inputs(r)
  <2>1. r.op \notin {"Join", "Union"} => Inputs(r) = <<r.input>>
    BY <1>1 DEF WellMade
  <2>2. r.op = "Join" => Inputs(r) = <<r.left, r.right>>
    BY <1>1 DEF WellMade
  <2>3. r.op = "Union" => Inputs(r) \in Seq(Relations) /\ Inputs(r) # <<>>
    BY <1>1, ByOp DEF WellMade, IsUnion
  <2> QED
    BY <2>1, <2>2, <2>3
<1> QED
  BY <1>2, InputsAre

\* The source of a relation is that of its first input.
LEMMA RootIs ==
    ASSUME NEW leaves, NEW rank, NEW height, FiniteTrees(leaves, rank, height), NEW r \in Relations
    PROVE  RootCollection(r) = CASE r.op = "From" -> r.collection [] r.op = "Union" -> Null
                                 [] OTHER -> RootCollection(Inputs(r)[1])
<1> DEFINE Body(f, x) == CASE x.op = "From" -> x.collection [] x.op = "Union" -> Null [] OTHER -> f[Inputs(x)[1]]
           root == CHOOSE f : f = [x \in Relations |-> Body(f, x)]
<1>1. \A x : RootCollection(x) = root[x]
  BY DEF RootCollection
<1>2. PICK f : Defines("root", Null, Relations, f)
  BY RelationsFounded, Recursion
<1>3. ASSUME NEW x \in Relations PROVE Made("root", Null, x, Given("root", x, f)) = Body(f, x)
  <2> DEFINE v == Given("root", x, f)
  <2>1. x.op # "From" => v[1] = f[Inputs(x)[1]]
    BY RelationsFounded, FirstInput DEF Given
  <2> HIDE DEF v
  <2>2. Made("root", Null, x, v) = Body(f, x)
    BY <2>1 DEF Made
  <2> QED
    BY <2>2 DEF v
<1>4. f = [x \in Relations |-> Body(f, x)]
  <2> HIDE DEF Body
  <2> QED
    BY <1>2, <1>3 DEF Defines
<1>5. root = [x \in Relations |-> Body(root, x)]
  <2> HIDE DEF Body
  <2> QED
    BY <1>4
<1> HIDE DEF root
<1>6. root[r] = Body(root, r)
  <2> HIDE DEF Body
  <2> QED
    BY <1>5
<1> QED
  BY <1>1, <1>6

\* The filter that an early match is made from is the first below the relation that it can be.
LEMMA EarlyIs ==
    ASSUME NEW leaves, NEW rank, NEW height, FiniteTrees(leaves, rank, height), NEW r \in Relations
    PROVE  EarlyFilter(r) = CASE r.op \in {"Union", "From"} -> Null
                              [] r.op = "Filter" /\ EarlyDocument(r) # Null -> r
                              [] OTHER -> EarlyFilter(Inputs(r)[1])
<1> DEFINE Body(f, x) == CASE x.op \in {"Union", "From"} -> Null
                           [] x.op = "Filter" /\ EarlyDocument(x) # Null -> x
                           [] OTHER -> f[Inputs(x)[1]]
           early == CHOOSE f : f = [x \in Relations |-> Body(f, x)]
<1>1. \A x : EarlyFilter(x) = early[x]
  BY DEF EarlyFilter
<1>2. PICK f : Defines("early", Null, Relations, f)
  BY RelationsFounded, Recursion
<1>3. ASSUME NEW x \in Relations PROVE Made("early", Null, x, Given("early", x, f)) = Body(f, x)
  <2> DEFINE v == Given("early", x, f)
  <2>1. x.op # "From" => v[1] = f[Inputs(x)[1]]
    BY RelationsFounded, FirstInput DEF Given
  <2> HIDE DEF v
  <2>2. Made("early", Null, x, v) = Body(f, x)
    BY <2>1 DEF Made
  <2> QED
    BY <2>2 DEF v
<1>4. f = [x \in Relations |-> Body(f, x)]
  <2> HIDE DEF Body
  <2> QED
    BY <1>2, <1>3 DEF Defines
<1>5. early = [x \in Relations |-> Body(early, x)]
  <2> HIDE DEF Body
  <2> QED
    BY <1>4
<1> HIDE DEF early
<1>6. early[r] = Body(early, r)
  <2> HIDE DEF Body
  <2> QED
    BY <1>5
<1> QED
  BY <1>1, <1>6

\* What is built first is lower: optimizing a member of a union makes it no higher.
LEMMA BuiltFirstIs ==
    ASSUME NEW leaves, NEW rank, NEW height, FiniteTrees(leaves, rank, height), NEW r \in Relations
    PROVE  /\ BuiltFirst(r) \in Seq(Relations)
           /\ \A i \in DOMAIN BuiltFirst(r) : BuiltFirst(r)[i] \in Relations /\ height[BuiltFirst(r)[i]] < height[r]
           /\ r.op # "Union" => BuiltFirst(r) = Inputs(r)
           /\ r.op = "Union" => Len(BuiltFirst(r)) = Len(r.relations) /\ Len(r.relations) \in Nat \ {0}
           /\ r.op # "From" => 1 \in DOMAIN BuiltFirst(r) /\ BuiltFirst(r)[1] = Inputs(r)[1]
<1>1. CASE r.op # "Union"
  BY <1>1, InputsAre, FirstInput DEF BuiltFirst, WellMade
<1>2. CASE r.op = "Union"
  <2> DEFINE rs == r.relations
             n == Len(rs)
             others == [i \in 1..(n - 1) |-> Optimized(rs[i + 1])]
  <2>1. Inputs(r) = rs /\ rs \in Seq(Relations) /\ rs # <<>>
    BY <1>2, InputsAre, ByOp DEF WellMade, IsUnion
  <2>2. n \in Nat /\ n # 0 /\ DOMAIN rs = 1..n
    BY <2>1
  <2>3. \A r1 \in Relations : height[r1] \in Nat
    BY DEF FiniteTrees
  <2>4. \A i \in 1..n : rs[i] \in Relations /\ height[rs[i]] < height[r]
    BY <2>1, <2>2, InputsAre
  <2>5. ASSUME NEW m \in Relations, height[m] < height[r] PROVE Optimized(m) \in Relations /\ height[Optimized(m)] < height[r]
    <3> DEFINE k == NormalizeRightJoins(m)
    <3>1. k \in Relations /\ height[k] <= height[m]
      BY NormalIsRelation, NormalNoHigher
    <3> HIDE DEF k
    <3>2. PushdownPredicates(k) \in Relations /\ height[PushdownPredicates(k)] <= height[k]
      BY <3>1, PushIs
    <3> QED
      BY <2>3, <2>5, <3>1, <3>2 DEF Optimized, k
  <2>6. \A i \in 1..(n - 1) : others[i] \in Relations /\ height[others[i]] < height[r]
    <3> SUFFICES ASSUME NEW i \in 1..(n - 1) PROVE Optimized(rs[i + 1]) \in Relations /\ height[Optimized(rs[i + 1])] < height[r]
      OBVIOUS
    <3>1. i + 1 \in 1..n
      BY <2>2
    <3> QED
      BY <2>4, <2>5, <3>1
  <2>7. others \in Seq(Relations) /\ Len(others) = n - 1 /\ DOMAIN others = 1..(n - 1)
    <3>1. n - 1 \in Nat
      BY <2>2
    <3> HIDE DEF n
    <3>2. others \in [1..(n - 1) -> Relations]
      BY <2>6
    <3> QED
      BY <3>1, <3>2, SeqDef
  <2>8. BuiltFirst(r) = <<rs[1]>> \o others
    BY <1>2 DEF BuiltFirst
  <2>9. rs[1] \in Relations /\ height[rs[1]] < height[r]
    BY <2>2, <2>4
  <2> HIDE DEF others, n, rs
  <2>10. BuiltFirst(r) \in Seq(Relations) /\ Len(BuiltFirst(r)) = n /\ BuiltFirst(r)[1] = rs[1]
    BY <2>2, <2>7, <2>8, <2>9
  <2>11. ASSUME NEW i \in 1..n PROVE height[BuiltFirst(r)[i]] < height[r]
    <3>1. CASE i = 1
      BY <2>9, <2>10, <3>1
    <3>2. CASE i # 1
      <4>1. BuiltFirst(r)[i] = others[i - 1] /\ i - 1 \in 1..(n - 1)
        BY <2>2, <2>7, <2>8, <2>9, <3>2
      <4> QED
        BY <2>6, <4>1
    <3> QED
      BY <3>1, <3>2
  <2>12. DOMAIN BuiltFirst(r) = 1..n /\ \A i \in 1..n : BuiltFirst(r)[i] \in Relations
    BY <2>2, <2>10
  <2> QED
    BY <1>2, <2>1, <2>2, <2>10, <2>11, <2>12 DEF rs, n
<1> QED
  BY <1>1, <1>2

\* What is built first for a relation
FirstContexts(r) == [i \in DOMAIN BuiltFirst(r) |-> Build(BuiltFirst(r)[i])]

\* A pipeline is built from those of what is built first.
LEMMA BuildIs ==
    ASSUME NEW leaves, NEW rank, NEW height, FiniteTrees(leaves, rank, height), NEW r \in Relations
    PROVE  Build(r) = BuiltFrom(r, FirstContexts(r))
<1> DEFINE Body(f, x) == BuiltFrom(x, [i \in DOMAIN BuiltFirst(x) |-> f[BuiltFirst(x)[i]]])
           build == CHOOSE f : f = [x \in Relations |-> Body(f, x)]
<1>1. \A x : Build(x) = build[x]
  BY DEF Build
<1>2. PICK f : Defines("build", Null, Relations, f)
  <2>1. Founded("build", Relations, height)
    BY BuiltFirstIs DEF Founded, Parts, FiniteTrees
  <2> QED
    BY <2>1, Recursion
<1>3. \A x : Made("build", Null, x, Given("build", x, f)) = Body(f, x)
  BY DEF Made, Given, Parts
<1>4. f = [x \in Relations |-> Body(f, x)]
  <2> HIDE DEF Body
  <2> QED
    BY <1>2, <1>3 DEF Defines
<1>5. build = [x \in Relations |-> Body(build, x)]
  <2> HIDE DEF Body
  <2> QED
    BY <1>4
<1> HIDE DEF build
<1>6. build[r] = Body(build, r)
  <2> HIDE DEF Body
  <2> QED
    BY <1>5
<1>7. FirstContexts(r) = [i \in DOMAIN BuiltFirst(r) |-> build[BuiltFirst(r)[i]]]
  BY <1>1 DEF FirstContexts
<1> QED
  BY <1>1, <1>6, <1>7

\* The pipelines in a pipeline, level by level
LEMMA PipelinesAre ==
    ASSUME NEW stages
    PROVE  /\ PipelinesIn(stages, 0) = {stages}
           /\ \A n \in Nat : PipelinesIn(stages, n + 1) = Deeper(PipelinesIn(stages, n))
<1> DEFINE Body(f, n) == IF n = 0 THEN {stages} ELSE Deeper(f[n - 1])
           within == CHOOSE f : f = [n \in Nat |-> Body(f, n)]
<1>1. \A n : PipelinesIn(stages, n) = within[n]
  BY DEF PipelinesIn, Deeper
<1>2. PICK f : Defines("within", stages, Nat, f)
  <2> DEFINE size == [n \in Nat |-> n]
  <2>1. Founded("within", Nat, size)
    <3>1. ASSUME NEW x \in Nat, NEW i \in DOMAIN Parts("within", x)
          PROVE  Parts("within", x)[i] \in Nat /\ Parts("within", x)[i] < x
      <4>1. Parts("within", x) = IF x = 0 THEN <<>> ELSE <<x - 1>>
        BY DEF Parts
      <4> QED
        BY <4>1
    <3> QED
      BY <3>1 DEF Founded
  <2> HIDE DEF size
  <2> QED
    BY <2>1, Recursion
<1>3. ASSUME NEW n \in Nat PROVE Made("within", stages, n, Given("within", n, f)) = Body(f, n)
  <2> DEFINE v == Given("within", n, f)
  <2>1. Parts("within", n) = IF n = 0 THEN <<>> ELSE <<n - 1>>
    BY DEF Parts
  <2>2. n # 0 => v[1] = f[n - 1]
    BY <2>1 DEF Given
  <2> HIDE DEF v
  <2>3. Made("within", stages, n, v) = IF n = 0 THEN {stages} ELSE Deeper(v[1])
    BY DEF Made
  <2> QED
    BY <2>2, <2>3 DEF v
<1>4. f = [n \in Nat |-> Body(f, n)]
  <2> HIDE DEF Body
  <2> QED
    BY <1>2, <1>3 DEF Defines
<1>5. within = [n \in Nat |-> Body(within, n)]
  <2> HIDE DEF Body
  <2> QED
    BY <1>4
<1> HIDE DEF within
<1>6. \A n \in Nat : within[n] = Body(within, n)
  <2> HIDE DEF Body
  <2> QED
    BY <1>5
<1>7. within[0] = {stages}
  BY <1>6
<1>8. ASSUME NEW n \in Nat PROVE within[n + 1] = Deeper(within[n])
  <2>1. n + 1 \in Nat /\ n + 1 # 0 /\ (n + 1) - 1 = n
    OBVIOUS
  <2> QED
    BY <1>6, <2>1
<1> QED
  BY <1>1, <1>7, <1>8

------------------------------------------------------------------------------
\* Stages and what may follow them

\* A native query is the first stage, in a pipeline and in all there are in it.
FirstIn(stages)      == \A i \in DOMAIN stages : stages[i].op = "native" => i = 1
FirstInAll(stages)   == \A n \in Nat : \A p \in PipelinesIn(stages, n) : FirstIn(p)
WithinStage(stage)   == "pipeline" \in DOMAIN stage => FirstInAll(stage.pipeline)

\* It is in those a pipeline is made of, if it is in each of its stages.
LEMMA FirstInside ==
    ASSUME NEW stages, FirstIn(stages), \A i \in DOMAIN stages : WithinStage(stages[i])
    PROVE  FirstInAll(stages)
<1> DEFINE Seen(p) == p = stages \/ \E i \in DOMAIN stages, m \in Nat :
                          "pipeline" \in DOMAIN stages[i] /\ p \in PipelinesIn(stages[i].pipeline, m)
           S == {n \in Nat : \A p \in PipelinesIn(stages, n) : Seen(p)}
           size == [n \in Nat |-> n]
<1>1. ASSUME NEW n \in Nat, \A m \in Nat : size[m] < size[n] => m \in S
      PROVE  n \in S
  <2>1. CASE n = 0
    BY <2>1, PipelinesAre
  <2>2. CASE n # 0
    <3> DEFINE k == n - 1
    <3>1. k \in Nat /\ k < n /\ n = k + 1
      BY <2>2
    <3>2. k \in S
      BY <1>1, <3>1
    <3>3. PipelinesIn(stages, n) = Deeper(PipelinesIn(stages, k))
      BY <3>1, PipelinesAre
    <3> SUFFICES ASSUME NEW p \in PipelinesIn(stages, n) PROVE Seen(p)
      OBVIOUS
    <3> HIDE DEF k
    <3>4. CASE p \in PipelinesIn(stages, k)
      BY <3>2, <3>4
    <3>5. CASE p \notin PipelinesIn(stages, k)
      <4>1. PICK q \in PipelinesIn(stages, k) : \E s \in ToSet(q) : "pipeline" \in DOMAIN s /\ p = s.pipeline
        BY <3>3, <3>5 DEF Deeper
      <4>0. PICK s \in ToSet(q) : "pipeline" \in DOMAIN s /\ p = s.pipeline
        BY <4>1
      <4>2. Seen(q)
        BY <3>2, <4>1
      <4>3. CASE q = stages
        <5>1. PICK i \in DOMAIN stages : s = stages[i]
          BY <4>0, <4>3 DEF ToSet
        <5>2. p \in PipelinesIn(stages[i].pipeline, 0) /\ 0 \in Nat
          BY <4>0, <5>1, PipelinesAre
        <5> QED
          BY <4>0, <5>1, <5>2
      <4>4. CASE q # stages
        <5>1. PICK i \in DOMAIN stages, m \in Nat :
                  "pipeline" \in DOMAIN stages[i] /\ q \in PipelinesIn(stages[i].pipeline, m)
          BY <4>2, <4>4
        <5>2. PipelinesIn(stages[i].pipeline, m + 1) = Deeper(PipelinesIn(stages[i].pipeline, m))
          BY <5>1, PipelinesAre
        <5>3. p \in PipelinesIn(stages[i].pipeline, m + 1) /\ m + 1 \in Nat
          BY <4>0, <4>1, <5>1, <5>2 DEF Deeper
        <5> QED
          BY <5>1, <5>3
      <4> QED
        BY <4>3, <4>4
    <3> QED
      BY <3>4, <3>5
  <2> QED
    BY <2>1, <2>2
<1>2. size \in [Nat -> Nat]
  OBVIOUS
<1> HIDE DEF S, size
<1>3. \A n \in Nat : n \in S
  BY <1>1, <1>2, SizeInduction
<1> SUFFICES ASSUME NEW n \in Nat, NEW p \in PipelinesIn(stages, n) PROVE FirstIn(p)
  BY DEF FirstInAll
<1>4. Seen(p)
  BY <1>3 DEF S
<1>5. CASE p = stages
  BY <1>5
<1>6. CASE p # stages
  <2>1. PICK i \in DOMAIN stages, m \in Nat :
            "pipeline" \in DOMAIN stages[i] /\ p \in PipelinesIn(stages[i].pipeline, m)
    BY <1>4, <1>6
  <2> QED
    BY <2>1 DEF WithinStage, FirstInAll
<1> QED
  BY <1>5, <1>6

\* The stages of a pipeline for a relation: that of a native query is the first, and there is none unless
\* the source is one or there is no one source.
Leads(r, stages) ==
    /\ IsList(stages)
    /\ \A i \in DOMAIN stages : WithinStage(stages[i])
    /\ \A i \in DOMAIN stages : stages[i].op = "native" => i = 1 /\ RootCollection(r) \in DOMAIN NativeQueries \cup {Null}

\* Stages that may come after others
Follows(stages) ==
    IsList(stages) /\ \A i \in DOMAIN stages : stages[i].op # "native" /\ WithinStage(stages[i])

\* What is in two sequences, one behind the other
LEMMA ListJoined ==
    ASSUME NEW a, NEW b, IsList(a), IsList(b), NEW i \in DOMAIN (a \o b)
    PROVE  \/ i \in DOMAIN a /\ (a \o b)[i] = a[i]
           \/ i - Len(a) \in DOMAIN b /\ (a \o b)[i] = b[i - Len(a)]
<1> DEFINE S == ToSet(a) \cup ToSet(b)
<1>1. a \in Seq(ToSet(a)) /\ b \in Seq(ToSet(b))
  BY DEF IsList
<1>2. a \in Seq(S) /\ b \in Seq(S)
  BY <1>1, SeqMonotonic
<1> HIDE DEF S
<1>3. DOMAIN (a \o b) = 1..(Len(a) + Len(b)) /\ DOMAIN a = 1..Len(a) /\ DOMAIN b = 1..Len(b)
      /\ Len(a) \in Nat /\ Len(b) \in Nat
  BY <1>2
<1>4. (a \o b)[i] = IF i <= Len(a) THEN a[i] ELSE b[i - Len(a)]
  BY <1>2, <1>3
<1> QED
  BY <1>3, <1>4

\* More stages may follow.
LEMMA LeadsOn ==
    ASSUME NEW r, NEW s, NEW a, NEW b, Leads(s, a), Follows(b), RootCollection(r) \in {RootCollection(s), Null}
    PROVE  Leads(r, a \o b)
<1>1. IsList(a) /\ IsList(b)
  BY DEF Leads, Follows
<1>2. IsList(a \o b) /\ Len(a \o b) = Len(a) + Len(b) /\ Len(a) \in Nat /\ Len(b) \in Nat
  BY <1>1, BehindIsList, ListDomain
<1>4. \A i \in DOMAIN (a \o b) : \/ i \in DOMAIN a /\ (a \o b)[i] = a[i]
                                 \/ i - Len(a) \in DOMAIN b /\ (a \o b)[i] = b[i - Len(a)]
  BY <1>1, ListJoined
<1> QED
  BY <1>2, <1>4 DEF Leads, Follows

\* What leads is first, at every level.
LEMMA LeadsAreFirst ==
    ASSUME NEW r, NEW stages, Leads(r, stages)
    PROVE  FirstInAll(stages)
BY FirstInside DEF Leads, FirstIn

\* What a relation has for a context
IsBuilt(r, ctx) == "stages" \in DOMAIN ctx /\ Leads(r, ctx.stages)

\* There is an early match only for a relation of one source that is no native query.
LEMMA EarlyMatchIsFirst ==
    ASSUME NEW leaves, NEW rank, NEW height, FiniteTrees(leaves, rank, height), NEW r \in Relations,
           ExtractEarlyMatch(r) # Null
    PROVE  RootCollection(r) \notin DOMAIN NativeQueries \cup {Null}
<1> DEFINE S == {x \in Relations : EarlyFilter(x) = Null \/ RootCollection(x) # Null}
<1>1. ASSUME NEW x \in Relations, \A y \in Relations : height[y] < height[x] => y \in S
      PROVE  x \in S
  <2>1. CASE x.op \in {"Union", "From"}
    BY <2>1, EarlyIs
  <2>2. CASE x.op = "Filter" /\ EarlyDocument(x) # Null
    <3>1. RootCollection(x) = RootCollection(Inputs(x)[1])
      BY <2>2, RootIs
    <3>2. Inputs(x) = <<x.input>>
      BY <2>2, InputsAre DEF WellMade
    <3>3. RootCollection(x.input) # Null
      BY <2>2 DEF EarlyDocument
    <3> QED
      BY <3>1, <3>2, <3>3
  <2>3. CASE x.op \notin {"Union", "From"} /\ ~(x.op = "Filter" /\ EarlyDocument(x) # Null)
    <3>1. EarlyFilter(x) = EarlyFilter(Inputs(x)[1]) /\ RootCollection(x) = RootCollection(Inputs(x)[1])
      BY <2>3, EarlyIs, RootIs
    <3>2. Inputs(x)[1] \in S
      BY <1>1, <2>3, FirstInput
    <3> QED
      BY <3>1, <3>2
  <2> QED
    BY <2>1, <2>2, <2>3
<1> HIDE DEF S
<1>2. \A x \in Relations : x \in S
  BY <1>1, RelationInduction
<1> QED
  BY <1>2 DEF S, ExtractEarlyMatch, RootTargetsNativeQuery

\* A stage that is no native query and has no pipeline, or only one that such begin
FollowingStage(stage) == stage.op # "native" /\ WithinStage(stage)

\* Stages that may follow do so in sequences too.
LEMMA FollowingOne ==
    ASSUME NEW a, FollowingStage(a)
    PROVE  Follows(<<a>>)
<1>1. <<a>> \in Seq({a})
  OBVIOUS
<1>2. IsList(<<a>>)
  BY <1>1, SequenceIsList
<1>3. \A i \in DOMAIN <<a>> : <<a>>[i] = a
  OBVIOUS
<1> HIDE DEF Follows
<1> QED
  BY <1>2, <1>3 DEF Follows, FollowingStage

LEMMA FollowingMany ==
    ASSUME NEW a, NEW b, NEW c, FollowingStage(a), FollowingStage(b), FollowingStage(c)
    PROVE  Follows(<<a, b>>) /\ Follows(<<a, b, c>>)
<1>1. <<a, b>> \in Seq({a, b}) /\ <<a, b, c>> \in Seq({a, b, c})
  OBVIOUS
<1>2. IsList(<<a, b>>) /\ IsList(<<a, b, c>>)
  BY <1>1, SequenceIsList
<1>3. /\ \A i \in DOMAIN <<a, b>> : <<a, b>>[i] \in {a, b}
      /\ \A i \in DOMAIN <<a, b, c>> : <<a, b, c>>[i] \in {a, b, c}
  OBVIOUS
<1> QED
  BY <1>2, <1>3 DEF Follows, FollowingStage

LEMMA FollowingFunction ==
    ASSUME NEW n \in Nat, NEW f, f = [i \in 1..n |-> f[i]], \A i \in 1..n : FollowingStage(f[i])
    PROVE  Follows(f)
BY FunctionIsList DEF Follows, FollowingStage

\* Without a native query, it does not matter what they are for.
LEMMA FollowingLeads ==
    ASSUME NEW r, NEW stages, Follows(stages)
    PROVE  Leads(r, stages)
BY DEF Follows, Leads

\* An early match comes before a pipeline that has no native query first.
LEMMA WithEarlyMatchIs ==
    ASSUME NEW leaves, NEW rank, NEW height, FiniteTrees(leaves, rank, height), NEW r \in Relations,
           NEW ctx, IsBuilt(r, ctx), NEW query \in {Null, ExtractEarlyMatch(r)}
    PROVE  FirstInAll(WithEarlyMatch(query, ctx).stages)
<1>1. CASE query = Null
  BY <1>1, LeadsAreFirst DEF WithEarlyMatch, IsBuilt
<1>2. CASE query # Null
  <2> DEFINE stage == [op |-> "$match", query |-> query]
             stages == ctx.stages
  <2>1. \A i \in DOMAIN stages : stages[i].op # "native"
    BY <1>2, EarlyMatchIsFirst DEF IsBuilt, Leads
  <2>2. Follows(stages)
    BY <2>1 DEF Follows, IsBuilt, Leads
  <2>3. Leads(r, <<stage>>)
    <3>1. FollowingStage(stage)
      BY DEF WithinStage, FollowingStage
    <3> HIDE DEF stage
    <3> QED
      BY <3>1, FollowingOne, FollowingLeads
  <2>4. WithEarlyMatch(query, ctx).stages = <<stage>> \o stages
    BY <1>2 DEF WithEarlyMatch, IsBuilt
  <2> HIDE DEF stage, stages
  <2>5. Leads(r, <<stage>> \o stages)
    BY <2>2, <2>3, LeadsOn
  <2> QED
    BY <2>4, <2>5, LeadsAreFirst
<1> QED
  BY <1>1, <1>2

\* ... and one sequence after the other.
LEMMA FollowingBoth ==
    ASSUME NEW a, NEW b, Follows(a), Follows(b)
    PROVE  Follows(a \o b)
<1>2. IsList(a) /\ IsList(b)
  BY DEF Follows
<1>3. IsList(a \o b) /\ Len(a \o b) = Len(a) + Len(b) /\ Len(a) \in Nat /\ Len(b) \in Nat
  BY <1>2, BehindIsList, ListDomain
<1>4. \A i \in DOMAIN (a \o b) : \/ i \in DOMAIN a /\ (a \o b)[i] = a[i]
                                 \/ i - Len(a) \in DOMAIN b /\ (a \o b)[i] = b[i - Len(a)]
  BY <1>2, ListJoined
<1> QED
  BY <1>3, <1>4 DEF Follows

\* The stages of one operation are none of a native query.
LEMMA MatchFollows ==
    ASSUME NEW predicate, NEW columns
    PROVE  Follows(<<MatchStage(predicate, columns)>>)
<1>1. FollowingStage(MatchStage(predicate, columns))
  <2> DEFINE query == QueryDocument(predicate, [i \in DOMAIN columns |-> <<columns[i]>>])
             expr == Translate(predicate, columns)
  <2>1. MatchStage(predicate, columns) \in {[op |-> "$match", query |-> query], [op |-> "$expr", expr |-> expr]}
    BY DEF MatchStage
  <2> HIDE DEF query, expr
  <2> QED
    BY <2>1 DEF FollowingStage, WithinStage
<1> QED
  BY <1>1, FollowingOne

LEMMA SortFollows ==
    ASSUME NEW exprs, NEW columns
    PROVE  Follows(SortStages(exprs, columns))
<1>1. \A keys : FollowingStage([op |-> "$sort", keys |-> keys])
  BY DEF FollowingStage, WithinStage
<1>2. \A fields : FollowingStage([op |-> "$addFields", fields |-> fields])
  BY DEF FollowingStage, WithinStage
<1>3. \A names : FollowingStage([op |-> "$unset", names |-> names])
  BY DEF FollowingStage, WithinStage
<1>4. \A keys : Follows(<< [op |-> "$sort", keys |-> keys] >>)
  BY <1>1, FollowingOne
<1>5. \A fields, keys, names : Follows(<< [op |-> "$addFields", fields |-> fields], [op |-> "$sort", keys |-> keys],
                                          [op |-> "$unset", names |-> names] >>)
  BY <1>1, <1>2, <1>3, FollowingMany
<1> QED
  BY <1>4, <1>5, Zenon DEF SortStages

LEMMA PaginateFollows ==
    ASSUME NEW fetch, NEW skip
    PROVE  Follows(PaginateStages(fetch, skip))
<1> DEFINE a == IF skip > 0 THEN << [op |-> "$skip", count |-> skip] >> ELSE <<>>
           b == IF fetch # Null THEN << [op |-> "$limit", count |-> fetch] >> ELSE <<>>
<1>1. FollowingStage([op |-> "$skip", count |-> skip]) /\ FollowingStage([op |-> "$limit", count |-> fetch])
  BY DEF FollowingStage, WithinStage
<1>2. Follows(<<>>)
  <2>1. <<>> \in Seq({})
    OBVIOUS
  <2>2. IsList(<<>>)
    BY <2>1, SequenceIsList
  <2> QED
    BY <2>2 DEF Follows
<1>3. Follows(a) /\ Follows(b)
  BY <1>1, <1>2, FollowingOne
<1>4. PaginateStages(fetch, skip) = a \o b
  BY DEF PaginateStages
<1> HIDE DEF a, b
<1> QED
  BY <1>3, <1>4, FollowingBoth

LEMMA ProjectFollows ==
    ASSUME NEW exprs, NEW columns
    PROVE  Follows(<<ProjectStage(exprs, columns)>>)
<1>1. FollowingStage(ProjectStage(exprs, columns))
  BY DEF FollowingStage, WithinStage, ProjectStage
<1> QED
  BY <1>1, FollowingOne

LEMMA AggregateFollows ==
    ASSUME NEW group_by, NEW aggregates, NEW columns
    PROVE  Follows(AggregateStages(group_by, aggregates, columns))
<1>1. \A keys, accumulators : FollowingStage([op |-> "$group", key |-> keys, accumulators |-> accumulators])
  BY DEF FollowingStage, WithinStage
<1>2. \A fields : FollowingStage([op |-> "$project", fields |-> fields])
  BY DEF FollowingStage, WithinStage
<1>3. \A keys, accumulators, fields : Follows(<< [op |-> "$group", key |-> keys, accumulators |-> accumulators],
                                                 [op |-> "$project", fields |-> fields] >>)
  BY <1>1, <1>2, FollowingMany
<1> QED
  BY <1>3, Zenon DEF AggregateStages

LEMMA WindowFollows ==
    ASSUME NEW S, NEW exprs \in Seq(S), NEW columns
    PROVE  Follows(WindowStages(exprs, columns))
<1> DEFINE n == Len(exprs)
           window(i) == WindowStages(exprs, columns)[i]
<1>1. n \in Nat /\ DOMAIN exprs = 1..n
  OBVIOUS
<1>2. \A field, output : FollowingStage([op |-> "$setWindowFields", field |-> field, output |-> output])
  BY DEF FollowingStage, WithinStage
<1>3. \A fields : FollowingStage([op |-> "$project", fields |-> fields])
  BY DEF FollowingStage, WithinStage
<1>4. \E f, fields : /\ WindowStages(exprs, columns) = f \o << [op |-> "$project", fields |-> fields] >>
                     /\ f = [i \in 1..n |-> f[i]] /\ \A i \in 1..n : FollowingStage(f[i])
  <2> DEFINE f == [i \in DOMAIN exprs |->
                      [op |-> "$setWindowFields", field |-> "_w" \o ToString(i - 1),
                       output |-> [op |-> WindowOperators[exprs[i].op],
                                   partition |-> [j \in DOMAIN exprs[i].partition_by |->
                                                     FieldPath(exprs[i].partition_by[j], columns)],
                                   sort |-> [j \in DOMAIN exprs[i].order_by |->
                                                [path |-> FieldPath(exprs[i].order_by[j].expr, columns),
                                                 desc |-> exprs[i].order_by[j].desc]]]]]
  <2>1. \E fields : WindowStages(exprs, columns) = f \o << [op |-> "$project", fields |-> fields] >>
    BY Zenon DEF WindowStages
  <2>2. \A i \in 1..n : FollowingStage(f[i])
    BY <1>1, <1>2
  <2>3. f = [i \in 1..n |-> f[i]]
    BY <1>1
  <2> HIDE DEF f
  <2> QED
    BY <2>1, <2>2, <2>3
<1>5. PICK f, fields : /\ WindowStages(exprs, columns) = f \o << [op |-> "$project", fields |-> fields] >>
                       /\ f = [i \in 1..n |-> f[i]] /\ \A i \in 1..n : FollowingStage(f[i])
  BY <1>4
<1>6. Follows(f)
  <2> HIDE DEF n
  <2> QED
    BY <1>1, <1>5, FollowingFunction
<1>7. Follows(<< [op |-> "$project", fields |-> fields] >>)
  BY <1>3, FollowingOne
<1> QED
  BY <1>5, <1>6, <1>7, FollowingBoth

------------------------------------------------------------------------------
\* What is built

\* A source is built from nothing.
LEMMA SourceIsBuilt ==
    ASSUME NEW leaves, NEW rank, NEW height, FiniteTrees(leaves, rank, height), NEW r \in Relations, r.op = "From"
    PROVE  IsBuilt(r, Source(r.collection, r.columns))
<1> DEFINE c == r.collection
           ctx == Source(c, r.columns)
           stage == [op |-> "native", query |-> c]
<1>1. RootCollection(r) = c
  BY RootIs
<1>2. "stages" \in DOMAIN ctx /\ ctx.stages = IF c \in DOMAIN NativeQueries THEN <<stage>> ELSE <<>>
  BY DEF Source
<1>3. WithinStage(stage)
  BY DEF WithinStage
<1> HIDE DEF ctx, stage, c
<1>4. <<stage>> \in Seq({stage}) /\ <<>> \in Seq({stage})
  OBVIOUS
<1>5. IsList(<<stage>>) /\ IsList(<<>>)
  BY <1>4, SequenceIsList
<1>6. \A i \in DOMAIN <<stage>> : <<stage>>[i] = stage /\ i = 1
  OBVIOUS
<1>7. DOMAIN <<>> = {}
  OBVIOUS
<1>8. ASSUME c \in DOMAIN NativeQueries PROVE IsBuilt(r, ctx)
  BY <1>1, <1>2, <1>3, <1>5, <1>6, <1>8 DEF IsBuilt, Leads
<1>9. ASSUME c \notin DOMAIN NativeQueries PROVE IsBuilt(r, ctx)
  BY <1>2, <1>5, <1>7, <1>9 DEF IsBuilt, Leads
<1> QED
  BY <1>8, <1>9 DEF ctx, c

\* What is added to a context may follow what is in it.
LEMMA AddIsBuilt ==
    ASSUME NEW r, NEW s, NEW ctx, IsBuilt(s, ctx), NEW added, Follows(added),
           RootCollection(r) \in {RootCollection(s), Null}
    PROVE  /\ IsBuilt(r, Add(ctx, added))
           /\ \A n : IsBuilt(r, Reshape(ctx, added, n))
           /\ \A columns : IsBuilt(r, UpdateJoinColumnMapping(Add(ctx, added), columns))
<1> DEFINE a == ctx.stages \o added
<1>1. Leads(r, a)
  BY LeadsOn DEF IsBuilt
<1>2. "stages" \in DOMAIN Add(ctx, added) /\ Add(ctx, added).stages = a
  BY DEF Add, IsBuilt
<1> HIDE DEF a
<1>3. \A n : "stages" \in DOMAIN Reshape(ctx, added, n) /\ Reshape(ctx, added, n).stages = a
  BY <1>2 DEF Reshape
<1>4. \A columns : LET c == UpdateJoinColumnMapping(Add(ctx, added), columns) IN "stages" \in DOMAIN c /\ c.stages = a
  BY <1>2 DEF UpdateJoinColumnMapping
<1> QED
  BY <1>1, <1>2, <1>3, <1>4 DEF IsBuilt

\* What a join looks up has a pipeline of its own.
LEMMA LookupFollows ==
    ASSUME NEW r, NEW left, NEW right, IsBuilt(r, right), NEW on
    PROVE  FollowingStage(LookupStage(left, right, on))
<1> DEFINE expr == [op |-> "$expr", expr |-> JoinMatch(on, right.columns)]
           stages == right.stages
           let == Named([i \in DOMAIN on |-> LeftVariable(i)], [i \in DOMAIN on |-> Translate(on[i].left, left.columns)])
           pipeline == Append(stages, expr)
<1>1. LookupStage(left, right, on) = [op |-> "$lookup", from |-> right.target, pipeline |-> pipeline, let |-> let]
  BY DEF LookupStage
<1>2. FollowingStage(expr)
  BY DEF FollowingStage, WithinStage
<1>3. Leads(r, stages)
  BY DEF IsBuilt
<1> HIDE DEF expr, stages, let
<1>4. Leads(r, stages \o <<expr>>)
  BY <1>2, <1>3, FollowingOne, LeadsOn
<1>5. pipeline = stages \o <<expr>>
  <2> DEFINE S == ToSet(stages) \cup {expr}
             T == ToSet(stages)
  <2>1. stages \in Seq(T) /\ T \subseteq S /\ expr \in S
    BY <1>3 DEF Leads, IsList
  <2> HIDE DEF S, T
  <2>2. stages \in Seq(S)
    BY <2>1, SeqMonotonic
  <2> QED
    BY <2>1, <2>2
<1> HIDE DEF pipeline
<1>6. FirstInAll(pipeline)
  BY <1>4, <1>5, LeadsAreFirst
<1> QED
  BY <1>1, <1>6 DEF FollowingStage, WithinStage

\* A join is built on its left side.
LEMMA JoinIsBuilt ==
    ASSUME NEW r, NEW s, NEW t, NEW left, NEW right, IsBuilt(s, left), IsBuilt(t, right), NEW on, NEW type,
           RootCollection(r) = RootCollection(s)
    PROVE  IsBuilt(r, JoinContext(left, right, on, type))
<1> DEFINE lookup == LookupStage(left, right, on)
           unwind == [op |-> "$unwind", preserve |-> type = "Left"]
           nonempty == [op |-> "$nonempty", value |-> type = "LeftSemi"]
           both == JoinProject(left.columns, right.columns)
           one == JoinProject(left.columns, <<>>)
<1>1. FollowingStage(lookup)
  BY LookupFollows
<1>2. FollowingStage(unwind) /\ FollowingStage(nonempty) /\ FollowingStage(both) /\ FollowingStage(one)
  BY DEF FollowingStage, WithinStage, JoinProject
<1>3. JoinContext(left, right, on, type)
      \in {UpdateJoinColumnMapping(Add(left, <<lookup, unwind, both>>), right.columns), Add(left, <<lookup, nonempty, one>>)}
  BY DEF JoinContext
<1> HIDE DEF lookup, unwind, nonempty, both, one
<1>4. Follows(<<lookup, unwind, both>>) /\ Follows(<<lookup, nonempty, one>>)
  BY <1>1, <1>2, FollowingMany
<1> QED
  BY <1>3, <1>4, AddIsBuilt

\* The pipelines of the other members of a union begin with their own early matches.
LEMMA UnionFollows ==
    ASSUME NEW leaves, NEW rank, NEW height, FiniteTrees(leaves, rank, height),
           NEW members \in Seq(Relations), members # <<>>, NEW contexts,
           \A i \in DOMAIN members : IsBuilt(members[i], contexts[i])
    PROVE  Follows(UnionStages(members, contexts))
<1> DEFINE n == Len(members) - 1
           ctx(i) == WithEarlyMatch(ExtractEarlyMatch(members[i + 1]), contexts[i + 1])
           f == UnionStages(members, contexts)
<1>1. n \in Nat /\ \A i \in 1..n : i + 1 \in DOMAIN members
  OBVIOUS
<1>2. f = [i \in 1..n |-> [op |-> "$unionWith", coll |-> ctx(i).collection, pipeline |-> ctx(i).stages]]
  BY DEF UnionStages
<1>3. ASSUME NEW i \in 1..n PROVE FirstInAll(ctx(i).stages)
  <2>1. members[i + 1] \in Relations /\ IsBuilt(members[i + 1], contexts[i + 1])
    BY <1>1
  <2> QED
    BY <2>1, WithEarlyMatchIs
<1> HIDE DEF n, ctx, f
<1>4. f = [i \in 1..n |-> f[i]]
  BY <1>2
<1>5. ASSUME NEW i \in 1..n PROVE FollowingStage(f[i])
  <2> DEFINE coll == ctx(i).collection
             pipeline == ctx(i).stages
  <2>1. f[i] = [op |-> "$unionWith", coll |-> coll, pipeline |-> pipeline] /\ FirstInAll(pipeline)
    BY <1>2, <1>3
  <2> HIDE DEF coll, pipeline
  <2> QED
    BY <2>1 DEF FollowingStage, WithinStage
<1>6. Follows(f)
  BY <1>1, <1>4, <1>5, FollowingFunction
<1> QED
  BY <1>6 DEF f

\* The stages that are built for a relation lead with that of a native query.
LEMMA BuildsLead ==
    ASSUME NEW leaves, NEW rank, NEW height, FiniteTrees(leaves, rank, height)
    PROVE  \A r \in Relations : IsBuilt(r, Build(r))
<1> DEFINE S == {r \in Relations : IsBuilt(r, Build(r))}
<1>1. ASSUME NEW r \in Relations, \A x \in Relations : height[x] < height[r] => x \in S
      PROVE  IsBuilt(r, Build(r))
  <2> DEFINE contexts == FirstContexts(r)
             ctx == contexts[1]
             x == Inputs(r)[1]
  <2>1. Build(r) = BuiltFrom(r, contexts)
    BY BuildIs
  <2>2. \A i \in DOMAIN BuiltFirst(r) : IsBuilt(BuiltFirst(r)[i], contexts[i])
    <3> SUFFICES ASSUME NEW i \in DOMAIN BuiltFirst(r) PROVE IsBuilt(BuiltFirst(r)[i], contexts[i])
      OBVIOUS
    <3>1. contexts[i] = Build(BuiltFirst(r)[i])
      BY DEF FirstContexts
    <3>2. BuiltFirst(r)[i] \in S
      BY <1>1, BuiltFirstIs
    <3> QED
      BY <3>1, <3>2
  <2>3. r.op # "From" => IsBuilt(x, ctx)
    BY <2>2, BuiltFirstIs
  <2>4. r.op # "From" => RootCollection(r) \in {RootCollection(x), Null}
    BY RootIs
  <2> HIDE DEF contexts, ctx, x, S
  <2>5. CASE r.op = "From"
    <3>1. Build(r) = Source(r.collection, r.columns)
      BY <2>1, <2>5 DEF BuiltFrom
    <3> QED
      BY <2>5, <3>1, SourceIsBuilt
  <2>6. CASE r.op \in {"Filter", "Sort", "Paginate", "Project", "Aggregate", "Window"}
    <3>0. IsBuilt(x, ctx) /\ RootCollection(r) \in {RootCollection(x), Null}
      BY <2>3, <2>4, <2>6
    <3> DEFINE added == CASE r.op = "Filter"    -> <<MatchStage(r.predicate, ctx.columns)>>
                          [] r.op = "Sort"      -> SortStages(r.exprs, ctx.columns)
                          [] r.op = "Paginate"  -> PaginateStages(r.fetch, r.skip)
                          [] r.op = "Project"   -> <<ProjectStage(r.exprs, ctx.columns)>>
                          [] r.op = "Aggregate" -> AggregateStages(r.group_by, r.aggregates, ctx.columns)
                          [] r.op = "Window"    -> WindowStages(r.exprs, ctx.columns)
    <3>1. Follows(added)
      <4>1. r.op = "Window" => Follows(WindowStages(r.exprs, ctx.columns))
        <5>1. r.op = "Window" => r.exprs \in Seq(leaves.windows)
          BY Shapes, ByOp DEF Leaf
        <5> QED
          BY <5>1, WindowFollows
      <4> QED
        BY <2>6, <4>1, MatchFollows, SortFollows, PaginateFollows, ProjectFollows, AggregateFollows
    <3>2. Build(r) = Add(ctx, added) \/ \E n : Build(r) = Reshape(ctx, added, n)
      <4>1. Build(r) = CASE r.op = "Filter"    -> Add(ctx, << MatchStage(r.predicate, ctx.columns) >>)
                         [] r.op = "Sort"      -> Add(ctx, SortStages(r.exprs, ctx.columns))
                         [] r.op = "Paginate"  -> Add(ctx, PaginateStages(r.fetch, r.skip))
                         [] r.op = "Project"   -> Reshape(ctx, << ProjectStage(r.exprs, ctx.columns) >>, Len(r.exprs))
                         [] r.op = "Aggregate" -> Reshape(ctx, AggregateStages(r.group_by, r.aggregates, ctx.columns),
                                                          Len(r.group_by) + Len(r.aggregates))
                         [] r.op = "Window"    -> Reshape(ctx, WindowStages(r.exprs, ctx.columns),
                                                          Len(ctx.columns) + Len(r.exprs))
        BY <2>1, <2>6 DEF BuiltFrom, ctx
      <4> QED
        BY <2>6, <4>1
    <3> HIDE DEF added
    <3> QED
      BY <3>0, <3>1, <3>2, AddIsBuilt
  <2>7. CASE r.op = "Join"
    <3>1. Build(r) = JoinContext(ctx, contexts[2], r.on, r.type)
      BY <2>1, <2>7 DEF BuiltFrom, ctx
    <3>2. BuiltFirst(r) = <<r.left, r.right>>
      BY <2>7, BuiltFirstIs, InputsAre DEF WellMade
    <3>3. IsBuilt(r.right, contexts[2])
      BY <2>2, <3>2
    <3>4. RootCollection(r) = RootCollection(x)
      BY <2>7, RootIs DEF x
    <3> QED
      BY <2>3, <2>7, <3>1, <3>3, <3>4, JoinIsBuilt
  <2>8. CASE r.op = "Union"
    <3> DEFINE added == UnionStages(BuiltFirst(r), contexts)
    <3>1. Build(r) = Add(ctx, added)
      BY <2>1, <2>8 DEF BuiltFrom, ctx
    <3>2. BuiltFirst(r) \in Seq(Relations) /\ BuiltFirst(r) # <<>>
      BY <2>8, BuiltFirstIs
    <3>3. Follows(added)
      BY <2>2, <3>2, UnionFollows
    <3> HIDE DEF added
    <3> QED
      BY <2>3, <2>4, <2>8, <3>1, <3>3, AddIsBuilt
  <2> QED
    BY <2>5, <2>6, <2>7, <2>8, ByOp
<1>2. \A r \in Relations : (\A x \in Relations : height[x] < height[r] => x \in S) => r \in S
  BY <1>1
<1> HIDE DEF S
<1>3. \A r \in Relations : r \in S
  BY <1>2, RelationInduction
<1> QED
  BY <1>3 DEF S

\* What there is between the steps: no early match before it is extracted, then one of the relation
\* or none, and a pipeline in which the native query is first.
Prepared ==
    /\ relation \in Relations
    /\ pc \in {"normalize", "pushdown"} => early_match = Null
    /\ early_match \in {Null, ExtractEarlyMatch(relation)}
    /\ context # Null => FirstInAll(context.stages)

\* That is what every step keeps.
LEMMA PreparedInvariant ==
    ASSUME NEW leaves, NEW rank, NEW height, FiniteTrees(leaves, rank, height)
    PROVE  BuilderSpec => []Prepared
<1>1. BuilderInit => Prepared
  BY RequestsAssumption DEF BuilderInit, PassesInit, Prepared
<1>2. Prepared /\ [BuilderNext]_building => Prepared'
  <2> SUFFICES ASSUME Prepared, [BuilderNext]_building PROVE Prepared'
    OBVIOUS
  <2>1. CASE NormalizeRelation /\ UNCHANGED <<early_match, context>>
    <3>1. relation' \in Relations
      BY <2>1, NormalIsRelation DEF NormalizeRelation, Prepared
    <3> QED
      BY <2>1, <3>1 DEF NormalizeRelation, Prepared
  <2>2. CASE PushdownRelation /\ UNCHANGED <<early_match, context>>
    <3>1. relation' \in Relations
      BY <2>2, PushIs DEF PushdownRelation, Prepared
    <3> QED
      BY <2>2, <3>1 DEF PushdownRelation, Prepared
  <2>3. CASE ExtractMatch
    BY <2>3 DEF ExtractMatch, Proceed, Prepared
  <2>4. CASE BuildPipeline
    <3>1. FirstInAll(WithEarlyMatch(early_match, Build(relation)).stages)
      BY BuildsLead, WithEarlyMatchIs DEF Prepared
    <3>2. context' = WithEarlyMatch(early_match, Build(relation)) /\ pc' = "execute"
          /\ UNCHANGED <<relation, early_match>>
      BY <2>4 DEF BuildPipeline, Proceed
    <3> QED
      BY <3>1, <3>2 DEF Prepared
  <2>5. CASE BuildingFails
    BY <2>5 DEF BuildingFails, Proceed, Prepared
  <2>6. CASE \E step \in Answered : AfterBuilding(step)
    BY <2>6 DEF AfterBuilding, Answered, Proceed, Prepared
  <2>7. CASE UNCHANGED building
    BY <2>7 DEF building, passes, Prepared
  <2> QED
    BY <2>1, <2>2, <2>3, <2>4, <2>5, <2>6, <2>7 DEF BuilderNext
<1> QED
  BY <1>1, <1>2, PTL DEF BuilderSpec

\* A native query is the first stage of the pipeline it is in, however many levels of joins and unions
\* that is below the pipeline of the request, and whatever the passes, the early match and the
\* optimization of the members of unions did: MongoDB accepts no other place for a stage like
\* $vectorSearch, which a native query may begin with.
THEOREM NativeQueriesFirstAlways ==
    ASSUME NEW leaves, NEW rank, NEW height, FiniteTrees(leaves, rank, height)
    PROVE  BuilderSpec => []NativeQueriesFirst
<1>1. Prepared => NativeQueriesFirst
  BY NestingAssumption DEF Prepared, NativeQueriesFirst, FirstInAll, FirstIn
<1> QED
  BY <1>1, PreparedInvariant, PTL
=============================================================================
