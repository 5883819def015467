--------------------------- MODULE SamplingProofs ---------------------------
(***************************************************************************)
(* What is derived from a sample of documents, for all documents, samples  *)
(* and orders: the schema depends on the documents only, what it refers to *)
(* is defined, the documents conform to it, and it is the least such.      *)
(***************************************************************************)
EXTENDS Sampling, TypeUnificationProofs

------------------------------------------------------------------------------
\* Folds over a sequence.

\* A set that holds 0 and what follows each number it holds
LEMMA UpTo ==
    ASSUME NEW n \in Nat, NEW S, 0 \in S, \A i \in 1..n : i - 1 \in S => i \in S
    PROVE  \A i \in 0..n : i \in S
<1> DEFINE D == 0..n
           size == [i \in D |-> i]
<1>1. size \in [D -> Nat]
  OBVIOUS
<1>2. \A i \in D : (\A j \in D : size[j] < size[i] => j \in S) => i \in S
  <2> SUFFICES ASSUME NEW i \in D, \A j \in D : size[j] < size[i] => j \in S
               PROVE  i \in S
    OBVIOUS
  <2>1. CASE i # 0
    <3>1. i \in 1..n /\ i - 1 \in 0..n /\ size[i - 1] = i - 1 /\ size[i] = i
      BY <2>1
    <3>2. i - 1 < i
      BY <3>1
    <3>3. i - 1 \in S
      BY <3>1, <3>2
    <3> QED
      BY <3>1, <3>3
  <2> QED
    BY <2>1
<1>3. \A i \in D : i \in S
  <2> HIDE DEF D, size
  <2> QED
    BY <1>1, <1>2, SizeInduction
<1> QED
  BY <1>3

\* A function on 0..n that is given by its value for 0 and by a step from each number to the
\* next one
Folds(c, n, base, op) == c = [i \in 0..n |-> IF i = 0 THEN base ELSE op[<<i, c[i - 1]>>]]

\* There is such a function.
LEMMA FoldExists ==
    ASSUME NEW n \in Nat, NEW R, NEW base \in R, NEW op \in [(1..n) \X R -> R]
    PROVE  \E c \in [0..n -> R] : Folds(c, n, base, op)
<1> DEFINE D == 0..n
           size == [i \in D |-> i]
           step == [g \in [D -> R] |-> [i \in D |-> IF i = 0 THEN base ELSE op[<<i, g[i - 1]>>]]]
<1>1. size \in [D -> Nat] /\ R # {}
  OBVIOUS
<1>2. \A i \in D : i # 0 => i \in 1..n /\ i - 1 \in D /\ size[i - 1] < size[i]
  OBVIOUS
<1>3. step \in [[D -> R] -> [D -> R]]
  <2>1. \A g \in [D -> R], i \in D : (IF i = 0 THEN base ELSE op[<<i, g[i - 1]>>]) \in R
    <3> HIDE DEF D, size
    <3> QED
      BY <1>2
  <2> QED
    BY <2>1
<1>4. \A g, h \in [D -> R], x \in D :
        (\A y \in D : size[y] < size[x] => g[y] = h[y]) => step[g][x] = step[h][x]
  <2> SUFFICES ASSUME NEW g \in [D -> R], NEW h \in [D -> R], NEW x \in D,
                      \A y \in D : size[y] < size[x] => g[y] = h[y]
               PROVE  step[g][x] = step[h][x]
    OBVIOUS
  <2>1. x # 0 => g[x - 1] = h[x - 1]
    <3> HIDE DEF D, size
    <3> QED
      BY <1>2
  <2> QED
    BY <2>1
<1>5. PICK c \in [D -> R] : step[c] = c
  <2> HIDE DEF D, size, step
  <2>1. Contracts(step, size, D, R)
    BY <1>1, <1>3, <1>4 DEF Contracts
  <2> QED
    BY <2>1, Recursion
<1>6. c = [i \in D |-> IF i = 0 THEN base ELSE op[<<i, c[i - 1]>>]]
  BY <1>5
<1> QED
  BY <1>6 DEF Folds
------------------------------------------------------------------------------
\* Schemas: sets of object types whose fields have normalized types.

Names         == Seq(STRING)
ObjectTypeSet == UNION {[F -> Normal] : F \in SUBSET Names}
Schemas       == UNION {[N -> ObjectTypeSet] : N \in SUBSET Names}

LEMMA SchemaParts ==
    ASSUME NEW s \in Schemas
    PROVE  /\ IsObjectTypes(s)
           /\ DOMAIN s \subseteq Names
           /\ \A n \in DOMAIN s : /\ s[n] \in ObjectTypeSet /\ DOMAIN s[n] \subseteq Names
                                  /\ \A f \in DOMAIN s[n] : s[n][f] \in Normal
<1>1. PICK N \in SUBSET Names : s \in [N -> ObjectTypeSet]
  BY DEF Schemas
<1>2. s = [n \in DOMAIN s |-> s[n]] /\ DOMAIN s \subseteq Names /\ \A n \in DOMAIN s : s[n] \in ObjectTypeSet
  BY <1>1
<1>3. ASSUME NEW o \in ObjectTypeSet
      PROVE  o = [f \in DOMAIN o |-> o[f]] /\ DOMAIN o \subseteq Names /\ \A f \in DOMAIN o : o[f] \in Normal
  <2>1. PICK F \in SUBSET Names : o \in [F -> Normal]
    BY DEF ObjectTypeSet
  <2> QED
    BY <2>1
<1>4. \A o \in ObjectTypeSet : IsObjectType(o)
  BY <1>3 DEF IsObjectType, Normal
<1>5. IsObjectTypes(s)
  BY <1>2, <1>4 DEF IsObjectTypes
<1> QED
  BY <1>2, <1>3, <1>5

LEMMA SchemaFormed ==
    /\ \A o : o = [f \in DOMAIN o |-> o[f]] /\ DOMAIN o \subseteq Names /\ (\A f \in DOMAIN o : o[f] \in Normal)
            => o \in ObjectTypeSet
    /\ \A s : s = [n \in DOMAIN s |-> s[n]] /\ DOMAIN s \subseteq Names /\ (\A n \in DOMAIN s : s[n] \in ObjectTypeSet)
            => s \in Schemas
    /\ <<>> \in Schemas /\ DOMAIN <<>> = {}
<1>1. ASSUME NEW o, o = [f \in DOMAIN o |-> o[f]], DOMAIN o \subseteq Names, \A f \in DOMAIN o : o[f] \in Normal
      PROVE  o \in ObjectTypeSet
  <2>1. o \in [DOMAIN o -> Normal]
    BY <1>1
  <2> QED
    BY <1>1, <2>1 DEF ObjectTypeSet
<1>2. ASSUME NEW s, s = [n \in DOMAIN s |-> s[n]], DOMAIN s \subseteq Names, \A n \in DOMAIN s : s[n] \in ObjectTypeSet
      PROVE  s \in Schemas
  <2>1. s \in [DOMAIN s -> ObjectTypeSet]
    BY <1>2
  <2> QED
    BY <1>2, <2>1 DEF Schemas
<1>3. DOMAIN <<>> = {} /\ <<>> = [n \in DOMAIN <<>> |-> <<>>[n]]
  <2>1. <<>> \in Seq(Nat)
    OBVIOUS
  <2>2. <<>> \in [1..0 -> Nat]
    BY <2>1
  <2> QED
    BY <2>2
<1>4. <<>> \in Schemas
  BY <1>2, <1>3
<1> QED
  BY <1>1, <1>2, <1>3, <1>4

\* What is unified of two schemas.
LEMMA SchemasUnify ==
    ASSUME NEW a \in Schemas, NEW b \in Schemas
    PROVE  /\ UnifyObjectTypes(a, b) \in Schemas
           /\ UnifyObjectTypes(a, a) = a
           /\ UnifyObjectTypes(<<>>, a) = a
           /\ UnifyObjectTypes(a, b) = UnifyObjectTypes(b, a)
           /\ \A c \in Schemas :
                UnifyObjectTypes(UnifyObjectTypes(a, b), c) = UnifyObjectTypes(a, UnifyObjectTypes(b, c))
<1> DEFINE V(x, y) == UnifyObjectTypes(x, y)
           U(x, y) == UnifyObjectType(x, y)
<1>1. \A x \in Schemas : IsObjectTypes(x) /\ DOMAIN x \subseteq Names /\ \A n \in DOMAIN x : x[n] \in ObjectTypeSet
  BY SchemaParts
<1>2. /\ IsObjectTypes(V(a, b))
      /\ \A n : n \in DOMAIN V(a, b) <=> n \in DOMAIN a \/ n \in DOMAIN b
      /\ \A n \in DOMAIN a : n \notin DOMAIN b => V(a, b)[n] = a[n]
      /\ \A n \in DOMAIN b : n \notin DOMAIN a => V(a, b)[n] = b[n]
      /\ \A n \in DOMAIN a : n \in DOMAIN b => V(a, b)[n] = U(a[n], b[n])
  BY <1>1, UnifiedTypes
<1>3. ASSUME NEW x \in ObjectTypeSet, NEW y \in ObjectTypeSet PROVE U(x, y) \in ObjectTypeSet
  <2>1. \A o \in ObjectTypeSet : /\ IsObjectType(o) /\ DOMAIN o \subseteq Names
                                 /\ \A f \in DOMAIN o : o[f] \in Normal /\ MakeNullable(o[f]) \in Normal
    <3> SUFFICES ASSUME NEW o \in ObjectTypeSet
                 PROVE  /\ IsObjectType(o) /\ DOMAIN o \subseteq Names
                        /\ \A f \in DOMAIN o : o[f] \in Normal /\ MakeNullable(o[f]) \in Normal
      OBVIOUS
    <3>1. PICK F \in SUBSET Names : o \in [F -> Normal]
      BY DEF ObjectTypeSet
    <3>2. \A t \in Normal : t \in Type /\ MakeNullable(t) \in Normal
      BY NormalParts DEF Normal
    <3> QED
      BY <3>1, <3>2 DEF IsObjectType
  <2>2. \A t, u \in Normal : UnifyType(t, u) \in Normal
    BY UnifyShapes DEF Normal
  <2>3. /\ IsObjectType(U(x, y))
        /\ \A f : f \in DOMAIN U(x, y) <=> f \in DOMAIN x \/ f \in DOMAIN y
        /\ \A f \in DOMAIN x : f \notin DOMAIN y => U(x, y)[f] = MakeNullable(x[f])
        /\ \A f \in DOMAIN y : f \notin DOMAIN x => U(x, y)[f] = MakeNullable(y[f])
        /\ \A f \in DOMAIN x : f \in DOMAIN y => U(x, y)[f] = UnifyType(x[f], y[f])
    BY <2>1, UnifiedFields
  <2>4. U(x, y) = [f \in DOMAIN U(x, y) |-> U(x, y)[f]]
    BY <2>3 DEF IsObjectType
  <2> HIDE DEF U
  <2>5. DOMAIN U(x, y) \subseteq Names /\ \A f \in DOMAIN U(x, y) : U(x, y)[f] \in Normal
    BY <2>1, <2>2, <2>3
  <2> QED
    BY <2>4, <2>5, SchemaFormed
<1>4. V(a, b) \in Schemas
  <2>1. V(a, b) = [n \in DOMAIN V(a, b) |-> V(a, b)[n]]
    BY <1>2 DEF IsObjectTypes
  <2> HIDE DEF U, V
  <2>2. DOMAIN V(a, b) \subseteq Names /\ \A n \in DOMAIN V(a, b) : V(a, b)[n] \in ObjectTypeSet
    BY <1>1, <1>2, <1>3
  <2> QED
    BY <2>1, <2>2, SchemaFormed
<1>5. V(<<>>, a) = a
  <2>1. IsObjectTypes(<<>>) /\ DOMAIN <<>> = {}
    BY <1>1, SchemaFormed
  <2>2. /\ IsObjectTypes(V(<<>>, a))
        /\ \A n : n \in DOMAIN V(<<>>, a) <=> n \in DOMAIN <<>> \/ n \in DOMAIN a
        /\ \A n \in DOMAIN a : n \notin DOMAIN <<>> => V(<<>>, a)[n] = a[n]
    BY <1>1, <2>1, UnifiedTypes
  <2>3. V(<<>>, a) = [n \in DOMAIN V(<<>>, a) |-> V(<<>>, a)[n]] /\ a = [n \in DOMAIN a |-> a[n]]
    BY <1>1, <2>2 DEF IsObjectTypes
  <2> DEFINE v == V(<<>>, a)
  <2> HIDE DEF V
  <2>4. DOMAIN v = DOMAIN a /\ \A n \in DOMAIN v : v[n] = a[n]
    BY <2>1, <2>2
  <2>5. v = [n \in DOMAIN v |-> v[n]]
    BY <2>3
  <2> HIDE DEF v
  <2>6. v = a
    BY <2>3, <2>4, <2>5, SameFunction
  <2> QED
    BY <2>6 DEF v
<1>6. V(a, a) = a
  <2>1. V(V(<<>>, a), a) = V(<<>>, a)
    BY <1>1, SchemaFormed, SchemaParts, SampledTwiceAddsNothing
  <2> QED
    BY <1>5, <2>1
<1>7. V(a, b) = V(b, a) /\ \A c \in Schemas : V(V(a, b), c) = V(a, V(b, c))
  BY <1>1, SamplesUnifyInAnyOrder
<1> QED
  BY <1>4, <1>5, <1>6, <1>7
------------------------------------------------------------------------------
\* What a unified type refers to.

\* Wrappers do not change what a type is about.
LEMMA SameBase ==
    ASSUME NEW t \in Type
    PROVE  /\ Nullable(t).base = t.base /\ ArrayOf(t).base = t.base /\ Underlying(t).base = t.base
           /\ MakeNullable(t).base = t.base /\ NormalizeType(t).base = t.base
<1>1. ASSUME NEW u \in Type
      PROVE  /\ Nullable(u).base = u.base /\ ArrayOf(u).base = u.base /\ Underlying(u).base = u.base
             /\ MakeNullable(u).base = u.base
  <2>1. u = [wrap |-> u.wrap, base |-> u.base]
    BY DEF Type
  <2>2. /\ Nullable(u) = [wrap |-> <<"nullable">> \o u.wrap, base |-> u.base]
        /\ ArrayOf(u) = [wrap |-> <<"array">> \o u.wrap, base |-> u.base]
        /\ Underlying(u) = [wrap |-> Tail(u.wrap), base |-> u.base]
    BY <2>1, Rewrapped DEF Nullable, ArrayOf, Underlying
  <2> QED
    BY <2>2 DEF MakeNullable
<1> DEFINE S == {u \in Type : NormalizeType(u).base = u.base}
<1>2. ASSUME NEW u \in Type, \A v \in Type : Depth(v) < Depth(u) => NormalizeType(v).base = v.base
      PROVE  NormalizeType(u).base = u.base
  <2>1. CASE ~IsNullable(u) /\ ~IsArray(u)
    BY <2>1, NormalizeShapes
  <2>2. CASE IsArray(u)
    <3>1. PICK v \in Type : u = ArrayOf(v) /\ Depth(v) < Depth(u)
      BY <2>2, Unwrapped
    <3>2. NormalizeType(u) = ArrayOf(NormalizeType(v)) /\ NormalizeType(v) \in Type
      BY <3>1, NormalizeShapes
    <3> QED
      BY <1>1, <1>2, <3>1, <3>2
  <2>3. CASE IsNullable(u)
    <3>1. PICK v \in Type : u = Nullable(v) /\ Depth(v) < Depth(u)
      BY <2>3, Unwrapped
    <3>2. NormalizeType(u) = MakeNullable(NormalizeType(v)) /\ NormalizeType(v) \in Type
      BY <3>1, NormalizeNullable, NormalizeShapes
    <3> QED
      BY <1>1, <1>2, <3>1, <3>2
  <2> QED
    BY <2>1, <2>2, <2>3
<1>3. \A u \in Type : u \in S
  <2>1. \A u \in Type : (\A v \in Type : Depth(v) < Depth(u) => v \in S) => u \in S
    BY <1>2
  <2> HIDE DEF S
  <2> QED
    BY <2>1, TypeInduction
<1> QED
  BY <1>1, <1>3

\* A type that is unified of two refers to an object type only if one of them does, to the same.
LEMMA UnifyRefers ==
    \A a, b \in Type : RefersToObject(UnifyType(a, b)) => UnifyType(a, b).base \in {a.base, b.base}
<1> DEFINE Kept(a, b) == RefersToObject(UnifyType(a, b)) => UnifyType(a, b).base \in {a.base, b.base}
           S == {p \in Type \X Type : Kept(p[1], p[2])}
<1>1. ASSUME NEW a \in Type, NEW b \in Type,
             \A c, d \in Type : Depth(c) + Depth(d) < Depth(a) + Depth(b) => Kept(c, d)
      PROVE  Kept(a, b)
  <2>1. ~RefersToObject(ExtendedJSON) /\ \A x \in BsonScalarTypes : ~RefersToObject(Scalar(x))
    BY DEF ExtendedJSON, Scalar, RefersToObject
  <2>2. Depth(a) \in Nat /\ Depth(b) \in Nat
    BY Unwrapped
  <2>3. \A x, y \in Type : UnifyType(x, y) \in Type
    BY UnifyShapes DEF Normal
  <2>4. CASE ExtendedJSON \in {a, b}
    BY <2>1, <2>4, UnifyShapes
  <2>5. CASE a = Undefined \/ b = Undefined
    BY <2>5, UnifyShapes, SameBase
  <2>6. CASE ExtendedJSON \notin {a, b} /\ a # Undefined /\ b # Undefined /\ IsNullable(a)
    <3> DEFINE u == Underlying(a)
    <3>1. u \in Type /\ Depth(u) < Depth(a) /\ u.base = a.base /\ Depth(u) \in Nat
      BY <2>6, Unwrapped, SameBase
    <3>2. UnifyType(a, b) = MakeNullable(UnifyType(u, b))
      BY <2>6, UnifyShapes
    <3> HIDE DEF u
    <3>3. Kept(u, b)
      BY <1>1, <2>2, <3>1
    <3>4. UnifyType(a, b).base = UnifyType(u, b).base
      BY <2>3, <3>1, <3>2, SameBase
    <3> QED
      BY <3>1, <3>3, <3>4 DEF RefersToObject
  <2>7. CASE ExtendedJSON \notin {a, b} /\ a # Undefined /\ b # Undefined /\ ~IsNullable(a) /\ IsNullable(b)
    <3> DEFINE u == Underlying(b)
    <3>1. u \in Type /\ Depth(u) < Depth(b) /\ u.base = b.base /\ Depth(u) \in Nat
      BY <2>7, Unwrapped, SameBase
    <3>2. UnifyType(a, b) = MakeNullable(UnifyType(a, u))
      BY <2>7, UnifyShapes
    <3> HIDE DEF u
    <3>3. Kept(a, u)
      BY <1>1, <2>2, <3>1
    <3>4. UnifyType(a, b).base = UnifyType(a, u).base
      BY <2>3, <3>1, <3>2, SameBase
    <3> QED
      BY <3>1, <3>3, <3>4 DEF RefersToObject
  <2>8. CASE /\ ExtendedJSON \notin {a, b} /\ a # Undefined /\ b # Undefined /\ ~IsNullable(a) /\ ~IsNullable(b)
             /\ a = NullType \/ b = NullType
    <3>1. \A t \in Type : MakeNullable(NormalizeType(t)).base = t.base
      BY SameBase, NormalizeShapes
    <3> QED
      BY <2>8, <3>1, UnifyShapes
  <2>9. CASE Solid(a) /\ Solid(b)
    <3>1. UnifyType(a, b) = IF IsScalar(a) /\ IsScalar(b) THEN UnifyScalars(a, b)
                            ELSE IF IsNamed(a) /\ a = b THEN a
                            ELSE IF IsArray(a) /\ IsArray(b)
                                 THEN ArrayOf(UnifyType(Underlying(a), Underlying(b)))
                            ELSE ExtendedJSON
      BY <2>9, UnifyShapes
    <3>2. CASE IsScalar(a) /\ IsScalar(b)
      <4>1. "binData" \in BsonScalarTypes /\ "double" \in BsonScalarTypes
        BY DEF BsonScalarTypes
      <4>2. UnifyType(a, b) \in {a, Scalar("binData"), Scalar("double"), ExtendedJSON}
        BY <3>1, <3>2, ScalarsUnify
      <4>3. ~RefersToObject(a)
        BY <3>2 DEF IsScalar, RefersToObject
      <4> QED
        BY <2>1, <4>1, <4>2, <4>3
    <3>3. CASE IsArray(a) /\ IsArray(b)
      <4> DEFINE u == Underlying(a)
                 v == Underlying(b)
      <4>1. /\ u \in Type /\ Depth(u) < Depth(a) /\ u.base = a.base /\ Depth(u) \in Nat
            /\ v \in Type /\ Depth(v) < Depth(b) /\ v.base = b.base /\ Depth(v) \in Nat
            /\ ~IsScalar(a) /\ ~IsNamed(a)
        BY <3>3, Unwrapped, SameBase
      <4>2. UnifyType(a, b) = ArrayOf(UnifyType(u, v))
        BY <3>1, <3>3, <4>1
      <4> HIDE DEF u, v
      <4>3. Kept(u, v)
        BY <1>1, <2>2, <4>1
      <4>4. UnifyType(a, b).base = UnifyType(u, v).base
        BY <2>3, <4>1, <4>2, SameBase
      <4> QED
        BY <4>1, <4>3, <4>4 DEF RefersToObject
    <3>4. CASE ~(IsScalar(a) /\ IsScalar(b)) /\ ~(IsArray(a) /\ IsArray(b))
      BY <2>1, <3>1, <3>4
    <3> QED
      BY <3>2, <3>3, <3>4
  <2> QED
    BY <2>4, <2>5, <2>6, <2>7, <2>8, <2>9 DEF Solid, AdmitsNull
<1>2. \A a, b \in Type : <<a, b>> \in S
  <2>1. ASSUME NEW a \in Type, NEW b \in Type,
               \A c, d \in Type : Depth(c) + Depth(d) < Depth(a) + Depth(b) => <<c, d>> \in S
        PROVE  <<a, b>> \in S
    <3>1. \A c, d \in Type : Depth(c) + Depth(d) < Depth(a) + Depth(b) => Kept(c, d)
      BY <2>1
    <3> HIDE DEF Kept
    <3>2. Kept(a, b)
      BY <1>1, <3>1
    <3> QED
      BY <3>2
  <2> HIDE DEF S
  <2> QED
    BY <2>1, PairInduction
<1> QED
  <2> SUFFICES ASSUME NEW a \in Type, NEW b \in Type PROVE Kept(a, b)
    OBVIOUS
  <2> QED
    BY <1>2

\* What schemas refer to
Closed(s) ==
    \A n \in DOMAIN s : \A f \in DOMAIN s[n] : RefersToObject(s[n][f]) => ObjectNameOf(s[n][f]) \in DOMAIN s

LEMMA ClosedUnify ==
    ASSUME NEW a \in Schemas, NEW b \in Schemas, Closed(a), Closed(b)
    PROVE  Closed(UnifyObjectTypes(a, b))
<1> DEFINE v == UnifyObjectTypes(a, b)
           Defined(t) == RefersToObject(t) => ObjectNameOf(t) \in DOMAIN v
           U(x, y) == UnifyObjectType(x, y)
<1>1. /\ \A n : n \in DOMAIN v <=> n \in DOMAIN a \/ n \in DOMAIN b
      /\ \A n \in DOMAIN a : n \notin DOMAIN b => v[n] = a[n]
      /\ \A n \in DOMAIN b : n \notin DOMAIN a => v[n] = b[n]
      /\ \A n \in DOMAIN a : n \in DOMAIN b => v[n] = U(a[n], b[n])
  BY SchemaParts, UnifiedTypes
<1>2. /\ \A n \in DOMAIN a : IsObjectType(a[n]) /\ \A f \in DOMAIN a[n] : a[n][f] \in Type
      /\ \A n \in DOMAIN b : IsObjectType(b[n]) /\ \A f \in DOMAIN b[n] : b[n][f] \in Type
  BY SchemaParts DEF IsObjectTypes, IsObjectType
<1>3. /\ \A n \in DOMAIN a : \A f \in DOMAIN a[n] : Defined(a[n][f])
      /\ \A n \in DOMAIN b : \A f \in DOMAIN b[n] : Defined(b[n][f])
  BY <1>1 DEF Closed
<1>4. ASSUME NEW x \in Type, Defined(x) PROVE Defined(MakeNullable(x))
  BY <1>4, SameBase DEF RefersToObject, ObjectNameOf
<1>5. ASSUME NEW x \in Type, NEW y \in Type, Defined(x), Defined(y) PROVE Defined(UnifyType(x, y))
  BY <1>5, UnifyRefers DEF RefersToObject, ObjectNameOf
<1> HIDE DEF v, Defined
<1>6. ASSUME NEW n \in DOMAIN v, NEW f \in DOMAIN v[n] PROVE Defined(v[n][f])
  <2>1. CASE n \in DOMAIN a /\ n \in DOMAIN b
    <3> DEFINE x == a[n]
               y == b[n]
    <3>1. /\ IsObjectType(x) /\ \A g \in DOMAIN x : x[g] \in Type /\ Defined(x[g])
          /\ IsObjectType(y) /\ \A g \in DOMAIN y : y[g] \in Type /\ Defined(y[g])
      BY <1>2, <1>3, <2>1
    <3>2. v[n] = U(x, y)
      BY <1>1, <2>1
    <3> HIDE DEF x, y
    <3>3. /\ \A g : g \in DOMAIN U(x, y) <=> g \in DOMAIN x \/ g \in DOMAIN y
          /\ \A g \in DOMAIN x : g \notin DOMAIN y => U(x, y)[g] = MakeNullable(x[g])
          /\ \A g \in DOMAIN y : g \notin DOMAIN x => U(x, y)[g] = MakeNullable(y[g])
          /\ \A g \in DOMAIN x : g \in DOMAIN y => U(x, y)[g] = UnifyType(x[g], y[g])
      BY <3>1, UnifiedFields
    <3> HIDE DEF U
    <3> QED
      BY <1>4, <1>5, <1>6, <3>1, <3>2, <3>3
  <2>2. CASE ~(n \in DOMAIN a /\ n \in DOMAIN b)
    BY <1>1, <1>3, <1>6, <2>2
  <2> QED
    BY <2>1, <2>2
<1> QED
  BY <1>6 DEF Closed, v, Defined

------------------------------------------------------------------------------
\* The least schema.

\* A schema allows for whatever another one does.
Includes(t, s) == UnifyObjectTypes(s, t) = t

\* A schema that includes each of a set S of schemas, and that every other such schema includes
IsLeast(t, S) ==
    /\ S \subseteq Schemas /\ t \in Schemas
    /\ \A s \in S : Includes(t, s)
    /\ \A u \in Schemas : (\A s \in S : Includes(u, s)) => Includes(u, t)

LEMMA LeastIsUnique ==
    ASSUME NEW S, NEW t, NEW u, IsLeast(t, S), IsLeast(u, S)
    PROVE  t = u
<1>1. t \in Schemas /\ u \in Schemas /\ Includes(u, t) /\ Includes(t, u)
  BY DEF IsLeast
<1>2. UnifyObjectTypes(t, u) = UnifyObjectTypes(u, t)
  BY <1>1, SchemasUnify
<1> QED
  BY <1>1, <1>2 DEF Includes

LEMMA LeastGrows ==
    /\ IsLeast(<<>>, {})
    /\ \A S, t : \A m \in Schemas : IsLeast(t, S) => IsLeast(UnifyObjectTypes(t, m), S \cup {m})
<1> DEFINE V(x, y) == UnifyObjectTypes(x, y)
<1>1. \A x, y \in Schemas : V(x, y) \in Schemas /\ V(x, x) = x /\ V(<<>>, x) = x /\ V(x, y) = V(y, x)
  BY SchemasUnify
<1>2. \A x, y, z \in Schemas : V(V(x, y), z) = V(x, V(y, z))
  BY SchemasUnify
<1> HIDE DEF V
<1>3. IsLeast(<<>>, {})
  BY <1>1, SchemaFormed DEF IsLeast, Includes, V
<1>4. ASSUME NEW S, NEW t, NEW m \in Schemas, IsLeast(t, S)
      PROVE  IsLeast(V(t, m), S \cup {m})
  <2>1. t \in Schemas /\ V(t, m) \in Schemas
    BY <1>1, <1>4 DEF IsLeast
  <2>2. V(m, V(t, m)) = V(t, m)
    <3>1. V(m, V(t, m)) = V(m, V(m, t)) /\ V(m, V(m, t)) = V(V(m, m), t)
      BY <1>1, <1>2, <2>1
    <3> QED
      BY <1>1, <2>1, <3>1
  <2>3. ASSUME NEW s \in S PROVE V(s, V(t, m)) = V(t, m)
    <3>1. V(s, t) = t
      BY <1>4 DEF IsLeast, Includes, V
    <3>2. V(V(s, t), m) = V(s, V(t, m)) /\ s \in Schemas
      BY <1>2, <1>4, <2>1 DEF IsLeast
    <3> QED
      BY <3>1, <3>2
  <2>4. ASSUME NEW u \in Schemas, \A s \in S \cup {m} : V(s, u) = u PROVE V(V(t, m), u) = u
    <3>1. V(t, u) = u /\ V(m, u) = u
      BY <1>4, <2>4 DEF IsLeast, Includes, V
    <3> QED
      BY <1>2, <2>1, <2>4, <3>1
  <2>5. S \cup {m} \subseteq Schemas
    BY <1>4 DEF IsLeast
  <2> QED
    BY <2>1, <2>2, <2>3, <2>4, <2>5 DEF IsLeast, Includes, V
<1> QED
  BY <1>3, <1>4 DEF V

\* What is collected of a list of schemas is the least that includes them, and is closed if
\* they are.
LEMMA CollectsLeast ==
    ASSUME NEW sets \in Seq(Schemas)
    PROVE  /\ IsLeast(CollectTypes(sets), {sets[i] : i \in 1..Len(sets)})
           /\ (\A i \in 1..Len(sets) : Closed(sets[i])) => Closed(CollectTypes(sets))
           /\ \A x \in DOMAIN CollectTypes(sets) : \E i \in 1..Len(sets) : x \in DOMAIN sets[i]
<1> DEFINE n == Len(sets)
           op == [x \in (1..n) \X Schemas |-> IF x[2] = <<>> THEN sets[x[1]] ELSE UnifyObjectTypes(x[2], sets[x[1]])]
<1>1. n \in Nat /\ (\A i \in 1..n : sets[i] \in Schemas) /\ <<>> \in Schemas
  BY SchemaFormed
<1>2. op \in [(1..n) \X Schemas -> Schemas]
  <2>1. \A i \in 1..n, t \in Schemas : UnifyObjectTypes(t, sets[i]) \in Schemas
    BY <1>1, SchemasUnify
  <2> QED
    BY <1>1, <2>1
<1> HIDE DEF n
<1>3. \E c : c = [i \in 0..n |-> IF i = 0 THEN <<>>
                               ELSE IF c[i - 1] = <<>> THEN sets[i] ELSE UnifyObjectTypes(c[i - 1], sets[i])]
  <2>1. PICK c \in [0..n -> Schemas] : Folds(c, n, <<>>, op)
    <3> HIDE DEF op
    <3> QED
      BY <1>1, <1>2, FoldExists
  <2>2. \A i \in 0..n : i # 0 => i \in 1..n /\ c[i - 1] \in Schemas
    BY <1>1
  <2>3. \A i \in 0..n : i # 0 =>
            op[<<i, c[i - 1]>>] = IF c[i - 1] = <<>> THEN sets[i] ELSE UnifyObjectTypes(c[i - 1], sets[i])
    BY <2>2
  <2>4. c = [i \in 0..n |-> IF i = 0 THEN <<>>
                            ELSE IF c[i - 1] = <<>> THEN sets[i] ELSE UnifyObjectTypes(c[i - 1], sets[i])]
    <3> HIDE DEF op
    <3> QED
      BY <2>1, <2>3 DEF Folds
  <2> QED
    BY <2>4
<1> DEFINE c == CHOOSE c : c = [i \in 0..n |-> IF i = 0 THEN <<>>
                               ELSE IF c[i - 1] = <<>> THEN sets[i] ELSE UnifyObjectTypes(c[i - 1], sets[i])]
<1>4. c = [i \in 0..n |-> IF i = 0 THEN <<>>
                          ELSE IF c[i - 1] = <<>> THEN sets[i] ELSE UnifyObjectTypes(c[i - 1], sets[i])]
  BY <1>3
<1>5. CollectTypes(sets) = c[n]
  BY DEF CollectTypes, n
<1> HIDE DEF c, op
<1> DEFINE AllClosed == \A i \in 1..n : Closed(sets[i])
           Found(i) == \A x \in DOMAIN c[i] : \E j \in 1..i : x \in DOMAIN sets[j]
           S == {i \in 0..n : IsLeast(c[i], {sets[j] : j \in 1..i}) /\ (AllClosed => Closed(c[i])) /\ Found(i)}
<1>6. 0 \in S
  <2>1. c[0] = <<>> /\ 1..0 = {}
    BY <1>1, <1>4
  <2>2. IsLeast(c[0], {sets[j] : j \in 1..0})
    BY <2>1, LeastGrows
  <2>3. Closed(c[0]) /\ Found(0)
    BY <2>1, SchemaFormed DEF Closed
  <2> QED
    BY <1>1, <2>2, <2>3
<1>7. ASSUME NEW i \in 1..n, i - 1 \in S PROVE i \in S
  <2>1. IsLeast(c[i - 1], {sets[j] : j \in 1..(i - 1)}) /\ c[i - 1] \in Schemas
    BY <1>7 DEF IsLeast
  <2>2. c[i] = UnifyObjectTypes(c[i - 1], sets[i])
    <3>1. c[i] = IF c[i - 1] = <<>> THEN sets[i] ELSE UnifyObjectTypes(c[i - 1], sets[i])
      BY <1>1, <1>4
    <3> QED
      BY <1>1, <3>1, SchemasUnify
  <2>3. {sets[j] : j \in 1..i} = {sets[j] : j \in 1..(i - 1)} \cup {sets[i]}
    <3>1. 1..i = 1..(i - 1) \cup {i}
      BY <1>1
    <3> QED
      BY <3>1
  <2>4. IsLeast(c[i], {sets[j] : j \in 1..i})
    BY <1>1, <2>1, <2>2, <2>3, LeastGrows
  <2>5. AllClosed => Closed(c[i])
    BY <1>1, <1>7, <2>1, <2>2, ClosedUnify
  <2>6. Found(i)
    <3>1. \A x : x \in DOMAIN c[i] <=> x \in DOMAIN c[i - 1] \/ x \in DOMAIN sets[i]
      BY <1>1, <2>1, <2>2, SchemaParts, UnifiedTypes
    <3>2. Found(i - 1) /\ i \in 1..i /\ \A j \in 1..(i - 1) : j \in 1..i
      BY <1>1, <1>7
    <3> QED
      BY <3>1, <3>2
  <2> QED
    BY <1>1, <2>4, <2>5, <2>6
<1>8. \A i \in 0..n : i \in S
  <2> HIDE DEF S
  <2> QED
    BY <1>1, <1>6, <1>7, UpTo
<1>9. IsLeast(c[n], {sets[j] : j \in 1..n}) /\ (AllClosed => Closed(c[n])) /\ Found(n)
  <2>1. n \in 0..n
    BY <1>1
  <2>2. n \in S
    BY <1>8, <2>1
  <2> QED
    BY <2>2
<1> QED
  BY <1>5, <1>9 DEF n

\* The type of the elements of an array admits what each of their types does.
LEMMA TypesUnify ==
    ASSUME NEW types \in Seq(Normal)
    PROVE  /\ UnifyTypes(types) \in Normal
           /\ \A i \in 1..Len(types) : AtMost(types[i], UnifyTypes(types))
           /\ RefersToObject(UnifyTypes(types)) => \E i \in 1..Len(types) : types[i].base = UnifyTypes(types).base
           /\ \A u \in Normal : (\A i \in 1..Len(types) : AtMost(types[i], u)) => AtMost(UnifyTypes(types), u)
<1> DEFINE n == Len(types)
           op == [x \in (1..n) \X Normal |-> UnifyType(x[2], types[x[1]])]
<1>0. Undefined \in Normal
  BY NormalizeShapes, Unwrappable DEF Normal
<1>1. n \in Nat /\ (\A i \in 1..n : types[i] \in Normal)
  OBVIOUS
<1>2. op \in [(1..n) \X Normal -> Normal]
  <2>1. \A x, y \in Normal : UnifyType(x, y) \in Normal
    BY UnifyShapes DEF Normal
  <2> QED
    BY <1>1, <2>1
<1> HIDE DEF n
<1>3. \E c : c = [i \in 0..n |-> IF i = 0 THEN Undefined ELSE UnifyType(c[i - 1], types[i])]
  <2>1. PICK c \in [0..n -> Normal] : Folds(c, n, Undefined, op)
    <3> HIDE DEF op
    <3> QED
      BY <1>0, <1>1, <1>2, FoldExists
  <2>2. \A i \in 0..n : i # 0 => i \in 1..n /\ c[i - 1] \in Normal
    BY <1>1
  <2>3. \A i \in 0..n : i # 0 => op[<<i, c[i - 1]>>] = UnifyType(c[i - 1], types[i])
    BY <2>2
  <2>4. c = [i \in 0..n |-> IF i = 0 THEN Undefined ELSE UnifyType(c[i - 1], types[i])]
    <3> HIDE DEF op
    <3> QED
      BY <2>1, <2>3 DEF Folds
  <2> QED
    BY <2>4
<1> DEFINE c == CHOOSE c : c = [i \in 0..n |-> IF i = 0 THEN Undefined ELSE UnifyType(c[i - 1], types[i])]
<1>4. c = [i \in 0..n |-> IF i = 0 THEN Undefined ELSE UnifyType(c[i - 1], types[i])]
  BY <1>3
<1>5. UnifyTypes(types) = c[n]
  BY DEF UnifyTypes, n
<1> HIDE DEF c, op
<1> DEFINE Good(i) == /\ c[i] \in Normal
                      /\ \A j \in 1..i : AtMost(types[j], c[i])
                      /\ RefersToObject(c[i]) => \E j \in 1..i : types[j].base = c[i].base
                      /\ \A u \in Normal : (\A j \in 1..n : AtMost(types[j], u)) => AtMost(c[i], u)
           S == {i \in 0..n : Good(i)}
<1>6. 0 \in S
  <2>1. c[0] = Undefined /\ 1..0 = {}
    BY <1>1, <1>4
  <2>2. ~RefersToObject(Undefined)
    BY DEF RefersToObject, Undefined, Scalar
  <2>3. \A u \in Normal : AtMost(Undefined, u)
    BY UnifyIsLeastUpperBound
  <2> QED
    BY <1>0, <1>1, <2>1, <2>2, <2>3
<1>7. ASSUME NEW i \in 1..n, i - 1 \in S PROVE i \in S
  <2>1. /\ c[i - 1] \in Normal
        /\ \A j \in 1..(i - 1) : AtMost(types[j], c[i - 1])
        /\ RefersToObject(c[i - 1]) => \E j \in 1..(i - 1) : types[j].base = c[i - 1].base
        /\ \A u \in Normal : (\A j \in 1..n : AtMost(types[j], u)) => AtMost(c[i - 1], u)
    BY <1>7
  <2> DEFINE p == c[i - 1]
             q == c[i]
             t == types[i]
  <2>2. q = UnifyType(p, t) /\ t \in Normal /\ p \in Normal
    BY <1>1, <1>4, <2>1
  <2>3. \A j \in 1..i : j \in 1..(i - 1) \/ j = i
    OBVIOUS
  <2>4. \A j \in 1..(i - 1) : j \in 1..i /\ j \in 1..n
    BY <1>1
  <2>5. q \in Normal /\ AtMost(p, q) /\ AtMost(t, q)
    BY <2>2, UnifyShapes, UnifyIsLeastUpperBound DEF Normal
  <2>6. RefersToObject(q) => q.base \in {p.base, t.base}
    BY <2>2, UnifyRefers DEF Normal
  <2>7. \A x \in Normal : AtMost(x, p) => AtMost(x, q)
    BY <2>2, <2>5, UnifyIsLeastUpperBound
  <2>8. \A j \in 1..i : AtMost(types[j], q)
    BY <1>1, <2>1, <2>3, <2>4, <2>5, <2>7
  <2>9. RefersToObject(q) => \E j \in 1..i : types[j].base = q.base
    BY <2>1, <2>4, <2>6 DEF RefersToObject
  <2>11. \A u \in Normal : (\A j \in 1..n : AtMost(types[j], u)) => AtMost(q, u)
    <3> SUFFICES ASSUME NEW u \in Normal, \A j \in 1..n : AtMost(types[j], u) PROVE AtMost(q, u)
      OBVIOUS
    <3>1. AtMost(p, u) /\ AtMost(t, u)
      BY <2>1
    <3> HIDE DEF p, t, q
    <3> QED
      BY <2>2, <3>1, UnifyIsLeastUpperBound
  <2>10. Good(i)
    BY <2>5, <2>8, <2>9, <2>11
  <2> QED
    BY <1>1, <2>10
<1>8. \A i \in 0..n : i \in S
  <2> HIDE DEF S
  <2> QED
    BY <1>1, <1>6, <1>7, UpTo
<1>9. Good(n)
  <2>1. n \in 0..n
    BY <1>1
  <2>2. n \in S
    BY <1>8, <2>1
  <2> QED
    BY <2>2
<1> QED
  BY <1>5, <1>9 DEF n

------------------------------------------------------------------------------
\* Values.

Scalars   == {"scalar"} \X BsonScalarTypes
Over(S)   == ({"array"} \X Seq(S)) \cup ({"document"} \X DocumentsOver(S)) \cup S

\* The recursion that nests values, up to a number
NestsTo(g, n) == g = [i \in 0..n |-> IF i = 0 THEN Scalars ELSE Over(g[i - 1])]

LEMMA NestedDefined ==
    Nested[0] = Scalars /\ \A n \in Nat : Nested[n + 1] = Over(Nested[n])
<1> DEFINE S == {n \in Nat : \E g : NestsTo(g, n)}
           D == Nat
           size == [n \in D |-> n]
<1>1. ASSUME NEW n \in Nat, \A m \in Nat : m < n => m \in S PROVE n \in S
  <2>1. CASE n = 0
    <3> DEFINE g == [i \in 0..0 |-> Scalars]
    <3>1. g = [i \in 0..0 |-> IF i = 0 THEN Scalars ELSE Over(g[i - 1])]
      OBVIOUS
    <3>2. NestsTo(g, 0)
      BY <3>1 DEF NestsTo
    <3> QED
      BY <2>1, <3>2
  <2>2. CASE n # 0
    <3>1. n - 1 \in Nat /\ n - 1 < n
      BY <2>2
    <3>2. PICK g : NestsTo(g, n - 1)
      BY <1>1, <3>1
    <3> DEFINE h == [i \in 0..n |-> IF i = n THEN Over(g[n - 1]) ELSE g[i]]
    <3>3. ASSUME NEW i \in 0..n PROVE h[i] = IF i = 0 THEN Scalars ELSE Over(h[i - 1])
      <4>1. i # n => i \in 0..(n - 1)
        BY <3>1
      <4>2. i # n => g[i] = IF i = 0 THEN Scalars ELSE Over(g[i - 1])
        BY <3>2, <4>1 DEF NestsTo
      <4>3. i # 0 => i - 1 \in 0..n /\ i - 1 # n
        BY <3>1
      <4> QED
        BY <2>2, <4>2, <4>3
    <3>4. h = [i \in 0..n |-> IF i = 0 THEN Scalars ELSE Over(h[i - 1])]
      <4>1. h = [i \in 0..n |-> h[i]]
        OBVIOUS
      <4> HIDE DEF h
      <4> QED
        BY <3>3, <4>1
    <3>5. NestsTo(h, n)
      <4> HIDE DEF h
      <4> QED
        BY <3>4 DEF NestsTo
    <3> QED
      BY <3>5
  <2> QED
    BY <2>1, <2>2
<1>2. \A n \in Nat : \E g : NestsTo(g, n)
  <2>1. size \in [D -> Nat] /\ \A n \in D : (\A m \in D : size[m] < size[n] => m \in S) => n \in S
    <3> HIDE DEF S
    <3> QED
      BY <1>1
  <2>2. \A n \in D : n \in S
    <3> HIDE DEF D, size, S
    <3> QED
      BY <2>1, SizeInduction
  <2> QED
    BY <2>2
<1>3. ASSUME NEW n \in Nat, NEW m \in Nat, n <= m, NEW g, NEW h, NestsTo(g, n), NestsTo(h, m)
      PROVE  \A i \in 0..n : g[i] = h[i]
  <2> DEFINE T == {i \in 0..n : g[i] = h[i]}
  <2>1. 0 \in T
    BY <1>3 DEF NestsTo
  <2>2. ASSUME NEW i \in 1..n, i - 1 \in T PROVE i \in T
    <3>1. i \in 0..n /\ i \in 0..m /\ i # 0
      BY <1>3
    <3>2. g[i] = Over(g[i - 1]) /\ h[i] = Over(h[i - 1])
      BY <1>3, <3>1 DEF NestsTo
    <3> QED
      BY <2>2, <3>1, <3>2
  <2>3. \A i \in 0..n : i \in T
    <3> HIDE DEF T
    <3> QED
      BY <2>1, <2>2, UpTo
  <2> QED
    BY <2>3
<1> DEFINE G(n) == CHOOSE g : NestsTo(g, n)
           f == [n \in Nat |-> G(n)[n]]
<1>4. \A n \in Nat : NestsTo(G(n), n)
  BY <1>2
<1> HIDE DEF G
<1>5. f[0] = Scalars
  <2>1. G(0)[0] = Scalars
    BY <1>4 DEF NestsTo
  <2> QED
    BY <2>1
<1>6. ASSUME NEW n \in Nat, n # 0 PROVE f[n] = Over(f[n - 1])
  <2>1. n - 1 \in Nat /\ n - 1 <= n /\ n \in 0..n /\ n - 1 \in 0..(n - 1)
    BY <1>6
  <2>2. G(n)[n] = Over(G(n)[n - 1])
    BY <1>4, <1>6, <2>1 DEF NestsTo
  <2>3. G(n - 1)[n - 1] = G(n)[n - 1]
    BY <1>3, <1>4, <2>1
  <2> QED
    BY <2>1, <2>2, <2>3
<1>7. f = [n \in Nat |-> IF n = 0 THEN Scalars ELSE Over(f[n - 1])]
  <2>1. f = [n \in Nat |-> f[n]]
    OBVIOUS
  <2> HIDE DEF f
  <2> QED
    BY <1>5, <1>6, <2>1
<1> HIDE DEF f
<1>8. Nested = [n \in Nat |-> IF n = 0 THEN Scalars ELSE Over(Nested[n - 1])]
  <2>1. \E nested : nested = [n \in Nat |-> IF n = 0 THEN Scalars ELSE Over(nested[n - 1])]
    BY <1>7
  <2>2. Nested = CHOOSE nested : nested = [n \in Nat |-> IF n = 0 THEN Scalars ELSE Over(nested[n - 1])]
    BY DEF Nested, Scalars, Over
  <2> QED
    BY <2>1, <2>2
<1>9. \A n \in Nat : Nested[n] = IF n = 0 THEN Scalars ELSE Over(Nested[n - 1])
  BY <1>8
<1>10. ASSUME NEW n \in Nat PROVE Nested[n + 1] = Over(Nested[n])
  <2>1. n + 1 \in Nat /\ n + 1 # 0 /\ (n + 1) - 1 = n
    OBVIOUS
  <2> QED
    BY <1>9, <2>1
<1> QED
  BY <1>9, <1>10

\* How deep a value is nested
Rank(v) == CHOOSE k \in Nat : v \in Nested[k] /\ \A m \in Nat : v \in Nested[m] => k <= m

\* What a value is made of: values that are less deep.
LEMMA ValueShapes ==
    ASSUME NEW v \in Value
    PROVE  /\ Rank(v) \in Nat /\ v = <<v[1], v[2]>>
           /\ \/ v[1] = "scalar" /\ v[2] \in BsonScalarTypes
              \/ /\ v[1] = "array" /\ v[2] \in Seq(Value)
                 /\ \A i \in DOMAIN v[2] : v[2][i] \in Value /\ Rank(v[2][i]) < Rank(v)
              \/ /\ v[1] = "document" /\ v[2] \in DocumentsOver(Value)
                 /\ \A i \in DOMAIN v[2] : v[2][i].value \in Value /\ Rank(v[2][i].value) < Rank(v)
<1>1. \A x, k : k \in Nat /\ x \in Nested[k] =>
            /\ Rank(x) \in Nat /\ x \in Nested[Rank(x)] /\ Rank(x) <= k
            /\ \A m \in Nat : x \in Nested[m] => Rank(x) <= m
  <2> SUFFICES ASSUME NEW x, NEW k \in Nat, x \in Nested[k]
               PROVE  /\ Rank(x) \in Nat /\ x \in Nested[Rank(x)] /\ Rank(x) <= k
                      /\ \A m \in Nat : x \in Nested[m] => Rank(x) <= m
    OBVIOUS
  <2> DEFINE K == {m \in Nat : x \in Nested[m]}
  <2>1. K \in SUBSET Nat /\ K # {}
    OBVIOUS
  <2>2. \E n \in K : \A m \in K : n <= m
    <3> HIDE DEF K
    <3> QED
      BY <2>1, Smallest
  <2>3. \E n \in Nat : x \in Nested[n] /\ \A m \in Nat : x \in Nested[m] => n <= m
    BY <2>2
  <2> QED
    BY <2>3 DEF Rank
<1>2. \A k \in Nat : Nested[k] \subseteq Nested[k + 1]
  BY NestedDefined DEF Over
<1>3. ASSUME NEW k \in 0..MaxNesting PROVE Nested[k] \subseteq Value
  <2> DEFINE S == {i \in 0..(MaxNesting - k) : Nested[k] \subseteq Nested[k + i]}
             n == MaxNesting - k
  <2>1. n \in Nat /\ MaxNesting \in Nat /\ k \in Nat /\ k + n = MaxNesting
    BY NestingAssumption
  <2>2. 0 \in S
    BY <2>1
  <2>3. ASSUME NEW i \in 1..n, i - 1 \in S PROVE i \in S
    <3>1. k + (i - 1) \in Nat /\ (k + (i - 1)) + 1 = k + i /\ i \in 0..n
      BY <2>1
    <3>2. Nested[k + (i - 1)] \subseteq Nested[k + i]
      BY <1>2, <3>1
    <3> QED
      BY <2>3, <3>1, <3>2
  <2>4. \A i \in 0..n : i \in S
    <3> HIDE DEF S, n
    <3> QED
      BY <2>1, <2>2, <2>3, UpTo
  <2>5. n \in S
    <3>1. n \in 0..n
      BY <2>1
    <3> HIDE DEF S
    <3> QED
      BY <2>4, <3>1
  <2> QED
    BY <2>1, <2>5 DEF Value
<1> DEFINE k == Rank(v)
<1>4. k \in 0..MaxNesting /\ v \in Nested[k] /\ \A m \in Nat : v \in Nested[m] => k <= m
  <2>1. MaxNesting \in Nat
    BY NestingAssumption
  <2> QED
    BY <1>1, <2>1 DEF Value
<1>5. k \in Nat
  BY <1>4
<1> HIDE DEF k
<1>6. CASE k = 0
  BY <1>4, <1>6, NestedDefined DEF Scalars, k
<1>7. CASE k # 0
  <2> DEFINE S == Nested[k - 1]
  <2>1. k - 1 \in Nat /\ k - 1 \in 0..MaxNesting /\ (k - 1) + 1 = k /\ ~(k <= k - 1)
    BY <1>4, <1>7, NestingAssumption
  <2>2. Nested[k] = Over(S) /\ v \notin S /\ S \subseteq Value
    BY <1>3, <1>4, <2>1, NestedDefined
  <2>3. \A x \in S : Rank(x) \in Nat /\ Rank(x) < k
    BY <1>1, <2>1
  <2> HIDE DEF S
  <2>4. v \in {"array"} \X Seq(S) \/ v \in {"document"} \X DocumentsOver(S)
    BY <1>4, <2>2 DEF Over
  <2>5. CASE v \in {"array"} \X Seq(S)
    <3>1. v = <<v[1], v[2]>> /\ v[1] = "array" /\ v[2] \in Seq(S)
      BY <2>5
    <3>2. v[2] \in Seq(Value) /\ \A i \in DOMAIN v[2] : v[2][i] \in S
      BY <2>2, <3>1
    <3> QED
      BY <1>5, <2>2, <2>3, <3>1, <3>2 DEF k
  <2>6. CASE v \in {"document"} \X DocumentsOver(S)
    <3>1. v = <<v[1], v[2]>> /\ v[1] = "document" /\ v[2] \in DocumentsOver(S)
      BY <2>6
    <3> DEFINE d == v[2]
               A == [name : Seq(STRING) \ {<<>>}, value : S]
               B == [name : Seq(STRING) \ {<<>>}, value : Value]
    <3>2. d \in Seq(A) /\ \A i, j \in DOMAIN d : d[i].name = d[j].name => i = j
      BY <3>1 DEF DocumentsOver
    <3>3. A \subseteq B /\ \A x \in A : x.value \in S
      BY <2>2
    <3> HIDE DEF A, B
    <3>4. d \in Seq(B) /\ \A i \in DOMAIN d : d[i] \in A
      BY <3>2, <3>3
    <3>5. d \in DocumentsOver(Value)
      BY <3>2, <3>4 DEF DocumentsOver, B
    <3>6. \A i \in DOMAIN d : d[i].value \in S
      BY <3>3, <3>4
    <3> HIDE DEF d
    <3>7. \A i \in DOMAIN d : d[i].value \in Value /\ Rank(d[i].value) < k
      BY <2>2, <2>3, <3>6
    <3> QED
      BY <1>5, <3>1, <3>5, <3>7 DEF k, d
  <2> QED
    BY <2>4, <2>5, <2>6
<1> QED
  BY <1>6, <1>7

------------------------------------------------------------------------------
\* What is made of values and documents.

Calls  == Seq(STRING) \X Value \X BOOLEAN
Formed == [defs : Schemas, type : Normal]

\* What is made of a value defines the object types it refers to.
SelfContained(m) == Closed(m.defs) /\ (RefersToObject(m.type) => ObjectNameOf(m.type) \in DOMAIN m.defs)

\* A list of schemas has the last definition of each name.
LEMMA Concatenates ==
    ASSUME NEW sets \in Seq(Schemas)
    PROVE  /\ Concatenated(sets) \in Schemas
           /\ \A n : n \in DOMAIN Concatenated(sets) <=> \E i \in DOMAIN sets : n \in DOMAIN sets[i]
           /\ \A n \in DOMAIN Concatenated(sets) :
                \E i \in DOMAIN sets : /\ n \in DOMAIN sets[i] /\ Concatenated(sets)[n] = sets[i][n]
                                       /\ \A j \in DOMAIN sets : n \in DOMAIN sets[j] => j <= i
<1> DEFINE r == Concatenated(sets)
           N == UNION {DOMAIN sets[i] : i \in DOMAIN sets}
           Last(n, i) == n \in DOMAIN sets[i] /\ \A j \in DOMAIN sets : n \in DOMAIN sets[j] => j <= i
<1>1. /\ DOMAIN sets \subseteq Nat /\ (\A i \in DOMAIN sets : sets[i] \in Schemas /\ i <= Len(sets))
      /\ Len(sets) \in Nat
  OBVIOUS
<1>2. r = [n \in N |-> sets[CHOOSE i \in DOMAIN sets : Last(n, i)][n]]
  BY DEF Concatenated
<1>3. \A n : n \in N <=> \E i \in DOMAIN sets : n \in DOMAIN sets[i]
  OBVIOUS
<1> HIDE DEF N
<1>4. ASSUME NEW n \in N PROVE \E i \in DOMAIN sets : Last(n, i)
  <2> DEFINE K == {Len(sets) - i : i \in {j \in DOMAIN sets : n \in DOMAIN sets[j]}}
  <2>1. K \in SUBSET Nat /\ K # {}
    BY <1>1, <1>3, <1>4
  <2>2. PICK k \in K : \A m \in K : k <= m
    <3> HIDE DEF K
    <3> QED
      BY <2>1, Smallest
  <2>3. PICK i \in DOMAIN sets : n \in DOMAIN sets[i] /\ k = Len(sets) - i
    BY <2>2
  <2>4. ASSUME NEW j \in DOMAIN sets, n \in DOMAIN sets[j] PROVE j <= i
    <3>1. Len(sets) - j \in K
      BY <2>4
    <3>2. k <= Len(sets) - j
      <4> HIDE DEF K
      <4> QED
        BY <2>2, <3>1
    <3> QED
      BY <1>1, <2>3, <3>2
  <2> QED
    BY <2>3, <2>4
<1>5. \A n \in N : \E i \in DOMAIN sets : Last(n, i) /\ r[n] = sets[i][n]
  <2> SUFFICES ASSUME NEW n \in N PROVE \E i \in DOMAIN sets : Last(n, i) /\ r[n] = sets[i][n]
    OBVIOUS
  <2> DEFINE i == CHOOSE i \in DOMAIN sets : Last(n, i)
  <2> HIDE DEF Last, r
  <2>1. i \in DOMAIN sets /\ Last(n, i)
    BY <1>4
  <2>2. r[n] = sets[i][n]
    BY <1>2
  <2> QED
    BY <2>1, <2>2
<1>6. DOMAIN r = N /\ r = [n \in DOMAIN r |-> r[n]]
  BY <1>2
<1> HIDE DEF r
<1>7. \A n \in N : n \in Names /\ r[n] \in ObjectTypeSet
  BY <1>1, <1>5, SchemaParts
<1>8. r \in Schemas
  BY <1>6, <1>7, SchemaFormed
<1> QED
  BY <1>3, <1>5, <1>6, <1>8 DEF r

LEMMA DocumentParts ==
    ASSUME NEW S, NEW doc \in DocumentsOver(S)
    PROVE  /\ Len(doc) \in Nat /\ DOMAIN doc = 1..Len(doc)
           /\ \A i \in DOMAIN doc : doc[i].name \in Names \ {<<>>} /\ doc[i].value \in S
           /\ \A i, j \in DOMAIN doc : doc[i].name = doc[j].name => i = j
<1> DEFINE A == [name : Seq(STRING) \ {<<>>}, value : S]
<1>1. doc \in Seq(A) /\ \A i, j \in DOMAIN doc : doc[i].name = doc[j].name => i = j
  BY DEF DocumentsOver
<1>2. \A x \in A : x.name \in Names \ {<<>>} /\ x.value \in S
  BY DEF Names
<1> HIDE DEF A
<1> QED
  BY <1>1, <1>2

\* What is made of the fields of a document
FieldsMade(made, name, doc, isCollectionType, allNullable) ==
    Concatenated(Append([i \in DOMAIN doc |-> made[i].defs],
        [n \in {name} |->
            [f \in {doc[i].name : i \in DOMAIN doc} |->
                IF /\ allNullable
                   /\ ~(/\ isCollectionType
                        /\ doc[CHOOSE i \in DOMAIN doc : doc[i].name = f].name = IdField)
                THEN MakeNullable(made[CHOOSE i \in DOMAIN doc : doc[i].name = f].type)
                ELSE made[CHOOSE i \in DOMAIN doc : doc[i].name = f].type]]))
FieldCall(name, doc, i, allNullable) == <<name \o doc[i].name, doc[i].value, allNullable>>

LEMMA ObjectTypeMade ==
    ASSUME NEW mf, NEW name, NEW doc, NEW isCollectionType, NEW allNullable
    PROVE  ObjectTypeOver(mf, name, doc, isCollectionType, allNullable)
            = FieldsMade([i \in DOMAIN doc |-> mf[FieldCall(name, doc, i, allNullable)]],
                         name, doc, isCollectionType, allNullable)
BY DEF ObjectTypeOver, FieldsMade, FieldCall

\* The object types of a document are a schema; it has the document's own type; and what it
\* refers to is defined in it, if that is so for each field.
LEMMA ObjectTypesMade ==
    ASSUME NEW name \in Names, NEW doc \in DocumentsOver(Value), NEW isCollectionType \in BOOLEAN,
           NEW allNullable \in BOOLEAN, NEW made \in [DOMAIN doc -> Formed]
    PROVE  LET r == FieldsMade(made, name, doc, isCollectionType, allNullable)
           IN  /\ r \in Schemas /\ name \in DOMAIN r
               /\ \A n : n \in DOMAIN r <=> n = name \/ \E i \in DOMAIN doc : n \in DOMAIN made[i].defs
               /\ \A n \in DOMAIN r : n # name =>
                    \E i \in DOMAIN doc : n \in DOMAIN made[i].defs /\ r[n] = made[i].defs[n]
               /\ \A f : f \in DOMAIN r[name] <=> \E i \in DOMAIN doc : doc[i].name = f
               /\ \A i \in DOMAIN doc : r[name][doc[i].name] \in {made[i].type, MakeNullable(made[i].type)}
               /\ ~allNullable => \A i \in DOMAIN doc : r[name][doc[i].name] = made[i].type
               /\ (\A i \in DOMAIN doc : SelfContained(made[i])) => Closed(r)
<1> DEFINE r == FieldsMade(made, name, doc, isCollectionType, allNullable)
           F == {doc[i].name : i \in DOMAIN doc}
           At(f) == CHOOSE i \in DOMAIN doc : doc[i].name = f
           FieldType(f) == IF allNullable /\ ~(isCollectionType /\ doc[At(f)].name = IdField)
                           THEN MakeNullable(made[At(f)].type) ELSE made[At(f)].type
           fields == [f \in F |-> FieldType(f)]
           own == [n \in {name} |-> fields]
           inner == [i \in DOMAIN doc |-> made[i].defs]
           sets == Append(inner, own)
           n == Len(doc)
<1>1. n \in Nat /\ DOMAIN doc = 1..n
  BY DocumentParts
<1>2. r = Concatenated(sets)
  BY DEF FieldsMade
<1>3. \A i \in DOMAIN doc : doc[i].name \in Names /\ made[i].defs \in Schemas /\ made[i].type \in Normal
  BY DocumentParts DEF Formed
<1>4. \A f \in F : At(f) \in DOMAIN doc /\ doc[At(f)].name = f
  OBVIOUS
<1>5. \A f \in F : f \in Names /\ FieldType(f) \in Normal /\ FieldType(f).base = made[At(f)].type.base
  <2> HIDE DEF At
  <2>1. \A t \in Normal : MakeNullable(t) \in Normal /\ MakeNullable(t).base = t.base
    BY NormalParts, SameBase
  <2> QED
    BY <1>3, <1>4, <2>1
<1>13. \A i \in DOMAIN doc : /\ doc[i].name \in F
                           /\ FieldType(doc[i].name) \in {made[i].type, MakeNullable(made[i].type)}
  <2> SUFFICES ASSUME NEW i \in DOMAIN doc
               PROVE  /\ doc[i].name \in F
                      /\ FieldType(doc[i].name) \in {made[i].type, MakeNullable(made[i].type)}
    OBVIOUS
  <2> HIDE DEF At
  <2>1. doc[i].name \in F
    OBVIOUS
  <2>2. At(doc[i].name) = i
    BY <1>4, <2>1, DocumentParts
  <2> QED
    BY <2>1, <2>2
<1>18. ASSUME ~allNullable, NEW i \in DOMAIN doc PROVE FieldType(doc[i].name) = made[i].type
  <2> HIDE DEF At
  <2>1. doc[i].name \in F
    OBVIOUS
  <2>2. At(doc[i].name) = i
    BY <1>4, <2>1, DocumentParts
  <2> QED
    BY <1>18, <2>2
<1> HIDE DEF At, FieldType
<1>6. fields \in ObjectTypeSet
  <2>1. fields = [f \in DOMAIN fields |-> fields[f]] /\ DOMAIN fields = F /\ \A f \in F : fields[f] = FieldType(f)
    OBVIOUS
  <2> HIDE DEF fields, F
  <2> QED
    BY <1>5, <2>1, SchemaFormed
<1>7. own \in Schemas /\ DOMAIN own = {name} /\ own[name] = fields
  <2>1. own = [m \in DOMAIN own |-> own[m]] /\ DOMAIN own = {name} /\ own[name] = fields
    OBVIOUS
  <2> HIDE DEF own, fields
  <2> QED
    BY <1>6, <2>1, SchemaFormed
<1>8. inner \in Seq(Schemas) /\ Len(inner) = n /\ \A i \in 1..n : inner[i] = made[i].defs
  BY <1>1, <1>3
<1>9. /\ sets \in Seq(Schemas) /\ DOMAIN sets = 1..(n + 1)
      /\ \A i \in 1..n : sets[i] = made[i].defs
      /\ sets[n + 1] = own
  <2> HIDE DEF inner, own, n
  <2> QED
    BY <1>1, <1>7, <1>8
<1> HIDE DEF sets, own, inner, n
<1>10. /\ r \in Schemas
       /\ \A m : m \in DOMAIN r <=> \E i \in DOMAIN sets : m \in DOMAIN sets[i]
       /\ \A m \in DOMAIN r : \E i \in DOMAIN sets : /\ m \in DOMAIN sets[i] /\ r[m] = sets[i][m]
                                                     /\ \A j \in DOMAIN sets : m \in DOMAIN sets[j] => j <= i
  <2> DEFINE c == Concatenated(sets)
  <2>1. /\ c \in Schemas
        /\ \A m : m \in DOMAIN c <=> \E i \in DOMAIN sets : m \in DOMAIN sets[i]
        /\ \A m \in DOMAIN c : \E i \in DOMAIN sets : /\ m \in DOMAIN sets[i] /\ c[m] = sets[i][m]
                                                      /\ \A j \in DOMAIN sets : m \in DOMAIN sets[j] => j <= i
    BY <1>9, Concatenates
  <2> HIDE DEF c, r
  <2>2. r = c
    BY <1>2 DEF c
  <2> QED
    BY <2>1, <2>2
<1>11. n + 1 \in DOMAIN sets /\ name \in DOMAIN r
  BY <1>1, <1>7, <1>9, <1>10
<1>12. ASSUME \A i \in DOMAIN doc : SelfContained(made[i]) PROVE Closed(r)
  <2> SUFFICES ASSUME NEW m \in DOMAIN r, NEW f \in DOMAIN r[m], RefersToObject(r[m][f])
               PROVE  ObjectNameOf(r[m][f]) \in DOMAIN r
    BY DEF Closed
  <2>1. PICK i \in DOMAIN sets : m \in DOMAIN sets[i] /\ r[m] = sets[i][m]
    BY <1>10
  <2>2. i \in 1..n \/ i = n + 1
    BY <1>1, <1>9
  <2>3. ASSUME NEW j \in 1..n PROVE \A x \in DOMAIN made[j].defs : x \in DOMAIN r
    <3>1. j \in DOMAIN sets /\ sets[j] = made[j].defs
      BY <1>1, <1>9
    <3> QED
      BY <1>10, <3>1
  <2>4. CASE i \in 1..n
    <3>1. sets[i] = made[i].defs /\ Closed(made[i].defs)
      BY <1>1, <1>9, <1>12, <2>4 DEF SelfContained
    <3>2. ObjectNameOf(r[m][f]) \in DOMAIN made[i].defs
      BY <2>1, <3>1 DEF Closed
    <3> QED
      BY <2>3, <2>4, <3>2
  <2>5. CASE i = n + 1
    <3>1. r[m] = fields
      BY <1>7, <1>9, <2>1, <2>5
    <3>2. f \in F /\ r[m][f] = FieldType(f)
      BY <3>1
    <3>3. At(f) \in 1..n /\ r[m][f].base = made[At(f)].type.base
      BY <1>1, <1>4, <1>5, <3>2
    <3>4. ObjectNameOf(r[m][f]) \in DOMAIN made[At(f)].defs
      BY <1>1, <1>12, <3>3 DEF SelfContained, RefersToObject, ObjectNameOf
    <3> QED
      BY <2>3, <3>3, <3>4
  <2> QED
    BY <2>2, <2>4, <2>5
<1>14. ASSUME NEW m
       PROVE  m \in DOMAIN r <=> m = name \/ \E i \in DOMAIN doc : m \in DOMAIN made[i].defs
  <2>1. \A i \in DOMAIN sets : i \in 1..n \/ i = n + 1
    BY <1>1, <1>9
  <2>2. \A i \in DOMAIN doc : i \in DOMAIN sets /\ sets[i] = made[i].defs
    BY <1>1, <1>9
  <2> QED
    BY <1>1, <1>7, <1>9, <1>10, <1>11, <2>1, <2>2
<1>15. ASSUME NEW m \in DOMAIN r, m # name
       PROVE  \E i \in DOMAIN doc : m \in DOMAIN made[i].defs /\ r[m] = made[i].defs[m]
  <2>1. PICK i \in DOMAIN sets : m \in DOMAIN sets[i] /\ r[m] = sets[i][m]
    BY <1>10
  <2>2. i # n + 1
    BY <1>7, <1>9, <1>15, <2>1
  <2>3. i \in DOMAIN doc /\ sets[i] = made[i].defs
    BY <1>1, <1>9, <2>2
  <2> QED
    BY <2>1, <2>3
<1>16. r[name] = fields
  <2>1. PICK i \in DOMAIN sets : r[name] = sets[i][name] /\ \A j \in DOMAIN sets : name \in DOMAIN sets[j] => j <= i
    BY <1>10, <1>11
  <2>2. n + 1 <= i
    BY <1>7, <1>9, <1>11, <2>1
  <2>3. i = n + 1
    BY <1>1, <1>9, <2>2
  <2> QED
    BY <1>7, <1>9, <2>1, <2>3
<1>17. /\ \A f : f \in DOMAIN r[name] <=> \E i \in DOMAIN doc : doc[i].name = f
       /\ \A i \in DOMAIN doc : r[name][doc[i].name] \in {made[i].type, MakeNullable(made[i].type)}
  BY <1>13, <1>16
<1>19. ASSUME ~allNullable PROVE \A i \in DOMAIN doc : r[name][doc[i].name] = made[i].type
  <2> SUFFICES ASSUME NEW i \in DOMAIN doc PROVE r[name][doc[i].name] = made[i].type
    OBVIOUS
  <2>1. FieldType(doc[i].name) = made[i].type
    BY <1>18, <1>19
  <2>2. r[name][doc[i].name] = FieldType(doc[i].name)
    BY <1>13, <1>16
  <2> QED
    BY <2>1, <2>2
<1> QED
  BY <1>10, <1>11, <1>12, <1>14, <1>15, <1>17, <1>19 DEF r

\* The right-hand side of MadeFieldType
MadeStep(g, call) ==
    LET name == call[1]
        v    == call[2]
        made == [i \in DOMAIN v[2] |-> g[<<name, v[2][i], call[3]>>]]
    IN  CASE v[1] = "scalar"   -> [defs |-> <<>>, type |-> Scalar(v[2])]
          [] v[1] = "document" ->
                [defs |-> ObjectTypeOver(g, name, v[2], FALSE, call[3]), type |-> Object(name)]
          [] v[1] = "array"    ->
                [defs |-> CollectTypes([i \in DOMAIN v[2] |-> made[i].defs]),
                 type |-> ArrayOf(UnifyTypes([i \in DOMAIN v[2] |-> made[i].type]))]

\* The calls that are made for the parts of a value
Parts(call) ==
    LET v == call[2]
    IN  IF v[1] = "array" THEN {<<call[1], v[2][i], call[3]>> : i \in DOMAIN v[2]}
        ELSE IF v[1] = "document" THEN {FieldCall(call[1], v[2], i, call[3]) : i \in DOMAIN v[2]}
        ELSE {}

LEMMA PartsAreLess ==
    ASSUME NEW call \in Calls
    PROVE  /\ Rank(call[2]) \in Nat
           /\ \A part \in Parts(call) : part \in Calls /\ Rank(part[2]) < Rank(call[2])
<1> DEFINE v == call[2]
           d == v[2]
<1>1. v \in Value /\ call[1] \in Seq(STRING) /\ call[3] \in BOOLEAN /\ Rank(v) \in Nat
  BY ValueShapes DEF Calls
<1>2. CASE v[1] = "array"
  <2>1. \A i \in DOMAIN d : d[i] \in Value /\ Rank(d[i]) < Rank(v)
    BY <1>1, <1>2, ValueShapes
  <2>2. Parts(call) = {<<call[1], d[i], call[3]>> : i \in DOMAIN d}
    BY <1>2 DEF Parts
  <2> HIDE DEF d
  <2>3. \A part \in Parts(call) : part \in Calls /\ Rank(part[2]) < Rank(v)
    BY <1>1, <2>1, <2>2 DEF Calls
  <2> QED
    BY <1>1, <2>3
<1>3. CASE v[1] = "document"
  <2>1. \A i \in DOMAIN d : d[i].value \in Value /\ Rank(d[i].value) < Rank(v)
    BY <1>1, <1>3, ValueShapes
  <2>2. \A i \in DOMAIN d : d[i].name \in Seq(STRING)
    <3>1. d \in DocumentsOver(Value)
      BY <1>1, <1>3, ValueShapes
    <3> QED
      BY <3>1, DocumentParts DEF Names
  <2>3. Parts(call) = {<<call[1] \o d[i].name, d[i].value, call[3]>> : i \in DOMAIN d}
    BY <1>3 DEF Parts, FieldCall
  <2> HIDE DEF d
  <2>4. \A i \in DOMAIN d : call[1] \o d[i].name \in Seq(STRING)
    <3>1. \A x, y \in Seq(STRING) : x \o y \in Seq(STRING)
      OBVIOUS
    <3> QED
      BY <1>1, <2>2, <3>1
  <2> DEFINE name(i) == call[1] \o d[i].name
  <2>5. Parts(call) = {<<name(i), d[i].value, call[3]>> : i \in DOMAIN d} /\ \A i \in DOMAIN d : name(i) \in Seq(STRING)
    BY <2>3, <2>4
  <2> HIDE DEF name
  <2>6. \A part \in Parts(call) : part \in Calls /\ Rank(part[2]) < Rank(v)
    BY <1>1, <2>1, <2>5 DEF Calls
  <2> QED
    BY <1>1, <2>6
<1>4. CASE v[1] # "array" /\ v[1] # "document"
  BY <1>1, <1>4 DEF Parts
<1> QED
  BY <1>2, <1>3, <1>4

\* One step of it, with whatever was made of the parts
LEMMA StepMakes ==
    ASSUME NEW call \in Calls, NEW g, \A part \in Parts(call) : g[part] \in Formed
    PROVE  /\ MadeStep(g, call) \in Formed
           /\ (\A part \in Parts(call) : SelfContained(g[part])) => SelfContained(MadeStep(g, call))
<1> DEFINE name == call[1]
           v    == call[2]
           d    == v[2]
           all  == call[3]
           m    == MadeStep(g, call)
<1>1. v \in Value /\ name \in Names /\ all \in BOOLEAN
  BY DEF Calls, Names
<1>2. \A t \in Type : t.wrap = <<>> => t \in Normal
  BY NormalizeShapes DEF Normal, IsNullable, IsArray
<1>3. CASE v[1] = "scalar"
  <2>1. d \in BsonScalarTypes
    BY <1>1, <1>3, ValueShapes
  <2>2. Scalar(d) \in Normal /\ ~RefersToObject(Scalar(d))
    BY <1>2, <2>1, Unwrappable DEF Scalar, RefersToObject
  <2>3. m = [defs |-> <<>>, type |-> Scalar(d)]
    BY <1>3 DEF MadeStep
  <2> HIDE DEF d
  <2>4. m \in Formed
    BY <2>2, <2>3, SchemaFormed DEF Formed
  <2>5. SelfContained(m)
    BY <2>2, <2>3, SchemaFormed DEF SelfContained, Closed
  <2> QED
    BY <2>4, <2>5
<1>4. CASE v[1] = "array"
  <2> DEFINE made  == [i \in DOMAIN d |-> g[<<name, d[i], all>>]]
             sets  == [i \in DOMAIN d |-> made[i].defs]
             types == [i \in DOMAIN d |-> made[i].type]
  <2>1. d \in Seq(Value) /\ \A i \in DOMAIN d : <<name, d[i], all>> \in Parts(call)
    BY <1>1, <1>4, ValueShapes DEF Parts
  <2>2. m = [defs |-> CollectTypes(sets), type |-> ArrayOf(UnifyTypes(types))]
    BY <1>4 DEF MadeStep
  <2>3. \A i \in DOMAIN d : made[i] \in Formed
    BY <2>1
  <2>4. /\ sets \in Seq(Schemas) /\ types \in Seq(Normal)
        /\ Len(sets) = Len(d) /\ Len(types) = Len(d) /\ DOMAIN d = 1..Len(d)
        /\ \A i \in DOMAIN d : sets[i] = made[i].defs /\ types[i] = made[i].type
    <3>1. DOMAIN d = 1..Len(d) /\ Len(d) \in Nat
      BY <2>1
    <3>2. \A i \in DOMAIN d : made[i].defs \in Schemas /\ made[i].type \in Normal
      BY <2>3 DEF Formed
    <3> HIDE DEF made, d
    <3> QED
      BY <3>1, <3>2
  <2> HIDE DEF sets, types, made, d
  <2>5. /\ CollectTypes(sets) \in Schemas /\ UnifyTypes(types) \in Normal
        /\ \A i \in 1..Len(d) : \A x \in DOMAIN sets[i] : x \in DOMAIN CollectTypes(sets)
    <3>1. IsLeast(CollectTypes(sets), {sets[i] : i \in 1..Len(d)})
      BY <2>4, CollectsLeast
    <3>2. CollectTypes(sets) \in Schemas /\ UnifyTypes(types) \in Normal
      BY <2>4, <3>1, TypesUnify DEF IsLeast
    <3>3. \A i \in 1..Len(d) : UnifyObjectTypes(sets[i], CollectTypes(sets)) = CollectTypes(sets)
      BY <3>1 DEF IsLeast, Includes
    <3>4. ASSUME NEW i \in 1..Len(d), NEW x \in DOMAIN sets[i] PROVE x \in DOMAIN CollectTypes(sets)
      <4>1. sets[i] \in Schemas
        BY <2>4
      <4>2. x \in DOMAIN UnifyObjectTypes(sets[i], CollectTypes(sets))
        BY <3>2, <3>4, <4>1, SchemaParts, UnifiedTypes
      <4> QED
        BY <3>3, <4>2
    <3> QED
      BY <3>2, <3>4
  <2>6. m \in Formed
    BY <2>2, <2>5, NormalParts DEF Formed
  <2>7. ASSUME \A part \in Parts(call) : SelfContained(g[part]) PROVE SelfContained(m)
    <3>1. \A i \in DOMAIN d : SelfContained(made[i])
      BY <2>1, <2>7 DEF made
    <3>2. Closed(m.defs)
      <4>1. \A i \in 1..Len(d) : Closed(sets[i])
        BY <2>4, <3>1 DEF SelfContained
      <4>2. Closed(CollectTypes(sets))
        BY <2>4, <4>1, CollectsLeast
      <4> QED
        BY <2>2, <4>2
    <3>3. ASSUME RefersToObject(m.type) PROVE ObjectNameOf(m.type) \in DOMAIN m.defs
      <4>1. m.type.base = UnifyTypes(types).base
        BY <2>2, <2>5, SameBase DEF Normal
      <4>2. PICK i \in 1..Len(d) : types[i].base = UnifyTypes(types).base
        BY <2>4, <3>3, <4>1, TypesUnify DEF RefersToObject
      <4>3. ObjectNameOf(m.type) \in DOMAIN sets[i]
        BY <2>4, <3>1, <3>3, <4>1, <4>2 DEF SelfContained, RefersToObject, ObjectNameOf
      <4> QED
        BY <2>2, <2>5, <4>3
    <3> QED
      BY <3>2, <3>3 DEF SelfContained
  <2> QED
    BY <2>6, <2>7
<1>5. CASE v[1] = "document"
  <2> DEFINE made == [i \in DOMAIN d |-> g[FieldCall(name, d, i, all)]]
             r    == FieldsMade(made, name, d, FALSE, all)
  <2>1. d \in DocumentsOver(Value) /\ \A i \in DOMAIN d : FieldCall(name, d, i, all) \in Parts(call)
    BY <1>1, <1>5, ValueShapes DEF Parts
  <2>2. m = [defs |-> r, type |-> Object(name)]
    <3>1. m = [defs |-> ObjectTypeOver(g, name, d, FALSE, all), type |-> Object(name)]
      BY <1>5 DEF MadeStep
    <3> QED
      BY <3>1, ObjectTypeMade
  <2>3. made \in [DOMAIN d -> Formed]
    BY <2>1
  <2> HIDE DEF d
  <2>4. Object(name) \in Normal /\ ObjectNameOf(Object(name)) = name
    <3>1. Object(name) \in Type /\ Object(name).wrap = <<>>
      BY <1>1 DEF Object, Type, Bases, Names
    <3> QED
      BY <1>2, <3>1 DEF Object, ObjectNameOf
  <2>5. /\ r \in Schemas /\ name \in DOMAIN r
        /\ (\A i \in DOMAIN d : SelfContained(made[i])) => Closed(r)
    <3> HIDE DEF made, name, all
    <3> QED
      BY <1>1, <2>1, <2>3, ObjectTypesMade
  <2>6. (\A part \in Parts(call) : SelfContained(g[part])) => \A i \in DOMAIN d : SelfContained(made[i])
    BY <2>1
  <2> HIDE DEF made, r
  <2> QED
    BY <2>2, <2>4, <2>5, <2>6 DEF Formed, SelfContained
<1>6. v[1] \in {"scalar", "array", "document"}
  BY <1>1, ValueShapes
<1> QED
  BY <1>3, <1>4, <1>5, <1>6

\* The recursive definition defines a function on calls.
LEMMA MadeDefined ==
    /\ MadeFieldType \in [Calls -> Formed]
    /\ \A call \in Calls : MadeFieldType[call] = MadeStep(MadeFieldType, call)
<1> DEFINE D == Calls
           R == Formed
           size == [call \in D |-> Rank(call[2])]
           step == [g \in [D -> R] |-> [call \in D |-> MadeStep(g, call)]]
<1>1. size \in [D -> Nat]
  BY PartsAreLess
<1>2. R # {}
  <2>1. Undefined \in Normal
    BY NormalizeShapes, Unwrappable DEF Normal
  <2>2. [defs |-> <<>>, type |-> Undefined] \in R
    BY <2>1, SchemaFormed DEF Formed
  <2> QED
    BY <2>2
<1>3. \A call \in D : \A part \in Parts(call) : part \in D /\ size[part] < size[call]
  BY PartsAreLess
<1>4. \A g \in [D -> R], call \in D : MadeStep(g, call) \in R
  <2> SUFFICES ASSUME NEW g \in [D -> R], NEW call \in D PROVE MadeStep(g, call) \in R
    OBVIOUS
  <2>1. \A part \in Parts(call) : g[part] \in R
    BY PartsAreLess
  <2> QED
    BY <2>1, StepMakes
<1>5. step \in [[D -> R] -> [D -> R]]
  <2> HIDE DEF D, R
  <2> QED
    BY <1>4
<1>6. \A g, h \in [D -> R], call \in D :
        (\A y \in D : size[y] < size[call] => g[y] = h[y]) => step[g][call] = step[h][call]
  <2> SUFFICES ASSUME NEW g \in [D -> R], NEW h \in [D -> R], NEW call \in D,
                      \A y \in D : size[y] < size[call] => g[y] = h[y]
               PROVE  step[g][call] = step[h][call]
    OBVIOUS
  <2>1. \A part \in Parts(call) : g[part] = h[part]
    <3> HIDE DEF D, R, size
    <3> QED
      BY <1>3
  <2> DEFINE name == call[1]
             v    == call[2]
             d    == v[2]
             all  == call[3]
  <2>2. CASE v[1] = "scalar"
    BY <2>2 DEF MadeStep
  <2>3. CASE v[1] = "array"
    <3> DEFINE Made(x) == [i \in DOMAIN d |-> x[<<name, d[i], all>>]]
               Rest(made) == [defs |-> CollectTypes([i \in DOMAIN d |-> made[i].defs]),
                              type |-> ArrayOf(UnifyTypes([i \in DOMAIN d |-> made[i].type]))]
    <3>1. MadeStep(g, call) = Rest(Made(g)) /\ MadeStep(h, call) = Rest(Made(h))
      BY <2>3 DEF MadeStep
    <3>2. Made(g) = Made(h)
      BY <2>1, <2>3 DEF Parts
    <3> HIDE DEF Made, Rest
    <3>3. MadeStep(g, call) = MadeStep(h, call)
      BY <3>1, <3>2
    <3> QED
      BY <3>3
  <2>4. CASE v[1] = "document"
    <3> DEFINE Made(x) == [i \in DOMAIN d |-> x[FieldCall(name, d, i, all)]]
               Rest(made) == [defs |-> FieldsMade(made, name, d, FALSE, all), type |-> Object(name)]
    <3>1. MadeStep(g, call) = Rest(Made(g)) /\ MadeStep(h, call) = Rest(Made(h))
      <4>1. \A x : MadeStep(x, call) = [defs |-> ObjectTypeOver(x, name, d, FALSE, all), type |-> Object(name)]
        BY <2>4 DEF MadeStep
      <4>2. \A x : ObjectTypeOver(x, name, d, FALSE, all) = FieldsMade(Made(x), name, d, FALSE, all)
        BY ObjectTypeMade
      <4> QED
        BY <4>1, <4>2
    <3>2. Made(g) = Made(h)
      BY <2>1, <2>4 DEF Parts
    <3> HIDE DEF Made, Rest
    <3>3. MadeStep(g, call) = MadeStep(h, call)
      BY <3>1, <3>2
    <3> QED
      BY <3>3
  <2>5. v[1] \in {"scalar", "array", "document"}
    BY ValueShapes DEF Calls
  <2> QED
    BY <2>2, <2>3, <2>4, <2>5
<1>7. PICK g \in [D -> R] : step[g] = g
  <2> HIDE DEF D, R, size, step
  <2>1. Contracts(step, size, D, R)
    BY <1>1, <1>2, <1>5, <1>6 DEF Contracts
  <2> QED
    BY <2>1, Recursion
<1>8. g = [call \in D |-> MadeStep(g, call)]
  BY <1>7
<1>9. MadeFieldType = [call \in D |-> MadeStep(MadeFieldType, call)]
  <2>1. \E made : made = [call \in D |-> MadeStep(made, call)]
    BY <1>8
  <2>2. MadeFieldType = CHOOSE made : made = [call \in D |-> MadeStep(made, call)]
    BY DEF MadeFieldType, MadeStep, Calls
  <2> QED
    BY <2>1, <2>2
<1>10. \A call \in D : MadeFieldType[call] = MadeStep(MadeFieldType, call)
  BY <1>9
<1> DEFINE S == {call \in D : MadeFieldType[call] \in R}
<1>11. \A call \in D : (\A y \in D : size[y] < size[call] => y \in S) => call \in S
  <2> SUFFICES ASSUME NEW call \in D, \A y \in D : size[y] < size[call] => y \in S PROVE call \in S
    OBVIOUS
  <2>1. \A part \in Parts(call) : MadeFieldType[part] \in R
    BY <1>3
  <2>2. MadeStep(MadeFieldType, call) \in R
    BY <2>1, StepMakes
  <2> QED
    BY <1>10, <2>2
<1>12. \A call \in D : MadeFieldType[call] \in R
  <2>1. \A call \in D : call \in S
    <3> HIDE DEF D, S, size
    <3> QED
      BY <1>1, <1>11, SizeInduction
  <2> QED
    BY <2>1
<1>13. MadeFieldType \in [D -> R]
  <2> HIDE DEF D, R
  <2> QED
    BY <1>9, <1>12
<1> QED
  BY <1>10, <1>13

\* What is made of a value defines what it refers to.
LEMMA MadeSelfContained == \A call \in Calls : SelfContained(MadeFieldType[call])
<1> DEFINE D == Calls
           size == [call \in D |-> Rank(call[2])]
           S == {call \in D : SelfContained(MadeFieldType[call])}
<1>1. size \in [D -> Nat]
  BY PartsAreLess
<1>2. \A call \in D : (\A y \in D : size[y] < size[call] => y \in S) => call \in S
  <2> SUFFICES ASSUME NEW call \in D, \A y \in D : size[y] < size[call] => y \in S PROVE call \in S
    OBVIOUS
  <2>1. \A part \in Parts(call) : part \in D /\ size[part] < size[call]
    BY PartsAreLess
  <2>2. \A part \in Parts(call) : MadeFieldType[part] \in Formed /\ SelfContained(MadeFieldType[part])
    BY <2>1, MadeDefined
  <2>3. SelfContained(MadeStep(MadeFieldType, call))
    BY <2>2, StepMakes
  <2> QED
    BY <2>3, MadeDefined
<1>3. \A call \in D : call \in S
  <2> HIDE DEF D, S, size
  <2> QED
    BY <1>1, <1>2, SizeInduction
<1> QED
  BY <1>3

\* The object types of a document of the collection are a closed schema.
LEMMA DocumentTypes ==
    ASSUME NEW doc \in Documents, NEW allNullable \in BOOLEAN
    PROVE  /\ MakeObjectType(doc, allNullable) \in Schemas
           /\ CollectionTypeName \in DOMAIN MakeObjectType(doc, allNullable)
           /\ Closed(MakeObjectType(doc, allNullable))
<1> DEFINE made == [i \in DOMAIN doc |-> MadeFieldType[FieldCall(CollectionTypeName, doc, i, allNullable)]]
           v == <<"document", doc>>
<1>1. v \in Value /\ v[1] = "document" /\ v[2] = doc
  BY DocumentsAssumption
<1>2. doc \in DocumentsOver(Value) /\ \A i \in DOMAIN doc : doc[i].value \in Value
  <2> HIDE DEF v
  <2> QED
    BY <1>1, ValueShapes
<1>3. ASSUME NEW i \in DOMAIN doc PROVE FieldCall(CollectionTypeName, doc, i, allNullable) \in Calls
  <2>1. doc[i].name \in Seq(STRING)
    BY <1>2, DocumentParts DEF Names
  <2>2. CollectionTypeName \o doc[i].name \in Seq(STRING)
    BY <2>1, NameAssumption
  <2> QED
    BY <1>2, <2>2 DEF FieldCall, Calls
<1>4. made \in [DOMAIN doc -> Formed] /\ \A i \in DOMAIN doc : SelfContained(made[i])
  BY <1>3, MadeDefined, MadeSelfContained
<1>5. CollectionTypeName \in Names
  BY NameAssumption DEF Names
<1>6. MakeObjectType(doc, allNullable) = FieldsMade(made, CollectionTypeName, doc, TRUE, allNullable)
  BY ObjectTypeMade DEF MakeObjectType
<1> DEFINE m == FieldsMade(made, CollectionTypeName, doc, TRUE, allNullable)
<1>7. m \in Schemas /\ CollectionTypeName \in DOMAIN m
  <2> HIDE DEF made
  <2> QED
    BY <1>2, <1>4, <1>5, ObjectTypesMade
<1>8. Closed(m)
  <2> HIDE DEF made
  <2> QED
    BY <1>2, <1>4, <1>5, ObjectTypesMade
<1> HIDE DEF m
<1> QED
  BY <1>6, <1>7, <1>8 DEF m

------------------------------------------------------------------------------
\* The loop over the sample.

\* What is collected, unless the cursor failed, is the least schema that includes what is
\* made of each document read; and it defines what it refers to.
CollectedIsLeast ==
    /\ allSchemaNullable \in BOOLEAN
    /\ sample \in Seq(Documents)
    /\ collectedTypes \in Schemas /\ Closed(collectedTypes)
    /\ result = "error" => collectedTypes = <<>>
    /\ result # "error" =>
        IsLeast(collectedTypes, {MakeObjectType(doc, allSchemaNullable) : doc \in Sampled})

LEMMA InitCollects == Init => CollectedIsLeast
<1> SUFFICES ASSUME Init PROVE CollectedIsLeast
  OBVIOUS
<1>1. sample = <<>> /\ collectedTypes = <<>> /\ allSchemaNullable \in BOOLEAN
  BY DEF Init
<1>2. sample \in Seq(Documents) /\ Sampled = {}
  BY <1>1 DEF Sampled
<1>3. {MakeObjectType(doc, allSchemaNullable) : doc \in Sampled} = {}
  BY <1>2
<1>4. IsLeast(collectedTypes, {MakeObjectType(doc, allSchemaNullable) : doc \in Sampled})
  BY <1>1, <1>3, LeastGrows
<1>5. collectedTypes \in Schemas /\ Closed(collectedTypes)
  BY <1>1, SchemaFormed DEF Closed
<1> QED
  BY <1>1, <1>2, <1>4, <1>5 DEF CollectedIsLeast

\* One more document
LEMMA DocumentCollects ==
    ASSUME NEW doc \in Documents, CollectedIsLeast, NextDocument(doc)
    PROVE  CollectedIsLeast'
<1> DEFINE all == allSchemaNullable
           m == MakeObjectType(doc, all)
           Made(d) == MakeObjectType(d, all)
<1>1. /\ all \in BOOLEAN /\ allSchemaNullable' = all /\ sample \in Seq(Documents)
      /\ collectedTypes \in Schemas /\ Closed(collectedTypes)
      /\ IsLeast(collectedTypes, {Made(d) : d \in Sampled})
  BY DEF CollectedIsLeast, NextDocument
<1>2. m \in Schemas /\ Closed(m)
  BY <1>1, DocumentTypes
<1>3. collectedTypes' = UnifyObjectTypes(collectedTypes, m)
  <2>1. collectedTypes' = IF collectedTypes = <<>> THEN m ELSE UnifyObjectTypes(collectedTypes, m)
    BY DEF NextDocument
  <2> QED
    BY <1>2, <2>1, SchemasUnify
<1>4. sample' = Append(sample, doc)
  BY DEF NextDocument
<1>5. sample' \in Seq(Documents) /\ Sampled' = Sampled \cup {doc}
  <2>1. /\ sample' \in Seq(Documents) /\ DOMAIN sample = 1..Len(sample) /\ Len(sample) \in Nat
        /\ DOMAIN sample' = 1..(Len(sample) + 1)
        /\ sample'[Len(sample) + 1] = doc /\ \A i \in 1..Len(sample) : sample'[i] = sample[i]
    BY <1>1, <1>4
  <2>2. 1..(Len(sample) + 1) = 1..Len(sample) \cup {Len(sample) + 1}
    BY <2>1
  <2> QED
    BY <2>1, <2>2 DEF Sampled
<1> HIDE DEF Made, m
<1>6. {Made(d) : d \in Sampled'} = {Made(d) : d \in Sampled} \cup {m}
  BY <1>5 DEF Made, m
<1>7. IsLeast(collectedTypes', {Made(d) : d \in Sampled'})
  BY <1>1, <1>2, <1>3, <1>6, LeastGrows
<1>8. Closed(collectedTypes') /\ collectedTypes' \in Schemas
  BY <1>1, <1>2, <1>3, ClosedUnify, SchemasUnify
<1>9. {Made(d) : d \in Sampled'} = {MakeObjectType(d, allSchemaNullable') : d \in Sampled'}
  BY <1>1 DEF Made
<1>10. result' # "error"
  BY DEF NextDocument
<1> QED
  BY <1>1, <1>5, <1>7, <1>8, <1>9, <1>10 DEF CollectedIsLeast, IsLeast, Includes, Closed

LEMMA NextCollects == CollectedIsLeast /\ [Next]_vars => CollectedIsLeast'
<1> SUFFICES ASSUME CollectedIsLeast, [Next]_vars PROVE CollectedIsLeast'
  OBVIOUS
<1>1. CASE \E doc \in Documents : NextDocument(doc)
  BY <1>1, DocumentCollects
<1>2. CASE CursorFails
  BY <1>2, SchemaFormed DEF CursorFails, CollectedIsLeast, Closed
<1>3. CASE CursorEnds
  <2>1. UNCHANGED <<allSchemaNullable, collectedTypes, sample>> /\ result # "error" /\ result' # "error"
    BY <1>3 DEF CursorEnds
  <2> QED
    BY <2>1 DEF CollectedIsLeast, Closed, Sampled, IsLeast, Includes
<1>4. CASE UNCHANGED vars
  BY <1>4 DEF vars, CollectedIsLeast, Closed, Sampled, IsLeast, Includes
<1> QED
  BY <1>1, <1>2, <1>3, <1>4 DEF Next

\* Whatever the documents, as long as the cursor has not failed the loop of
\* sample_schema_from_collection holds the least schema of the documents read.
THEOREM AlwaysLeast == Spec => []CollectedIsLeast
<1> QED
  BY InitCollects, NextCollects, PTL DEF Spec

\* The schema of a collection is that of the documents sampled: whatever the order $sample
\* returned them in, and however often it returned one, unify_object_types leads to the same.
THEOREM AlwaysOrderIndependent == Spec => []OrderIndependent
<1>1. CollectedIsLeast => OrderIndependent
  <2> SUFFICES ASSUME CollectedIsLeast, result \in {"sampling", "schema"},
                      NEW n \in 0..Len(sample), NEW docs \in [1..n -> Sampled], {docs[i] : i \in 1..n} = Sampled
               PROVE  collectedTypes = Collected(docs, allSchemaNullable)
    BY DEF OrderIndependent
  <2> DEFINE all == allSchemaNullable
             Made(d) == MakeObjectType(d, all)
             sets == [i \in 1..n |-> Made(docs[i])]
  <2>1. /\ all \in BOOLEAN /\ sample \in Seq(Documents)
        /\ IsLeast(collectedTypes, {Made(d) : d \in Sampled})
    BY DEF CollectedIsLeast
  <2>2. n \in Nat /\ Sampled \subseteq Documents
    BY <2>1 DEF Sampled
  <2>3. \A d \in Documents : Made(d) \in Schemas
    BY <2>1, DocumentTypes
  <2>4. Collected(docs, all) = CollectTypes(sets)
    BY DEF Collected
  <2> HIDE DEF Made
  <2>5. sets \in Seq(Schemas) /\ Len(sets) = n /\ \A i \in 1..n : sets[i] = Made(docs[i])
    <3>1. \A i \in 1..n : Made(docs[i]) \in Schemas
      BY <2>2, <2>3
    <3> QED
      BY <2>2, <3>1
  <2> HIDE DEF sets
  <2>6. {sets[i] : i \in 1..Len(sets)} = {Made(d) : d \in Sampled}
    BY <2>5
  <2>7. IsLeast(CollectTypes(sets), {Made(d) : d \in Sampled})
    BY <2>5, <2>6, CollectsLeast
  <2> QED
    BY <2>1, <2>4, <2>7, LeastIsUnique
<1> QED
  BY <1>1, AlwaysLeast, PTL

\* What a field of a derived object type refers to is defined, whatever was sampled.
THEOREM AlwaysClosed == Spec => []ReferencesClosed
<1>1. CollectedIsLeast => ReferencesClosed
  BY DEF CollectedIsLeast, Closed, ReferencesClosed
<1> QED
  BY <1>1, AlwaysLeast, PTL

------------------------------------------------------------------------------
\* What values have which types.

NullValue == <<"scalar", "null">>

\* The right-hand side of TypesHeld
HasStep(has, v, t, types) ==
    LET u == IF IsNullable(t) THEN Underlying(t) ELSE t
    IN  \/ t = ExtendedJSON
        \/ IsNullable(t) /\ v = NullValue
        \/ /\ v[1] = "scalar" /\ IsScalar(u)
           /\ CommonSupertypes(v[2], u.base[2]) = {u.base[2]}
        \/ /\ v[1] = "array" /\ IsArray(u)
           /\ \A i \in DOMAIN v[2] : has[<<v[2][i], Underlying(u)>>]
        \/ /\ v[1] = "document" /\ IsNamed(u) /\ u.base[2] \in DOMAIN types
           /\ FieldsHave(has, v[2], types[u.base[2]])

\* The recursive definition defines a predicate.
LEMMA HeldDefined ==
    ASSUME NEW types \in Schemas
    PROVE  \A v \in Value, t \in Type : HasType(v, t, types) = HasStep(TypesHeld(types), v, t, types)
<1> DEFINE D == Value \X Type
           R == BOOLEAN
           size == [p \in D |-> Rank(p[1])]
           step == [g \in [D -> R] |-> [p \in D |-> HasStep(g, p[1], p[2], types)]]
<1>1. size \in [D -> Nat] /\ R # {}
  BY ValueShapes
<1>2. \A g, v, t : HasStep(g, v, t, types) \in R
  BY DEF HasStep
<1>3. step \in [[D -> R] -> [D -> R]]
  <2> HIDE DEF D, R
  <2> QED
    BY <1>2
<1>4. \A g, h \in [D -> R], p \in D :
        (\A q \in D : size[q] < size[p] => g[q] = h[q]) => step[g][p] = step[h][p]
  <2> SUFFICES ASSUME NEW g \in [D -> R], NEW h \in [D -> R], NEW p \in D,
                      \A q \in D : size[q] < size[p] => g[q] = h[q]
               PROVE  step[g][p] = step[h][p]
    OBVIOUS
  <2> DEFINE v == p[1]
             t == p[2]
             d == v[2]
             u == IF IsNullable(t) THEN Underlying(t) ELSE t
  <2>1. v \in Value /\ t \in Type /\ u \in Type /\ (IsArray(u) => Underlying(u) \in Type)
    <3>1. v \in Value /\ t \in Type
      OBVIOUS
    <3>2. u \in Type
      BY <3>1, Unwrapped
    <3> QED
      BY <3>1, <3>2, Unwrapped
  <2>2. ASSUME NEW w \in Value, Rank(w) < Rank(v), NEW x \in Type PROVE g[<<w, x>>] = h[<<w, x>>]
    BY <2>2
  <2> HIDE DEF v, t, u
  <2>3. ASSUME v[1] = "array", IsArray(u)
        PROVE  \A i \in DOMAIN d : g[<<d[i], Underlying(u)>>] = h[<<d[i], Underlying(u)>>]
    <3>1. \A i \in DOMAIN d : d[i] \in Value /\ Rank(d[i]) < Rank(v)
      BY <2>1, <2>3, ValueShapes
    <3> HIDE DEF d
    <3> QED
      BY <2>1, <2>2, <2>3, <3>1
  <2>4. ASSUME v[1] = "document", NEW n \in DOMAIN types PROVE FieldsHave(g, d, types[n]) = FieldsHave(h, d, types[n])
    <3>1. \A i \in DOMAIN d : d[i].value \in Value /\ Rank(d[i].value) < Rank(v)
      BY <2>1, <2>4, ValueShapes
    <3> DEFINE fields == types[n]
    <3>2. \A f \in DOMAIN fields : fields[f] \in Type
      BY SchemaParts DEF Normal
    <3> HIDE DEF d, fields
    <3>3. \A i \in DOMAIN d : d[i].name \in DOMAIN fields =>
                g[<<d[i].value, fields[d[i].name]>>] = h[<<d[i].value, fields[d[i].name]>>]
      BY <2>2, <3>1, <3>2
    <3>4. FieldsHave(g, d, fields) = FieldsHave(h, d, fields)
      BY <3>3 DEF FieldsHave
    <3> QED
      BY <3>4 DEF fields
  <2>5. HasStep(g, v, t, types) = HasStep(h, v, t, types)
    <3>1. \A x : HasStep(x, v, t, types) =
            \/ t = ExtendedJSON
            \/ IsNullable(t) /\ v = NullValue
            \/ /\ v[1] = "scalar" /\ IsScalar(u)
               /\ CommonSupertypes(v[2], u.base[2]) = {u.base[2]}
            \/ /\ v[1] = "array" /\ IsArray(u)
               /\ \A i \in DOMAIN d : x[<<d[i], Underlying(u)>>]
            \/ /\ v[1] = "document" /\ IsNamed(u) /\ u.base[2] \in DOMAIN types
               /\ FieldsHave(x, d, types[u.base[2]])
      BY DEF HasStep, u
    <3> HIDE DEF d
    <3>2. (/\ v[1] = "array" /\ IsArray(u)
           /\ \A i \in DOMAIN d : g[<<d[i], Underlying(u)>>])
          = (/\ v[1] = "array" /\ IsArray(u)
             /\ \A i \in DOMAIN d : h[<<d[i], Underlying(u)>>])
      BY <2>3
    <3>3. (/\ v[1] = "document" /\ IsNamed(u) /\ u.base[2] \in DOMAIN types
           /\ FieldsHave(g, d, types[u.base[2]]))
          = (/\ v[1] = "document" /\ IsNamed(u) /\ u.base[2] \in DOMAIN types
             /\ FieldsHave(h, d, types[u.base[2]]))
      BY <2>4
    <3> QED
      BY <3>1, <3>2, <3>3, Zenon
  <2> QED
    BY <2>5 DEF v, t
<1>5. PICK g \in [D -> R] : step[g] = g
  <2> HIDE DEF D, R, size, step
  <2>1. Contracts(step, size, D, R)
    BY <1>1, <1>3, <1>4 DEF Contracts
  <2> QED
    BY <2>1, Recursion
<1>6. g = [p \in D |-> HasStep(g, p[1], p[2], types)]
  BY <1>5
<1>7. TypesHeld(types) = [p \in D |-> HasStep(TypesHeld(types), p[1], p[2], types)]
  <2>1. \E has : has = [p \in D |-> HasStep(has, p[1], p[2], types)]
    BY <1>6
  <2>2. TypesHeld(types) = CHOOSE has : has = [p \in D |-> HasStep(has, p[1], p[2], types)]
    BY DEF TypesHeld, HasStep, NullValue
  <2> QED
    BY <2>1, <2>2
<1> QED
  BY <1>7 DEF HasType

\* Which values have which types, by the shape of the type: null has those that admit null,
\* any other value a nullable type if it has what that wraps.
LEMMA HasShapes ==
    ASSUME NEW types \in Schemas, NEW v \in Value, NEW t \in Normal
    PROVE  /\ HasType(v, ExtendedJSON, types)
           /\ v = NullValue => (HasType(v, t, types) <=> AdmitsNull(t))
           /\ v # NullValue /\ IsNullable(t) => (HasType(v, t, types) <=> HasType(v, Underlying(t), types))
           /\ HasType(v, t, types) => HasType(v, MakeNullable(t), types)
           /\ t # ExtendedJSON /\ ~IsNullable(t) =>
                (HasType(v, t, types) <=>
                    \/ v[1] = "scalar" /\ IsScalar(t) /\ CommonSupertypes(v[2], t.base[2]) = {t.base[2]}
                    \/ v[1] = "array" /\ IsArray(t) /\ \A i \in DOMAIN v[2] : HasType(v[2][i], Underlying(t), types)
                    \/ /\ v[1] = "document" /\ IsNamed(t) /\ t.base[2] \in DOMAIN types
                       /\ HasFields(v[2], types[t.base[2]], types))
<1>1. \A x \in Type : HasType(v, x, types) = HasStep(TypesHeld(types), v, x, types)
  BY HeldDefined
<1>2. t \in Type /\ ExtendedJSON \in Type /\ NullType \in Type /\ Undefined \in Type
  BY Unwrappable DEF Normal
<1>3. HasType(v, ExtendedJSON, types)
  BY <1>1, <1>2 DEF HasStep
<1>4. ASSUME NEW x \in Type, x # ExtendedJSON, ~IsNullable(x)
      PROVE  HasType(v, x, types) <=>
                \/ v[1] = "scalar" /\ IsScalar(x) /\ CommonSupertypes(v[2], x.base[2]) = {x.base[2]}
                \/ v[1] = "array" /\ IsArray(x) /\ \A i \in DOMAIN v[2] : HasType(v[2][i], Underlying(x), types)
                \/ /\ v[1] = "document" /\ IsNamed(x) /\ x.base[2] \in DOMAIN types
                   /\ HasFields(v[2], types[x.base[2]], types)
  BY <1>1, <1>4 DEF HasStep, HasType, HasFields
<1>5. ASSUME IsNullable(t)
      PROVE  /\ Underlying(t) \in Normal /\ ~AdmitsNull(Underlying(t)) /\ AdmitsNull(t)
             /\ v = NullValue => HasType(v, t, types)
             /\ v # NullValue => (HasType(v, t, types) <=> HasType(v, Underlying(t), types))
  <2>1. Underlying(t) \in Normal /\ ~AdmitsNull(Underlying(t)) /\ AdmitsNull(t)
    BY <1>5, NormalParts DEF AdmitsNull
  <2>2. Underlying(t) \in Type /\ ~IsNullable(Underlying(t)) /\ Underlying(t) # ExtendedJSON /\ t # ExtendedJSON
    BY <1>5, <2>1, Unwrappable DEF Normal, AdmitsNull
  <2>3. HasType(v, t, types) <=> v = NullValue \/ HasStep(TypesHeld(types), v, Underlying(t), types)
    BY <1>1, <1>2, <1>5, <2>2 DEF HasStep
  <2> QED
    BY <1>1, <2>1, <2>2, <2>3
<1>6. ASSUME v = NullValue, ~IsNullable(t) PROVE HasType(v, t, types) <=> AdmitsNull(t)
  <2>1. CASE t = ExtendedJSON
    BY <1>3, <2>1 DEF AdmitsNull
  <2>2. CASE t # ExtendedJSON
    <3>1. HasType(v, t, types) <=> IsScalar(t) /\ CommonSupertypes("null", t.base[2]) = {t.base[2]}
      BY <1>2, <1>4, <1>6, <2>2 DEF NullValue
    <3>2. IsScalar(t) => t = Scalar(t.base[2])
      BY <1>2, Unwrappable
    <3>3. CommonSupertypes("null", t.base[2]) = {t.base[2]} <=> t.base[2] = "null"
      BY DEF CommonSupertypes, Binary
    <3>4. IsScalar(NullType) /\ NullType.base[2] = "null" /\ NullType = Scalar("null")
      BY Unwrappable DEF NullType
    <3>5. AdmitsNull(t) <=> t = NullType
      BY <1>6, <2>2 DEF AdmitsNull
    <3> QED
      BY <3>1, <3>2, <3>3, <3>4, <3>5
  <2> QED
    BY <2>1, <2>2
<1>7. v = NullValue => (HasType(v, t, types) <=> AdmitsNull(t))
  BY <1>5, <1>6
<1>8. HasType(v, t, types) => HasType(v, MakeNullable(t), types)
  <2>1. CASE AdmitsNull(t)
    BY <1>2, <2>1, MakesNullable
  <2>2. CASE ~AdmitsNull(t)
    <3> DEFINE n == MakeNullable(t)
    <3>1. n \in Type /\ n = Nullable(t) /\ IsNullable(n) /\ Underlying(n) = t /\ ~IsNullable(t) /\ t # ExtendedJSON
      BY <1>2, <2>2, MakesNullable, Wrapped DEF AdmitsNull
    <3> HIDE DEF n
    <3>2. HasStep(TypesHeld(types), v, t, types) => HasStep(TypesHeld(types), v, n, types)
      BY <3>1 DEF HasStep
    <3>3. HasType(v, t, types) => HasType(v, n, types)
      BY <1>1, <1>2, <3>1, <3>2
    <3> QED
      BY <3>3 DEF n
  <2> QED
    BY <2>1, <2>2
<1> QED
  BY <1>2, <1>3, <1>4, <1>5, <1>7, <1>8

\* A type that admits null still does after another one is unified with it.
LEMMA NullStays ==
    ASSUME NEW a \in Normal, NEW b \in Normal, AdmitsNull(a)
    PROVE  AdmitsNull(UnifyType(a, b))
<1>1. a \in Type /\ b \in Type /\ MakeNullable(a) = a
  BY MakesNullable DEF Normal
<1>2. UnifyType(a, b) = MakeNullable(UnifyType(a, b)) /\ UnifyType(a, b) \in Type
  BY <1>1, NormalLifts, UnifyShapes DEF Normal
<1> QED
  BY <1>2, MakesNullable

\* A value that has a type, in the definitions of one schema, has it in those of another one,
\* and still does after any other type is unified with it.
Lifts(v, types, more) ==
    \A a, b \in Normal : HasType(v, a, types) => HasType(v, UnifyType(a, b), more)

\* So do then the fields of a document.
LEMMA FieldsLift ==
    ASSUME NEW types \in Schemas, NEW more \in Schemas, Includes(more, types),
           NEW doc \in DocumentsOver(Value), \A i \in DOMAIN doc : Lifts(doc[i].value, types, more),
           NEW n \in DOMAIN types, HasFields(doc, types[n], types)
    PROVE  n \in DOMAIN more /\ HasFields(doc, more[n], more)
<1> DEFINE x == types[n]
           y == more[n]
<1>1. n \in DOMAIN more /\ y = UnifyObjectType(x, y)
  <2>1. IsObjectTypes(types) /\ IsObjectTypes(more)
    BY SchemaParts
  <2>2. /\ n \in DOMAIN UnifyObjectTypes(types, more)
        /\ n \in DOMAIN more => UnifyObjectTypes(types, more)[n] = UnifyObjectType(x, y)
    BY <2>1, UnifiedTypes
  <2>3. UnifyObjectTypes(types, more) = more
    BY DEF Includes
  <2> QED
    BY <2>2, <2>3
<1>2. /\ IsObjectType(x) /\ \A f \in DOMAIN x : x[f] \in Normal
      /\ IsObjectType(y) /\ \A f \in DOMAIN y : y[f] \in Normal
  BY <1>1, SchemaParts DEF IsObjectTypes
<1> HIDE DEF x, y
<1>3. /\ \A f : f \in DOMAIN y <=> f \in DOMAIN x \/ f \in DOMAIN y
      /\ \A f \in DOMAIN y : f \notin DOMAIN x => y[f] = MakeNullable(y[f])
      /\ \A f \in DOMAIN x : f \in DOMAIN y => y[f] = UnifyType(x[f], y[f])
  BY <1>1, <1>2, UnifiedFields
<1>4. /\ \A i \in DOMAIN doc : doc[i].name \in DOMAIN x /\ HasType(doc[i].value, x[doc[i].name], types)
      /\ \A f \in DOMAIN x : (\A i \in DOMAIN doc : doc[i].name # f) => AdmitsNull(x[f])
  BY DEF HasFields, FieldsHave, HasType, x
<1>5. ASSUME NEW i \in DOMAIN doc
      PROVE  doc[i].name \in DOMAIN y /\ HasType(doc[i].value, y[doc[i].name], more)
  <2> DEFINE f == doc[i].name
  <2>1. f \in DOMAIN x /\ f \in DOMAIN y /\ y[f] = UnifyType(x[f], y[f])
    BY <1>3, <1>4
  <2>2. HasType(doc[i].value, UnifyType(x[f], y[f]), more)
    BY <1>2, <1>4, <2>1 DEF Lifts
  <2> QED
    BY <2>1, <2>2
<1>6. ASSUME NEW f \in DOMAIN y, \A i \in DOMAIN doc : doc[i].name # f PROVE AdmitsNull(y[f])
  <2>1. CASE f \in DOMAIN x
    <3>1. AdmitsNull(x[f]) /\ y[f] = UnifyType(x[f], y[f])
      BY <1>3, <1>4, <1>6, <2>1
    <3>2. AdmitsNull(UnifyType(x[f], y[f]))
      BY <1>2, <2>1, <3>1, NullStays
    <3> QED
      BY <3>1, <3>2
  <2>2. CASE f \notin DOMAIN x
    <3>1. y[f] = MakeNullable(y[f]) /\ y[f] \in Type
      BY <1>2, <1>3, <2>2 DEF Normal
    <3>2. AdmitsNull(MakeNullable(y[f]))
      BY <3>1, MakesNullable
    <3> QED
      BY <3>1, <3>2
  <2> QED
    BY <2>1, <2>2
<1>7. HasFields(doc, y, more)
  BY <1>5, <1>6 DEF HasFields, FieldsHave, HasType
<1> QED
  BY <1>1, <1>7 DEF y

\* It is so for whatever a schema can describe, if the other schema includes the one.
LEMMA ValuesLift ==
    ASSUME NEW types \in Schemas, NEW more \in Schemas, Includes(more, types),
           NEW S \in SUBSET Value, Describable(S)
    PROVE  \A v \in S : Lifts(v, types, more)
<1> DEFINE size == [v \in S |-> Rank(v)]
           T == {v \in S : Lifts(v, types, more)}
<1>1. size \in [S -> Nat]
  BY ValueShapes
<1>2. ASSUME NEW v \in S, \A w \in S : Rank(w) < Rank(v) => Lifts(w, types, more)
      PROVE  Lifts(v, types, more)
  <2> DEFINE d == v[2]
  <2>1. v \in Value
    OBVIOUS
  <2>2. v[1] = "array" => \A i \in DOMAIN d : d[i] \in Value /\ Lifts(d[i], types, more)
    <3> SUFFICES ASSUME v[1] = "array", NEW i \in DOMAIN d PROVE d[i] \in Value /\ Lifts(d[i], types, more)
      OBVIOUS
    <3>1. d[i] \in Value /\ Rank(d[i]) < Rank(v)
      BY ValueShapes
    <3>2. d[i] \in S
      BY DEF Describable
    <3> QED
      BY <1>2, <3>1, <3>2
  <2>3. v[1] = "document" =>
            d \in DocumentsOver(Value) /\ \A i \in DOMAIN d : Lifts(d[i].value, types, more)
    <3> SUFFICES ASSUME v[1] = "document"
                 PROVE  d \in DocumentsOver(Value) /\ \A i \in DOMAIN d : Lifts(d[i].value, types, more)
      OBVIOUS
    <3>1. d \in DocumentsOver(Value) /\ \A i \in DOMAIN d : Rank(d[i].value) < Rank(v)
      BY ValueShapes
    <3>2. \A i \in DOMAIN d : d[i].value \in S
      BY DEF Describable
    <3> QED
      BY <1>2, <3>1, <3>2
  \* another schema, the same type
  <2>4. ASSUME NEW a \in Normal, HasType(v, a, types) PROVE HasType(v, a, more)
    <3>1. ASSUME NEW u \in Normal, ~IsNullable(u), HasType(v, u, types) PROVE HasType(v, u, more)
      <4>1. CASE u = ExtendedJSON
        BY <4>1, HasShapes
      <4>2. CASE u # ExtendedJSON
        <5> DEFINE Held(ts) ==
                \/ v[1] = "scalar" /\ IsScalar(u) /\ CommonSupertypes(v[2], u.base[2]) = {u.base[2]}
                \/ v[1] = "array" /\ IsArray(u) /\ \A i \in DOMAIN d : HasType(d[i], Underlying(u), ts)
                \/ /\ v[1] = "document" /\ IsNamed(u) /\ u.base[2] \in DOMAIN ts
                   /\ HasFields(d, ts[u.base[2]], ts)
        <5>1. Held(types) /\ (Held(more) => HasType(v, u, more))
          BY <3>1, <4>2, HasShapes
        <5>2. CASE v[1] = "scalar" /\ IsScalar(u)
          BY <5>1, <5>2
        <5>3. CASE v[1] = "array" /\ IsArray(u) /\ \A i \in DOMAIN d : HasType(d[i], Underlying(u), types)
          <6>1. Underlying(u) \in Normal /\ UnifyType(Underlying(u), Underlying(u)) = Underlying(u)
            <7>1. Underlying(u) \in Normal
              BY <5>3, NormalParts
            <7> QED
              BY <7>1, UnifyIsIdempotent DEF Normal
          <6> HIDE DEF d
          <6>2. \A i \in DOMAIN d : HasType(d[i], Underlying(u), more)
            BY <2>2, <5>3, <6>1 DEF Lifts
          <6> QED
            BY <5>1, <5>3, <6>2
        <5>4. CASE /\ v[1] = "document" /\ IsNamed(u) /\ u.base[2] \in DOMAIN types
                   /\ HasFields(d, types[u.base[2]], types)
          <6> DEFINE n == u.base[2]
          <6> HIDE DEF d, n
          <6>1. n \in DOMAIN more /\ HasFields(d, more[n], more)
            BY <2>3, <5>4, FieldsLift DEF n
          <6> QED
            BY <5>1, <5>4, <6>1 DEF n
        <5> QED
          BY <5>1, <5>2, <5>3, <5>4
      <4> QED
        BY <4>1, <4>2
    <3>2. CASE IsNullable(a) /\ v = NullValue
      BY <3>2, HasShapes DEF AdmitsNull
    <3>3. CASE IsNullable(a) /\ v # NullValue
      <4>1. Underlying(a) \in Normal /\ ~IsNullable(Underlying(a))
        BY <3>3, NormalParts DEF AdmitsNull
      <4>2. HasType(v, Underlying(a), types)
        BY <2>4, <3>3, HasShapes
      <4>3. HasType(v, Underlying(a), more)
        BY <3>1, <4>1, <4>2
      <4> QED
        BY <3>3, <4>3, HasShapes
    <3> QED
      BY <2>4, <3>1, <3>2, <3>3
  <2> DEFINE Kept(a, b) == HasType(v, a, types) => HasType(v, UnifyType(a, b), more)
  <2>5. ASSUME NEW a \in Normal, NEW b \in Normal, HasType(v, a, types),
               \A x, y \in Normal : Depth(x) + Depth(y) < Depth(a) + Depth(b) => Kept(x, y)
        PROVE  HasType(v, UnifyType(a, b), more)
    <3> DEFINE r == UnifyType(a, b)
    <3>1. /\ a \in Type /\ b \in Type /\ NormalizeType(a) = a /\ NormalizeType(b) = b
          /\ r \in Normal /\ Depth(a) \in Nat /\ Depth(b) \in Nat
      BY UnifyShapes, Unwrapped DEF Normal
    <3>2. \A x \in Normal : HasType(v, x, more) => HasType(v, MakeNullable(x), more)
      BY HasShapes
    <3>3. \A x, y \in Normal : UnifyType(x, y) \in Normal
      BY UnifyShapes DEF Normal
    <3>4. ASSUME IsScalar(a), NEW s, a.base[2] = s
          PROVE  v[1] = "scalar" /\ CommonSupertypes(v[2], s) = {s} /\ v = <<"scalar", v[2]>>
      <4>1. a # ExtendedJSON /\ ~IsNullable(a) /\ ~IsArray(a) /\ ~IsNamed(a)
        BY <3>1, <3>4, Unwrappable, Unwrapped
      <4>2. v[1] = "scalar" /\ CommonSupertypes(v[2], s) = {s}
        BY <2>5, <3>4, <4>1, HasShapes
      <4> QED
        BY <4>2, ValueShapes
    <3>5. CASE ExtendedJSON \in {a, b}
      BY <3>1, <3>5, UnifyShapes, HasShapes
    <3>6. CASE a = Undefined
      <4>1. CommonSupertypes(v[2], "undefined") = {"undefined"} /\ v = <<"scalar", v[2]>>
        BY <3>4, <3>6, Unwrappable
      <4>2. v[2] = "undefined"
        BY <4>1 DEF CommonSupertypes, Binary
      <4> QED
        BY <4>1, <4>2 DEF Describable
    <3>7. CASE b = Undefined
      BY <2>4, <2>5, <3>1, <3>7, UnifyShapes
    <3>8. CASE ExtendedJSON \notin {a, b} /\ a # Undefined /\ b # Undefined /\ IsNullable(a)
      <4> DEFINE u == Underlying(a)
      <4>1. u \in Normal /\ Depth(u) < Depth(a) /\ Depth(u) \in Nat
        BY <3>1, <3>8, NormalParts, Unwrapped
      <4>2. r = MakeNullable(UnifyType(u, b)) /\ UnifyType(u, b) \in Normal
        BY <3>1, <3>3, <3>8, <4>1, UnifyShapes
      <4>3. CASE v = NullValue
        <5>1. AdmitsNull(r)
          BY <4>2, MakesNullable DEF Normal
        <5> QED
          BY <3>1, <4>3, <5>1, HasShapes
      <4>4. CASE v # NullValue
        <5>1. HasType(v, u, types)
          BY <2>5, <3>8, <4>4, HasShapes
        <5> HIDE DEF u, r
        <5>2. Depth(u) + Depth(b) < Depth(a) + Depth(b)
          BY <3>1, <4>1
        <5>3. HasType(v, UnifyType(u, b), more)
          BY <2>5, <4>1, <5>1, <5>2
        <5>4. HasType(v, r, more)
          BY <3>2, <4>2, <5>3
        <5> QED
          BY <5>4 DEF r
      <4> QED
        BY <4>3, <4>4
    <3>9. CASE ExtendedJSON \notin {a, b} /\ a # Undefined /\ b # Undefined /\ ~IsNullable(a) /\ IsNullable(b)
      <4> DEFINE u == Underlying(b)
      <4>1. u \in Normal /\ Depth(u) < Depth(b) /\ Depth(u) \in Nat
        BY <3>1, <3>9, NormalParts, Unwrapped
      <4>2. r = MakeNullable(UnifyType(a, u)) /\ UnifyType(a, u) \in Normal
        BY <3>1, <3>3, <3>9, <4>1, UnifyShapes
      <4> HIDE DEF u, r
      <4>3. Depth(a) + Depth(u) < Depth(a) + Depth(b)
        BY <3>1, <4>1
      <4>4. HasType(v, UnifyType(a, u), more)
        BY <2>5, <4>1, <4>3
      <4>5. HasType(v, r, more)
        BY <3>2, <4>2, <4>4
      <4> QED
        BY <4>5 DEF r
    <3>10. CASE /\ ExtendedJSON \notin {a, b} /\ a # Undefined /\ b # Undefined
                /\ ~IsNullable(a) /\ ~IsNullable(b) /\ a = NullType
      <4>1. r = MakeNullable(b) /\ AdmitsNull(r)
        BY <3>1, <3>10, UnifyShapes, MakesNullable
      <4>2. CommonSupertypes(v[2], "null") = {"null"} /\ v = <<"scalar", v[2]>>
        BY <3>4, <3>10, Unwrappable
      <4>3. v = NullValue
        BY <4>2 DEF NullValue, CommonSupertypes, Binary
      <4> QED
        BY <3>1, <4>1, <4>3, HasShapes
    <3>11. CASE /\ ExtendedJSON \notin {a, b} /\ a # Undefined /\ b # Undefined
                /\ ~IsNullable(a) /\ ~IsNullable(b) /\ b = NullType
      <4>1. r = MakeNullable(a)
        BY <3>1, <3>11, UnifyShapes
      <4>2. HasType(v, a, more)
        BY <2>4, <2>5
      <4> QED
        BY <3>2, <4>1, <4>2
    <3>12. CASE Solid(a) /\ Solid(b)
      <4>1. r = IF IsScalar(a) /\ IsScalar(b) THEN UnifyScalars(a, b)
                ELSE IF IsNamed(a) /\ a = b THEN a
                ELSE IF IsArray(a) /\ IsArray(b)
                     THEN ArrayOf(UnifyType(Underlying(a), Underlying(b)))
                ELSE ExtendedJSON
        BY <3>1, <3>12, UnifyShapes
      <4>2. CASE r = a
        BY <2>4, <2>5, <4>2
      <4>3. CASE r = ExtendedJSON
        BY <4>3, HasShapes
      <4>4. CASE IsScalar(a) /\ IsScalar(b) /\ r # a /\ r # ExtendedJSON
        <5> DEFINE p == a.base[2]
                   q == b.base[2]
                   s == r.base[2]
        <5>1. \/ {p, q} \subseteq Binary /\ r = Scalar("binData")
              \/ {p, q} = {"double", "int"} /\ r = Scalar("double")
          BY <3>1, <4>1, <4>4, ScalarsUnify
        <5>2. v[1] = "scalar" /\ CommonSupertypes(v[2], p) = {p}
          BY <3>4, <4>4
        <5>3. IsScalar(r) /\ s \in {"binData", "double"} /\ ~IsNullable(r) /\ r # ExtendedJSON
          BY <4>4, <5>1 DEF Scalar, IsScalar, IsNullable
        <5>4. CommonSupertypes(v[2], s) = {s}
          <6>1. CASE {p, q} \subseteq Binary /\ s = "binData"
            BY <5>2, <6>1 DEF CommonSupertypes, Binary
          <6>2. CASE {p, q} = {"double", "int"} /\ s = "double"
            <7>1. p \in {"double", "int"}
              BY <6>2
            <7> QED
              BY <5>2, <6>2, <7>1 DEF CommonSupertypes, Binary
          <6>3. Scalar("binData").base[2] = "binData" /\ Scalar("double").base[2] = "double"
            BY DEF Scalar
          <6> HIDE DEF r, p, q
          <6>4. \/ {p, q} \subseteq Binary /\ s = "binData"
                \/ {p, q} = {"double", "int"} /\ s = "double"
            BY <5>1, <6>3
          <6> HIDE DEF s
          <6> QED
            BY <6>1, <6>2, <6>4
        <5> QED
          BY <3>1, <5>2, <5>3, <5>4, HasShapes
      <4>5. CASE ~(IsScalar(a) /\ IsScalar(b)) /\ IsArray(a) /\ IsArray(b) /\ r # a
        <5> DEFINE x == Underlying(a)
                   y == Underlying(b)
        <5>1. x \in Normal /\ y \in Normal
          BY <4>5, NormalParts
        <5>2. ~IsNamed(a) /\ ~IsScalar(a) /\ a # ExtendedJSON /\ ~IsNullable(a)
          BY <3>1, <4>5, Unwrapped, Unwrappable
        <5>3. r = ArrayOf(UnifyType(x, y))
          BY <4>1, <4>5, <5>2
        <5>4. v[1] = "array" /\ \A i \in DOMAIN d : HasType(d[i], x, types)
          BY <2>5, <5>2, HasShapes
        <5>5. IsArray(r) /\ Underlying(r) = UnifyType(x, y) /\ ~IsNullable(r) /\ r # ExtendedJSON
          <6>1. UnifyType(x, y) \in Type
            BY <3>3, <5>1 DEF Normal
          <6> QED
            BY <5>3, <6>1, Wrapped, Unwrappable
        <5>6. \A i \in DOMAIN d : HasType(d[i], UnifyType(x, y), more)
          <6> HIDE DEF d, x, y
          <6> QED
            BY <2>2, <5>1, <5>4 DEF Lifts
        <5> QED
          BY <3>1, <5>4, <5>5, <5>6, HasShapes
      <4> QED
        BY <4>1, <4>2, <4>3, <4>4, <4>5
    <3> QED
      BY <3>5, <3>6, <3>7, <3>8, <3>9, <3>10, <3>11, <3>12 DEF Solid, AdmitsNull
  <2> DEFINE P == {p \in Type \X Type : p[1] \in Normal /\ p[2] \in Normal => Kept(p[1], p[2])}
  <2>6. ASSUME NEW a \in Type, NEW b \in Type,
               \A x, y \in Type : Depth(x) + Depth(y) < Depth(a) + Depth(b) => <<x, y>> \in P
        PROVE  <<a, b>> \in P
    <3>1. \A x, y \in Normal : Depth(x) + Depth(y) < Depth(a) + Depth(b) => Kept(x, y)
      <4> HIDE DEF Kept
      <4> QED
        BY <2>6 DEF Normal
    <3>2. a \in Normal /\ b \in Normal => Kept(a, b)
      BY <2>5, <3>1
    <3> HIDE DEF Kept
    <3> QED
      BY <3>2
  <2>7. \A a, b \in Type : <<a, b>> \in P
    <3> HIDE DEF P
    <3> QED
      BY <2>6, PairInduction
  <2>8. \A a, b \in Normal : Kept(a, b)
    <3> HIDE DEF Kept
    <3> QED
      BY <2>7 DEF Normal
  <2> QED
    BY <2>8 DEF Lifts
<1>3. \A v \in S : (\A w \in S : size[w] < size[v] => w \in T) => v \in T
  BY <1>2
<1>4. \A v \in S : v \in T
  <2> HIDE DEF size, T
  <2> QED
    BY <1>1, <1>3, SizeInduction
<1> QED
  BY <1>4

------------------------------------------------------------------------------
\* What is made of a value describes it.

\* The names of the object types that are made for a value begin with the name it was given,
\* and the value has the type that was made of it.
Described(m, name, v) == (\A n \in DOMAIN m.defs : Extends(n, name)) /\ HasType(v, m.type, m.defs)

LEMMA Extended ==
    /\ \A p \in Names : Extends(p, p)
    /\ \A p, q, n \in Names : Extends(n, p \o q) => Extends(n, p) /\ (q # <<>> => n # p)
    /\ \A p, q, r, n \in Names : Extends(n, p \o q) /\ Extends(n, p \o r) => Extends(q, r) \/ Extends(r, q)
<1>1. ASSUME NEW p \in Names PROVE Extends(p, p)
  BY DEF Names, Extends
<1>2. ASSUME NEW p \in Names, NEW q \in Names
      PROVE  /\ Len(p) \in Nat /\ Len(q) \in Nat /\ Len(p \o q) = Len(p) + Len(q) /\ (q # <<>> => Len(q) > 0)
             /\ DOMAIN p = 1..Len(p) /\ DOMAIN q = 1..Len(q) /\ DOMAIN (p \o q) = 1..(Len(p) + Len(q))
             /\ \A k \in 1..Len(p) : (p \o q)[k] = p[k]
             /\ \A k \in 1..Len(q) : (p \o q)[Len(p) + k] = q[k]
  BY DEF Names
<1>3. ASSUME NEW p \in Names, NEW q \in Names, NEW n \in Names, Extends(n, p \o q)
      PROVE  Extends(n, p) /\ (q # <<>> => n # p)
  <2> DEFINE pq == p \o q
  <2>1. /\ Len(pq) = Len(p) + Len(q) /\ Len(p) \in Nat /\ Len(q) \in Nat /\ (q # <<>> => Len(q) > 0)
        /\ DOMAIN p = 1..Len(p) /\ DOMAIN pq = 1..(Len(p) + Len(q))
        /\ \A k \in 1..Len(p) : pq[k] = p[k]
    BY <1>2
  <2>2. Extends(n, pq) /\ Len(n) \in Nat
    BY <1>3 DEF Names
  <2> HIDE DEF pq
  <2> QED
    BY <2>1, <2>2 DEF Extends
<1>4. ASSUME NEW p \in Names, NEW q \in Names, NEW r \in Names, NEW n \in Names,
             Extends(n, p \o q), Extends(n, p \o r), Len(q) >= Len(r)
      PROVE  Extends(q, r)
  <2> DEFINE pq == p \o q
             pr == p \o r
  <2>1. /\ Len(p) \in Nat /\ Len(q) \in Nat /\ Len(r) \in Nat
        /\ DOMAIN q = 1..Len(q) /\ DOMAIN r = 1..Len(r)
        /\ DOMAIN pq = 1..(Len(p) + Len(q)) /\ DOMAIN pr = 1..(Len(p) + Len(r))
        /\ \A k \in 1..Len(q) : pq[Len(p) + k] = q[k]
        /\ \A k \in 1..Len(r) : pr[Len(p) + k] = r[k]
    BY <1>2
  <2>2. /\ \A k \in DOMAIN pq : n[k] = pq[k]
        /\ \A k \in DOMAIN pr : n[k] = pr[k]
    BY <1>4 DEF Extends
  <2> HIDE DEF pq, pr
  <2>3. ASSUME NEW k \in 1..Len(r) PROVE q[k] = r[k]
    <3>1. /\ k \in 1..Len(q) /\ Len(p) + k \in 1..(Len(p) + Len(q)) /\ Len(p) + k \in 1..(Len(p) + Len(r))
      BY <1>4, <2>1
    <3>2. n[Len(p) + k] = q[k] /\ n[Len(p) + k] = r[k]
      BY <2>1, <2>2, <3>1
    <3> QED
      BY <3>2
  <2> QED
    BY <1>4, <2>1, <2>3 DEF Extends
<1>5. \A q, r \in Names : Len(q) >= Len(r) \/ Len(r) >= Len(q)
  BY DEF Names
<1> QED
  BY <1>1, <1>3, <1>4, <1>5

\* A document has the fields of the object type that is made for it.
LEMMA DocumentHas ==
    ASSUME NEW S \in SUBSET Value, Describable(S), NEW doc \in DocumentsOver(Value), <<"document", doc>> \in S,
           NEW name \in Names, NEW isCollectionType \in BOOLEAN, NEW allNullable \in BOOLEAN,
           NEW made \in [DOMAIN doc -> Formed],
           \A i \in DOMAIN doc : Described(made[i], name \o doc[i].name, doc[i].value),
           NEW r, r = FieldsMade(made, name, doc, isCollectionType, allNullable)
    PROVE  (\A n \in DOMAIN r : Extends(n, name)) /\ HasFields(doc, r[name], r)
<1>1. /\ r \in Schemas /\ name \in DOMAIN r
      /\ \A n : n \in DOMAIN r <=> n = name \/ \E i \in DOMAIN doc : n \in DOMAIN made[i].defs
      /\ \A n \in DOMAIN r : n # name => \E i \in DOMAIN doc : n \in DOMAIN made[i].defs /\ r[n] = made[i].defs[n]
      /\ \A f : f \in DOMAIN r[name] <=> \E i \in DOMAIN doc : doc[i].name = f
      /\ \A i \in DOMAIN doc : r[name][doc[i].name] \in {made[i].type, MakeNullable(made[i].type)}
  BY ObjectTypesMade
<1>2. /\ \A i \in DOMAIN doc : doc[i].value \in S
      /\ \A i, j \in DOMAIN doc : Extends(doc[i].name, doc[j].name) => i = j
  <2> DEFINE v == <<"document", doc>>
  <2>1. v \in S /\ v[1] = "document" /\ v[2] = doc
    OBVIOUS
  <2> HIDE DEF v
  <2> QED
    BY <2>1 DEF Describable
<1>3. \A i \in DOMAIN doc : /\ doc[i].name \in Names /\ doc[i].name # <<>>
                            /\ made[i].defs \in Schemas /\ made[i].type \in Normal
                            /\ \A n \in DOMAIN made[i].defs : n \in Names /\ Extends(n, name \o doc[i].name)
                            /\ HasType(doc[i].value, made[i].type, made[i].defs)
  <2> SUFFICES ASSUME NEW i \in DOMAIN doc
               PROVE  /\ doc[i].name \in Names /\ doc[i].name # <<>>
                      /\ made[i].defs \in Schemas /\ made[i].type \in Normal
                      /\ \A n \in DOMAIN made[i].defs : n \in Names /\ Extends(n, name \o doc[i].name)
                      /\ HasType(doc[i].value, made[i].type, made[i].defs)
    OBVIOUS
  <2>1. made[i].defs \in Schemas /\ made[i].type \in Normal
    BY DEF Formed
  <2>2. \A n \in DOMAIN made[i].defs : n \in Names
    BY <2>1, SchemaParts
  <2> QED
    BY <2>1, <2>2, DocumentParts DEF Described
<1>4. ASSUME NEW n \in DOMAIN r PROVE Extends(n, name)
  <2>1. CASE n = name
    BY <2>1, Extended
  <2>2. CASE n # name
    <3>1. PICK i \in DOMAIN doc : n \in DOMAIN made[i].defs
      BY <1>1, <2>2
    <3>2. n \in Names /\ doc[i].name \in Names /\ Extends(n, name \o doc[i].name)
      BY <1>3, <3>1
    <3> QED
      BY <3>2, Extended
  <2> QED
    BY <2>1, <2>2
\* a definition made for one field is not overwritten by that of another one
<1>5. ASSUME NEW i \in DOMAIN doc, NEW n \in DOMAIN made[i].defs PROVE n \in DOMAIN r /\ r[n] = made[i].defs[n]
  <2>1. /\ n \in Names /\ doc[i].name \in Names /\ doc[i].name # <<>> /\ Extends(n, name \o doc[i].name)
        /\ n \in DOMAIN r
    BY <1>1, <1>3
  <2>2. n # name
    BY <2>1, Extended
  <2>3. PICK j \in DOMAIN doc : n \in DOMAIN made[j].defs /\ r[n] = made[j].defs[n]
    BY <1>1, <2>1, <2>2
  <2>4. doc[j].name \in Names /\ Extends(n, name \o doc[j].name)
    BY <1>3, <2>3
  <2>5. Extends(doc[i].name, doc[j].name) \/ Extends(doc[j].name, doc[i].name)
    BY <2>1, <2>4, Extended
  <2>6. i = j
    BY <1>2, <2>5
  <2> QED
    BY <2>1, <2>3, <2>6
<1>6. ASSUME NEW i \in DOMAIN doc PROVE Includes(r, made[i].defs)
  <2> DEFINE s == made[i].defs
             u == UnifyObjectTypes(s, r)
  <2>1. s \in Schemas /\ IsObjectTypes(s) /\ IsObjectTypes(r)
    BY <1>1, <1>3, SchemaParts
  <2>2. /\ IsObjectTypes(u)
        /\ \A n : n \in DOMAIN u <=> n \in DOMAIN s \/ n \in DOMAIN r
        /\ \A n \in DOMAIN r : n \notin DOMAIN s => u[n] = r[n]
        /\ \A n \in DOMAIN s : n \in DOMAIN r => u[n] = UnifyObjectType(s[n], r[n])
    BY <2>1, UnifiedTypes
  <2>3. \A n \in DOMAIN r : UnifyObjectType(r[n], r[n]) = r[n]
    <3>1. UnifyObjectTypes(r, r) = r
      BY <1>1, SchemasUnify
    <3>2. \A n \in DOMAIN r : UnifyObjectTypes(r, r)[n] = UnifyObjectType(r[n], r[n])
      BY <2>1, UnifiedTypes
    <3> QED
      BY <3>1, <3>2
  <2>4. u = [n \in DOMAIN u |-> u[n]] /\ r = [n \in DOMAIN r |-> r[n]]
    BY <2>1, <2>2 DEF IsObjectTypes
  <2>5. \A n \in DOMAIN s : n \in DOMAIN r /\ r[n] = s[n]
    BY <1>5
  <2> HIDE DEF u, s
  <2>6. DOMAIN u = DOMAIN r /\ \A n \in DOMAIN u : u[n] = r[n]
    <3>1. \A n : n \in DOMAIN u <=> n \in DOMAIN r
      BY <2>2, <2>5
    <3>2. DOMAIN u = DOMAIN r
      BY <3>1
    <3>3. ASSUME NEW n \in DOMAIN r PROVE u[n] = r[n]
      BY <2>2, <2>3, <2>5
    <3> QED
      BY <3>2, <3>3
  <2>7. u = r
    BY <2>4, <2>6, SameFunction
  <2> QED
    BY <2>7 DEF Includes, u, s
<1>7. ASSUME NEW i \in DOMAIN doc
      PROVE  doc[i].name \in DOMAIN r[name] /\ HasType(doc[i].value, r[name][doc[i].name], r)
  <2> DEFINE t == made[i].type
             v == doc[i].value
  <2>1. t \in Normal /\ v \in S /\ v \in Value /\ HasType(v, t, made[i].defs) /\ made[i].defs \in Schemas
    BY <1>2, <1>3
  <2>2. Lifts(v, made[i].defs, r)
    BY <1>1, <1>6, <2>1, ValuesLift
  <2>3. UnifyType(t, t) = t
    BY <2>1, UnifyIsIdempotent DEF Normal
  <2>4. HasType(v, t, r)
    <3> HIDE DEF t, v
    <3>1. HasType(v, UnifyType(t, t), r)
      BY <2>1, <2>2 DEF Lifts, t
    <3> QED
      BY <2>3, <3>1
  <2>5. HasType(v, MakeNullable(t), r)
    BY <1>1, <2>1, <2>4, HasShapes
  <2>6. r[name][doc[i].name] = t \/ r[name][doc[i].name] = MakeNullable(t)
    BY <1>1
  <2> QED
    BY <1>1, <2>4, <2>5, <2>6
<1>8. HasFields(doc, r[name], r)
  <2>1. \A f \in DOMAIN r[name] : \E i \in DOMAIN doc : doc[i].name = f
    BY <1>1
  <2> QED
    BY <1>7, <2>1 DEF HasFields, FieldsHave, HasType
<1> QED
  BY <1>4, <1>8

\* One step describes a value if what was made of its parts describes them.
LEMMA StepDescribes ==
    ASSUME NEW S \in SUBSET Value, Describable(S), NEW call \in Calls, call[2] \in S, NEW g,
           \A part \in Parts(call) : g[part] \in Formed /\ Described(g[part], part[1], part[2])
    PROVE  Described(MadeStep(g, call), call[1], call[2])
<1> DEFINE name == call[1]
           v    == call[2]
           d    == v[2]
           all  == call[3]
           m    == MadeStep(g, call)
<1>1. v \in Value /\ name \in Names /\ all \in BOOLEAN /\ v \in S
  BY DEF Calls, Names
<1>2. m \in Formed /\ m.defs \in Schemas /\ m.type \in Normal
  <2>1. m \in Formed
    BY StepMakes
  <2> QED
    BY <2>1 DEF Formed
<1>3. CASE v[1] = "scalar"
  <2>1. d \in BsonScalarTypes
    BY <1>1, <1>3, ValueShapes
  <2>2. /\ IsScalar(Scalar(d)) /\ Scalar(d).base[2] = d /\ Scalar(d) # ExtendedJSON /\ ~IsNullable(Scalar(d))
        /\ CommonSupertypes(d, d) = {d}
    BY <2>1, Unwrappable DEF CommonSupertypes, Scalar, IsNullable
  <2>3. m = [defs |-> <<>>, type |-> Scalar(d)]
    BY <1>3 DEF MadeStep
  <2>4. HasType(v, m.type, m.defs)
    <3>1. m.type = Scalar(d)
      BY <2>3
    <3> HIDE DEF m
    <3> QED
      BY <1>1, <1>2, <1>3, <2>2, <3>1, HasShapes
  <2>5. DOMAIN m.defs = {}
    BY <2>3, SchemaFormed
  <2> HIDE DEF m
  <2> QED
    BY <2>4, <2>5 DEF Described, m
<1>4. CASE v[1] = "array"
  <2> DEFINE made  == [i \in DOMAIN d |-> g[<<name, d[i], all>>]]
             sets  == [i \in DOMAIN d |-> made[i].defs]
             types == [i \in DOMAIN d |-> made[i].type]
             c == CollectTypes(sets)
             t == UnifyTypes(types)
  <2>1. /\ d \in Seq(Value) /\ \A i \in DOMAIN d : <<name, d[i], all>> \in Parts(call)
        /\ \A i \in DOMAIN d : d[i] \in S /\ d[i] \in Value
    BY <1>1, <1>4, ValueShapes DEF Parts, Describable
  <2>2. m = [defs |-> c, type |-> ArrayOf(t)]
    BY <1>4 DEF MadeStep
  <2>3. \A i \in DOMAIN d : made[i] \in Formed /\ Described(made[i], name, d[i])
    BY <2>1
  <2>4. /\ sets \in Seq(Schemas) /\ types \in Seq(Normal)
        /\ Len(sets) = Len(d) /\ Len(types) = Len(d) /\ DOMAIN d = 1..Len(d)
        /\ \A i \in DOMAIN d : /\ sets[i] = made[i].defs /\ types[i] = made[i].type
                               /\ sets[i] \in Schemas /\ types[i] \in Normal
    <3>1. DOMAIN d = 1..Len(d) /\ Len(d) \in Nat
      BY <2>1
    <3>2. \A i \in DOMAIN d : made[i].defs \in Schemas /\ made[i].type \in Normal
      BY <2>3 DEF Formed
    <3> HIDE DEF made, d
    <3> QED
      BY <3>1, <3>2
  <2> HIDE DEF sets, types, made, d
  <2>5. /\ IsLeast(c, {sets[i] : i \in 1..Len(d)})
        /\ \A n \in DOMAIN c : \E i \in 1..Len(d) : n \in DOMAIN sets[i]
        /\ t \in Normal /\ \A i \in 1..Len(d) : AtMost(types[i], t)
    BY <2>4, CollectsLeast, TypesUnify
  <2> HIDE DEF c, t
  <2>6. c \in Schemas /\ \A i \in 1..Len(d) : Includes(c, sets[i])
    BY <2>5 DEF IsLeast
  <2>7. ASSUME NEW i \in DOMAIN d PROVE HasType(d[i], t, c)
    <3>1. HasType(d[i], types[i], sets[i])
      BY <2>3, <2>4 DEF Described
    <3>2. Lifts(d[i], sets[i], c)
      BY <2>1, <2>4, <2>6, ValuesLift
    <3>3. HasType(d[i], UnifyType(types[i], t), c)
      BY <2>4, <2>5, <3>1, <3>2 DEF Lifts
    <3>4. UnifyType(types[i], t) = t
      BY <2>4, <2>5 DEF AtMost
    <3> QED
      BY <3>3, <3>4
  <2>8. HasType(v, ArrayOf(t), c)
    <3> DEFINE a == ArrayOf(t)
    <3>1. a \in Normal /\ IsArray(a) /\ ~IsNullable(a) /\ a # ExtendedJSON /\ Underlying(a) = t
      BY <2>5, NormalParts, Wrapped, Unwrappable
    <3> HIDE DEF a
    <3>2. \A i \in DOMAIN v[2] : HasType(v[2][i], Underlying(a), c)
      BY <2>7, <3>1 DEF d
    <3>3. HasType(v, a, c)
      BY <1>1, <1>4, <2>6, <3>1, <3>2, HasShapes
    <3> QED
      BY <3>3 DEF a
  <2>9. \A n \in DOMAIN c : Extends(n, name)
    BY <2>3, <2>4, <2>5 DEF Described
  <2>10. m.defs = c /\ m.type = ArrayOf(t)
    BY <2>2
  <2> HIDE DEF m
  <2> QED
    BY <2>8, <2>9, <2>10 DEF Described, m
<1>5. CASE v[1] = "document"
  <2> DEFINE made == [i \in DOMAIN d |-> g[FieldCall(name, d, i, all)]]
             r    == FieldsMade(made, name, d, FALSE, all)
  <2>1. d \in DocumentsOver(Value) /\ \A i \in DOMAIN d : FieldCall(name, d, i, all) \in Parts(call)
    BY <1>1, <1>5, ValueShapes DEF Parts
  <2>2. m = [defs |-> r, type |-> Object(name)]
    <3>1. m = [defs |-> ObjectTypeOver(g, name, d, FALSE, all), type |-> Object(name)]
      BY <1>5 DEF MadeStep
    <3> QED
      BY <3>1, ObjectTypeMade
  <2>3. /\ made \in [DOMAIN d -> Formed]
        /\ \A i \in DOMAIN d : Described(made[i], name \o d[i].name, d[i].value)
    <3>1. \A i \in DOMAIN d : FieldCall(name, d, i, all) = <<name \o d[i].name, d[i].value, all>>
      BY DEF FieldCall
    <3>2. ASSUME NEW i \in DOMAIN d
          PROVE  made[i] \in Formed /\ Described(made[i], name \o d[i].name, d[i].value)
      <4> DEFINE part == FieldCall(name, d, i, all)
      <4>1. part[1] = name \o d[i].name /\ part[2] = d[i].value /\ made[i] = g[part]
        BY DEF FieldCall
      <4>2. g[part] \in Formed /\ Described(g[part], part[1], part[2])
        BY <2>1
      <4> HIDE DEF part, made
      <4> QED
        BY <4>1, <4>2
    <3> QED
      BY <3>2
  <2>4. <<"document", d>> \in S
    <3>1. v = <<"document", d>>
      BY <1>1, <1>5, ValueShapes
    <3> QED
      BY <1>1, <3>1
  <2>5. (\A n \in DOMAIN r : Extends(n, name)) /\ HasFields(d, r[name], r) /\ r \in Schemas /\ name \in DOMAIN r
    <3> DEFINE x == r
    <3>1. x = FieldsMade(made, name, d, FALSE, all)
      OBVIOUS
    <3> HIDE DEF d, made, name, all, x
    <3>2. (\A n \in DOMAIN x : Extends(n, name)) /\ HasFields(d, x[name], x)
      BY <1>1, <2>1, <2>3, <2>4, <3>1, DocumentHas
    <3>3. x \in Schemas /\ name \in DOMAIN x
      BY <1>1, <2>1, <2>3, <3>1, ObjectTypesMade
    <3> QED
      BY <3>2, <3>3 DEF x
  <2>6. /\ Object(name) \in Normal /\ IsNamed(Object(name)) /\ Object(name).base[2] = name
        /\ ~IsNullable(Object(name)) /\ Object(name) # ExtendedJSON
    <3>1. Object(name) \in Normal
      BY <1>2, <2>2
    <3> QED
      BY <3>1 DEF Object, IsNamed, IsNullable, ExtendedJSON
  <2> HIDE DEF r, d, made
  <2>7. HasType(v, Object(name), r)
    <3> DEFINE o == Object(name)
    <3> HIDE DEF o
    <3>1. o \in Normal /\ IsNamed(o) /\ o.base[2] = name /\ ~IsNullable(o) /\ o # ExtendedJSON
      BY <2>6 DEF o
    <3>2. o.base[2] \in DOMAIN r /\ HasFields(v[2], r[o.base[2]], r)
      BY <2>5, <3>1 DEF d
    <3>3. HasType(v, o, r)
      BY <1>1, <1>5, <2>5, <3>1, <3>2, HasShapes
    <3> QED
      BY <3>3 DEF o
  <2>8. m.defs = r /\ m.type = Object(name)
    BY <2>2
  <2> HIDE DEF m
  <2> QED
    BY <2>5, <2>7, <2>8 DEF Described, m
<1>6. v[1] \in {"scalar", "array", "document"}
  BY <1>1, ValueShapes
<1> QED
  BY <1>3, <1>4, <1>5, <1>6

LEMMA MadeDescribes ==
    ASSUME NEW S \in SUBSET Value, Describable(S)
    PROVE  \A call \in Calls : call[2] \in S => Described(MadeFieldType[call], call[1], call[2])
<1> DEFINE D == {call \in Calls : call[2] \in S}
           size == [call \in D |-> Rank(call[2])]
           T == {call \in D : Described(MadeFieldType[call], call[1], call[2])}
<1>1. size \in [D -> Nat]
  BY PartsAreLess
<1>2. \A call \in D : (\A y \in D : size[y] < size[call] => y \in T) => call \in T
  <2> SUFFICES ASSUME NEW call \in D, \A y \in D : size[y] < size[call] => y \in T PROVE call \in T
    OBVIOUS
  <2>1. call \in Calls /\ call[2] \in S /\ call[2] \in Value
    OBVIOUS
  <2>2. ASSUME NEW part \in Parts(call) PROVE part[2] \in S
    <3> DEFINE v == call[2]
    <3>1. CASE v[1] = "array"
      <4>1. PICK i \in DOMAIN v[2] : part = <<call[1], v[2][i], call[3]>>
        BY <3>1 DEF Parts
      <4>2. part[2] = v[2][i]
        BY <4>1
      <4>3. v[2][i] \in S
        BY <2>1, <3>1 DEF Describable
      <4> QED
        BY <4>2, <4>3
    <3>2. CASE v[1] = "document"
      <4>1. PICK i \in DOMAIN v[2] : part = FieldCall(call[1], v[2], i, call[3])
        BY <3>2 DEF Parts
      <4>2. part[2] = v[2][i].value
        BY <4>1 DEF FieldCall
      <4>3. v[2][i].value \in S
        BY <2>1, <3>2 DEF Describable
      <4> QED
        BY <4>2, <4>3
    <3>3. CASE v[1] # "array" /\ v[1] # "document"
      BY <3>3 DEF Parts
    <3> QED
      BY <3>1, <3>2, <3>3
  <2>3. \A part \in Parts(call) : part \in Calls /\ Rank(part[2]) < Rank(call[2])
    BY <2>1, PartsAreLess
  <2>4. ASSUME NEW part \in Parts(call)
        PROVE  MadeFieldType[part] \in Formed /\ Described(MadeFieldType[part], part[1], part[2])
    <3>1. part \in D /\ size[part] < size[call]
      BY <2>2, <2>3
    <3> QED
      BY <3>1, <2>3, MadeDefined
  <2>5. Described(MadeStep(MadeFieldType, call), call[1], call[2])
    BY <2>1, <2>4, StepDescribes
  <2>6. Described(MadeFieldType[call], call[1], call[2])
    BY <2>1, <2>5, MadeDefined
  <2> QED
    BY <2>6
<1>3. \A call \in D : call \in T
  <2> HIDE DEF D, T, size
  <2> QED
    BY <1>1, <1>2, SizeInduction
<1> QED
  BY <1>3

\* A document of the collection has the fields of the object type derived from it.
LEMMA DocumentConforms ==
    ASSUME NEW S \in SUBSET Value, Describable(S), NEW doc \in Documents, <<"document", doc>> \in S,
           NEW allNullable \in BOOLEAN
    PROVE  LET m == MakeObjectType(doc, allNullable) IN HasFields(doc, m[CollectionTypeName], m)
<1> DEFINE made == [i \in DOMAIN doc |-> MadeFieldType[FieldCall(CollectionTypeName, doc, i, allNullable)]]
           v == <<"document", doc>>
           m == MakeObjectType(doc, allNullable)
<1>1. v \in Value /\ v[1] = "document" /\ v[2] = doc /\ v \in S
  OBVIOUS
<1>2. doc \in DocumentsOver(Value) /\ \A i \in DOMAIN doc : doc[i].value \in S /\ doc[i].value \in Value
  <2> HIDE DEF v
  <2> QED
    BY <1>1, ValueShapes DEF Describable
<1>3. CollectionTypeName \in Names
  BY NameAssumption DEF Names
<1>4. ASSUME NEW i \in DOMAIN doc
      PROVE  made[i] \in Formed /\ Described(made[i], CollectionTypeName \o doc[i].name, doc[i].value)
  <2> DEFINE call == FieldCall(CollectionTypeName, doc, i, allNullable)
             name == CollectionTypeName \o doc[i].name
  <2>1. name \in Seq(STRING)
    <3>1. doc[i].name \in Seq(STRING)
      BY <1>2, DocumentParts DEF Names
    <3> QED
      BY <3>1, NameAssumption
  <2>2. call = <<name, doc[i].value, allNullable>>
    BY DEF FieldCall
  <2> HIDE DEF name
  <2>3. call \in Calls /\ call[1] = name /\ call[2] = doc[i].value
    BY <1>2, <2>1, <2>2 DEF Calls
  <2>4. made[i] = MadeFieldType[call]
    OBVIOUS
  <2> HIDE DEF call, made
  <2>5. made[i] \in Formed /\ Described(made[i], name, doc[i].value)
    BY <1>2, <2>3, <2>4, MadeDefined, MadeDescribes
  <2> QED
    BY <2>5 DEF name
<1>5. m = FieldsMade(made, CollectionTypeName, doc, TRUE, allNullable)
  BY ObjectTypeMade DEF MakeObjectType
<1>6. made \in [DOMAIN doc -> Formed]
  BY <1>4
<1> HIDE DEF made, m
<1>7. HasFields(doc, m[CollectionTypeName], m)
  BY <1>2, <1>3, <1>4, <1>5, <1>6, DocumentHas
<1> QED
  BY <1>7 DEF m

\* Every document read conforms to the schema collected, whatever was unified in between:
\* for all documents that are made of what a schema can describe.
THEOREM AlwaysConform ==
    ASSUME NEW S \in SUBSET Value, Describable(S), \A doc \in Documents : <<"document", doc>> \in S
    PROVE  Spec => []SampledDocumentsConform
<1>1. CollectedIsLeast => SampledDocumentsConform
  <2> SUFFICES ASSUME CollectedIsLeast, collectedTypes # <<>>, NEW i \in DOMAIN sample
               PROVE  HasFields(sample[i], collectedTypes[CollectionTypeName], collectedTypes)
    BY DEF SampledDocumentsConform
  <2> DEFINE doc == sample[i]
             m == MakeObjectType(doc, allSchemaNullable)
  <2>1. /\ allSchemaNullable \in BOOLEAN /\ doc \in Documents /\ collectedTypes \in Schemas
        /\ IsLeast(collectedTypes, {MakeObjectType(d, allSchemaNullable) : d \in Sampled})
    BY DEF CollectedIsLeast
  <2>2. m \in {MakeObjectType(d, allSchemaNullable) : d \in Sampled}
    BY DEF Sampled
  <2>3. Includes(collectedTypes, m)
    BY <2>1, <2>2 DEF IsLeast
  <2>4. m \in Schemas /\ CollectionTypeName \in DOMAIN m
    BY <2>1, DocumentTypes
  <2>5. <<"document", doc>> \in S
    BY <2>1
  <2>6. HasFields(doc, m[CollectionTypeName], m)
    BY <2>1, <2>5, DocumentConforms
  <2>7. doc \in DocumentsOver(Value) /\ \A j \in DOMAIN doc : doc[j].value \in S
    <3> DEFINE v == <<"document", doc>>
    <3>1. v \in Value /\ v[1] = "document" /\ v[2] = doc /\ v \in S
      BY <2>5
    <3> HIDE DEF v
    <3> QED
      BY <3>1, ValueShapes DEF Describable
  <2> HIDE DEF m, doc
  <2>8. \A j \in DOMAIN doc : Lifts(doc[j].value, m, collectedTypes)
    BY <2>1, <2>3, <2>4, <2>7, ValuesLift
  <2>9. HasFields(doc, collectedTypes[CollectionTypeName], collectedTypes)
    BY <2>1, <2>3, <2>4, <2>6, <2>7, <2>8, FieldsLift
  <2> QED
    BY <2>9 DEF doc
<1> QED
  BY <1>1, AlwaysLeast, PTL

------------------------------------------------------------------------------
\* No more than the data forces.

\* The right-hand side of Ordered
OrderedStep(g, a, b) ==
    \/ a = b
    \/ a = Undefined
    \/ b = ExtendedJSON
    \/ a = NullType /\ IsNullable(b)
    \/ IsNullable(b) /\ ~IsNullable(a) /\ g[<<a, Underlying(b)>>]
    \/ IsNullable(a) /\ IsNullable(b) /\ g[<<Underlying(a), Underlying(b)>>]
    \/ IsNullable(a) /\ Underlying(a) = Undefined /\ b = NullType
    \/ IsArray(a) /\ IsArray(b) /\ g[<<Underlying(a), Underlying(b)>>]
    \/ /\ IsScalar(a) /\ IsScalar(b)
       /\ CommonSupertypes(a.base[2], b.base[2]) = {b.base[2]}

\* The recursive definition defines a relation.
LEMMA OrderedDefined == \A a, b \in Type : Below(a, b) = OrderedStep(Ordered, a, b)
<1> DEFINE D == Type \X Type
           R == BOOLEAN
           size == [p \in D |-> Depth(p[1]) + Depth(p[2])]
           step == [g \in [D -> R] |-> [p \in D |-> OrderedStep(g, p[1], p[2])]]
<1>1. size \in [D -> Nat] /\ R # {}
  <2>1. ASSUME NEW p \in D PROVE Depth(p[1]) + Depth(p[2]) \in Nat
    <3>1. Depth(p[1]) \in Nat /\ Depth(p[2]) \in Nat
      BY Unwrapped
    <3> QED
      BY <3>1
  <2> HIDE DEF D
  <2> QED
    BY <2>1
<1>2. \A g, a, b : OrderedStep(g, a, b) \in R
  BY DEF OrderedStep
<1>3. step \in [[D -> R] -> [D -> R]]
  <2> HIDE DEF D, R
  <2> QED
    BY <1>2
<1>4. \A g, h \in [D -> R], p \in D :
        (\A q \in D : size[q] < size[p] => g[q] = h[q]) => step[g][p] = step[h][p]
  <2> SUFFICES ASSUME NEW g \in [D -> R], NEW h \in [D -> R], NEW p \in D,
                      \A q \in D : size[q] < size[p] => g[q] = h[q]
               PROVE  step[g][p] = step[h][p]
    OBVIOUS
  <2> DEFINE a == p[1]
             b == p[2]
             x == Underlying(a)
             y == Underlying(b)
  <2>1. /\ a \in Type /\ b \in Type /\ Depth(a) \in Nat /\ Depth(b) \in Nat
        /\ IsNullable(a) \/ IsArray(a) => x \in Type /\ Depth(x) < Depth(a) /\ Depth(x) \in Nat
        /\ IsNullable(b) \/ IsArray(b) => y \in Type /\ Depth(y) < Depth(b) /\ Depth(y) \in Nat
    BY Unwrapped
  <2>2. ASSUME NEW c \in Type, NEW d \in Type, Depth(c) + Depth(d) < Depth(a) + Depth(b)
        PROVE  g[<<c, d>>] = h[<<c, d>>]
    BY <2>2
  <2> HIDE DEF a, b, x, y
  <2>3. IsNullable(b) => g[<<a, y>>] = h[<<a, y>>]
    BY <2>1, <2>2
  <2>4. (IsNullable(a) \/ IsArray(a)) /\ (IsNullable(b) \/ IsArray(b)) => g[<<x, y>>] = h[<<x, y>>]
    <3> SUFFICES ASSUME IsNullable(a) \/ IsArray(a), IsNullable(b) \/ IsArray(b) PROVE g[<<x, y>>] = h[<<x, y>>]
      OBVIOUS
    <3>1. Depth(x) + Depth(y) < Depth(a) + Depth(b)
      BY <2>1
    <3> QED
      BY <2>1, <2>2, <3>1
  <2>5. OrderedStep(g, a, b) = OrderedStep(h, a, b)
    BY <2>3, <2>4 DEF OrderedStep, x, y
  <2> QED
    BY <2>5 DEF a, b
<1>5. PICK g \in [D -> R] : step[g] = g
  <2> HIDE DEF D, R, size, step
  <2>1. Contracts(step, size, D, R)
    BY <1>1, <1>3, <1>4 DEF Contracts
  <2> QED
    BY <2>1, Recursion
<1>6. g = [p \in D |-> OrderedStep(g, p[1], p[2])]
  BY <1>5
<1>7. Ordered = [p \in D |-> OrderedStep(Ordered, p[1], p[2])]
  <2>1. \E ordered : ordered = [p \in D |-> OrderedStep(ordered, p[1], p[2])]
    BY <1>6
  <2>2. Ordered = CHOOSE ordered : ordered = [p \in D |-> OrderedStep(ordered, p[1], p[2])]
    BY DEF Ordered, OrderedStep
  <2> QED
    BY <2>1, <2>2
<1> QED
  BY <1>7 DEF Below

\* Making a type nullable can be undone.
LEMMA NullableIsInjective == \A a, b \in Type : Nullable(a) = Nullable(b) => a = b
  BY Wrapped

\* unify_type is the join of the order that its comment describes.
LEMMA AtMostIsBelow == \A a, b \in Normal : AtMost(a, b) => Below(a, b)
<1> DEFINE Kept(a, b) == AtMost(a, b) => Below(a, b)
           S == {p \in Type \X Type : p[1] \in Normal /\ p[2] \in Normal => Kept(p[1], p[2])}
<1>0. \A x, y \in Normal : UnifyType(x, y) \in Normal
  BY UnifyShapes DEF Normal
\* what is solid unifies to what is not nullable
<1>1. ASSUME NEW x \in Normal, NEW y \in Normal, ~AdmitsNull(x), ~AdmitsNull(y)
      PROVE  ~IsNullable(UnifyType(x, y))
  <2>0. x \in Type /\ y \in Type /\ NormalizeType(x) = x /\ NormalizeType(y) = y
    BY DEF Normal
  <2>1. CASE x = Undefined \/ y = Undefined
    BY <1>1, <2>0, <2>1, UnifyShapes DEF AdmitsNull
  <2>2. CASE Solid(x) /\ Solid(y)
    <3>1. UnifyType(x, y) = IF IsScalar(x) /\ IsScalar(y) THEN UnifyScalars(x, y)
                            ELSE IF IsNamed(x) /\ x = y THEN x
                            ELSE IF IsArray(x) /\ IsArray(y)
                                 THEN ArrayOf(UnifyType(Underlying(x), Underlying(y)))
                            ELSE ExtendedJSON
      BY <2>0, <2>2, UnifyShapes
    <3>2. CASE IsScalar(x) /\ IsScalar(y)
      <4>1. UnifyType(x, y) \in {x, Scalar("binData"), Scalar("double"), ExtendedJSON}
        BY <2>0, <3>1, <3>2, ScalarsUnify
      <4>2. (\A q : ~IsNullable(Scalar(q))) /\ ~IsNullable(ExtendedJSON)
        BY DEF Scalar, ExtendedJSON, IsNullable
      <4> QED
        BY <1>1, <4>1, <4>2 DEF AdmitsNull
    <3>3. CASE IsArray(x) /\ IsArray(y)
      <4>1. Underlying(x) \in Normal /\ Underlying(y) \in Normal /\ ~IsScalar(x) /\ ~IsNamed(x)
        BY <2>0, <3>3, NormalParts, Unwrapped
      <4>2. UnifyType(Underlying(x), Underlying(y)) \in Type
        BY <1>0, <4>1 DEF Normal
      <4> QED
        BY <3>1, <3>3, <4>1, <4>2, Wrapped
    <3>4. CASE ~(IsScalar(x) /\ IsScalar(y)) /\ ~(IsArray(x) /\ IsArray(y))
      BY <1>1, <3>1, <3>4, Unwrappable DEF AdmitsNull
    <3> QED
      BY <3>2, <3>3, <3>4
  <2> QED
    BY <1>1, <2>1, <2>2 DEF Solid
\* under a nullable type
<1>2. ASSUME NEW x \in Normal, NEW b \in Normal, ~AdmitsNull(x), x # Undefined, IsNullable(b), AtMost(x, b)
      PROVE  AtMost(x, Underlying(b))
  <2> DEFINE y == Underlying(b)
             r == UnifyType(x, y)
  <2>1. /\ y \in Normal /\ ~AdmitsNull(y) /\ b = Nullable(y) /\ x \in Type /\ b \in Type /\ y \in Type
        /\ ~IsNullable(x) /\ x # ExtendedJSON
    <3>1. y \in Normal /\ ~AdmitsNull(y)
      BY <1>2, NormalParts
    <3>2. x \in Type /\ b \in Type
      BY DEF Normal
    <3> QED
      BY <1>2, <3>1, <3>2, Unwrapped DEF Normal, AdmitsNull
  <2>2. UnifyType(x, b) = MakeNullable(r)
    BY <1>2, <2>1, UnifyShapes
  <2>3. r \in Type /\ ~IsNullable(r)
    BY <1>0, <1>1, <1>2, <2>1 DEF Normal
  <2> HIDE DEF y, r
  <2>4. MakeNullable(r) = Nullable(y)
    BY <1>2, <2>1, <2>2 DEF AtMost
  <2>5. ~AdmitsNull(r)
    <3>1. IsNullable(Nullable(y))
      BY <2>1, Wrapped
    <3> QED
      BY <2>3, <2>4, <3>1, MakesNullable
  <2>6. r = y
    BY <2>1, <2>3, <2>4, <2>5, MakesNullable, NullableIsInjective
  <2> QED
    BY <2>6 DEF AtMost, r, y
<1>3. ASSUME NEW a \in Normal, NEW b \in Normal, AtMost(a, b),
             \A x, y \in Normal : Depth(x) + Depth(y) < Depth(a) + Depth(b) => Kept(x, y)
      PROVE  Below(a, b)
  <2> DEFINE x == Underlying(a)
             y == Underlying(b)
  <2>1. /\ a \in Type /\ b \in Type /\ NormalizeType(a) = a /\ NormalizeType(b) = b
        /\ UnifyType(a, b) = b /\ Depth(a) \in Nat /\ Depth(b) \in Nat
    BY <1>3, Unwrapped DEF Normal, AtMost
  <2>2. Below(a, b) = OrderedStep(Ordered, a, b)
    BY <2>1, OrderedDefined
  <2>3. IsNullable(a) => x \in Normal /\ ~AdmitsNull(x) /\ Depth(x) < Depth(a) /\ Depth(x) \in Nat
    BY <2>1, NormalParts, Unwrapped DEF Normal
  <2>4. IsNullable(b) => y \in Normal /\ ~AdmitsNull(y) /\ Depth(y) < Depth(b) /\ Depth(y) \in Nat
    BY <2>1, NormalParts, Unwrapped DEF Normal
  <2>5. ASSUME NEW c \in Type, NEW d \in Type, Below(c, d) PROVE Ordered[<<c, d>>]
    BY <2>5 DEF Below
  <2>6. CASE a = b \/ a = Undefined \/ b = ExtendedJSON
    BY <2>2, <2>6 DEF OrderedStep
  <2>7. CASE a = ExtendedJSON \/ b = Undefined
    BY <2>1, <2>6, <2>7, UnifyShapes
  <2>8. CASE ExtendedJSON \notin {a, b} /\ a # Undefined /\ b # Undefined /\ IsNullable(a) /\ ~IsNullable(b)
    <3>1. b = MakeNullable(UnifyType(x, b)) /\ UnifyType(x, b) \in Type
      BY <1>0, <2>1, <2>3, <2>8, UnifyShapes DEF Normal
    <3>2. b = NullType
      BY <2>8, <3>1, MakesNullable DEF AdmitsNull
    <3>3. x = Undefined
      <4>1. SUFFICES ASSUME x # Undefined PROVE FALSE
        OBVIOUS
      <4>2. x \in Type /\ ~IsNullable(x) /\ NormalizeType(x) = x
        BY <2>3, <2>8 DEF Normal, AdmitsNull
      <4>3. UnifyType(x, b) = MakeNullable(x)
        BY <2>1, <3>2, <4>1, <4>2, UnifyShapes
      <4>4. b = MakeNullable(x)
        BY <3>1, <4>2, <4>3, MakesNullable
      <4>5. IsNullable(b)
        BY <2>3, <2>8, <4>2, <4>4, MakesNullable, Wrapped
      <4> QED
        BY <2>8, <4>5
    <3> QED
      BY <2>2, <2>8, <3>2, <3>3 DEF OrderedStep
  <2>9. CASE ExtendedJSON \notin {a, b} /\ a # Undefined /\ b # Undefined /\ IsNullable(a) /\ IsNullable(b)
    <3>1. Below(x, y)
      <4>1. CASE x = Undefined
        BY <2>3, <2>4, <2>9, <4>1, OrderedDefined DEF OrderedStep, Normal
      <4>2. CASE x # Undefined
        <5>1. AtMost(x, b)
          <6>1. x \in Type /\ a = Nullable(x)
            BY <2>1, <2>3, <2>9, Unwrapped DEF Normal
          <6>2. a = MakeNullable(x)
            BY <2>3, <2>9, <6>1, MakesNullable
          <6>3. AtMost(x, a)
            BY <2>3, <2>9, <6>2, UnifyIsLeastUpperBound
          <6> HIDE DEF x
          <6> QED
            BY <1>3, <2>3, <2>9, <6>3, UnifyIsLeastUpperBound
        <5>2. AtMost(x, y)
          BY <1>2, <2>3, <2>9, <4>2, <5>1
        <5> HIDE DEF x, y
        <5>3. Depth(x) + Depth(y) < Depth(a) + Depth(b)
          BY <2>1, <2>3, <2>4, <2>9
        <5> QED
          BY <1>3, <2>3, <2>4, <2>9, <5>2, <5>3
      <4> QED
        BY <4>1, <4>2
    <3>2. Ordered[<<x, y>>]
      BY <3>1 DEF Below
    <3> QED
      BY <2>2, <2>9, <3>2 DEF OrderedStep
  <2>10. CASE ExtendedJSON \notin {a, b} /\ a # Undefined /\ b # Undefined /\ ~IsNullable(a) /\ IsNullable(b)
    <3>1. CASE a = NullType
      BY <2>2, <2>10, <3>1 DEF OrderedStep
    <3>2. CASE a # NullType
      <4>1. ~AdmitsNull(a)
        BY <2>10, <3>2 DEF AdmitsNull
      <4>2. AtMost(a, y)
        BY <1>2, <1>3, <2>10, <4>1
      <4> HIDE DEF y
      <4>3. Depth(a) + Depth(y) < Depth(a) + Depth(b)
        BY <2>1, <2>4, <2>10
      <4>4. Below(a, y)
        BY <1>3, <2>4, <2>10, <4>2, <4>3
      <4>5. Ordered[<<a, Underlying(b)>>]
        BY <4>4 DEF Below, y
      <4> QED
        BY <2>2, <2>10, <4>5 DEF OrderedStep
    <3> QED
      BY <3>1, <3>2
  <2>11. CASE /\ ExtendedJSON \notin {a, b} /\ a # Undefined /\ b # Undefined
              /\ ~IsNullable(a) /\ ~IsNullable(b) /\ NullType \in {a, b}
    <3>1. CASE a = NullType
      <4>1. b = MakeNullable(b)
        BY <2>1, <2>11, <3>1, UnifyShapes
      <4>2. AdmitsNull(b)
        BY <2>1, <4>1, MakesNullable
      <4> QED
        BY <2>6, <2>11, <3>1, <4>2 DEF AdmitsNull
    <3>2. CASE b = NullType
      <4>1. b = MakeNullable(a)
        BY <2>1, <2>11, <3>2, UnifyShapes
      <4>2. AdmitsNull(a)
        BY <2>1, <2>11, <4>1, MakesNullable, Wrapped
      <4> QED
        BY <2>6, <2>11, <3>2, <4>2 DEF AdmitsNull
    <3> QED
      BY <2>11, <3>1, <3>2
  <2>12. CASE Solid(a) /\ Solid(b)
    <3>1. b = IF IsScalar(a) /\ IsScalar(b) THEN UnifyScalars(a, b)
              ELSE IF IsNamed(a) /\ a = b THEN a
              ELSE IF IsArray(a) /\ IsArray(b) THEN ArrayOf(UnifyType(x, y))
              ELSE ExtendedJSON
      BY <2>1, <2>12, UnifyShapes
    <3>2. CASE IsScalar(a) /\ IsScalar(b) /\ a # b
      <4> DEFINE p == a.base[2]
                 q == b.base[2]
      <4>1. \/ {p, q} \subseteq Binary /\ b = Scalar("binData")
            \/ {p, q} = {"double", "int"} /\ b = Scalar("double")
            \/ b = ExtendedJSON
        BY <2>1, <3>1, <3>2, ScalarsUnify
      <4>2. b # ExtendedJSON
        BY <3>2, Unwrappable
      <4>3. Scalar("binData").base[2] = "binData" /\ Scalar("double").base[2] = "double"
        BY DEF Scalar
      <4>4. \/ {p, q} \subseteq Binary /\ q = "binData"
            \/ {p, q} = {"double", "int"} /\ q = "double"
        BY <4>1, <4>2, <4>3
      <4> HIDE DEF p, q
      <4>5. CommonSupertypes(p, q) = {q}
        BY <4>4 DEF CommonSupertypes, Binary
      <4> QED
        BY <2>2, <3>2, <4>5 DEF OrderedStep, p, q
    <3>3. CASE ~(IsScalar(a) /\ IsScalar(b)) /\ IsArray(a) /\ IsArray(b)
      <4>1. /\ x \in Normal /\ Depth(x) < Depth(a) /\ Depth(x) \in Nat
            /\ y \in Normal /\ Depth(y) < Depth(b) /\ Depth(y) \in Nat
            /\ ~IsNamed(a) /\ b = ArrayOf(y)
        BY <2>1, <3>3, NormalParts, Unwrapped DEF Normal
      <4>2. b = ArrayOf(UnifyType(x, y))
        BY <3>1, <3>3, <4>1
      <4> HIDE DEF x, y
      <4>3. Underlying(b) = UnifyType(x, y) /\ Underlying(b) = y
        <5>1. UnifyType(x, y) \in Type /\ y \in Type
          BY <1>0, <4>1 DEF Normal
        <5> QED
          BY <4>1, <4>2, <5>1, Wrapped
      <4>4. AtMost(x, y)
        BY <4>3 DEF AtMost
      <4>5. Depth(x) + Depth(y) < Depth(a) + Depth(b)
        BY <2>1, <4>1
      <4>6. Ordered[<<Underlying(a), Underlying(b)>>]
        <5>1. Below(x, y)
          BY <1>3, <4>1, <4>4, <4>5
        <5> QED
          BY <5>1 DEF Below, x, y
      <4> QED
        BY <2>2, <3>3, <4>6 DEF OrderedStep
    <3>4. CASE ~(IsScalar(a) /\ IsScalar(b)) /\ ~(IsArray(a) /\ IsArray(b))
      BY <2>6, <3>1, <3>4
    <3> QED
      BY <2>6, <3>2, <3>3, <3>4
  <2> QED
    BY <2>6, <2>7, <2>8, <2>9, <2>10, <2>11, <2>12 DEF Solid, AdmitsNull
<1>4. ASSUME NEW a \in Type, NEW b \in Type,
             \A x, y \in Type : Depth(x) + Depth(y) < Depth(a) + Depth(b) => <<x, y>> \in S
      PROVE  <<a, b>> \in S
  <2>1. \A x, y \in Normal : Depth(x) + Depth(y) < Depth(a) + Depth(b) => Kept(x, y)
    <3> HIDE DEF Kept
    <3> QED
      BY <1>4 DEF Normal
  <2>2. a \in Normal /\ b \in Normal => Kept(a, b)
    BY <1>3, <2>1
  <2> HIDE DEF Kept
  <2> QED
    BY <2>2
<1>5. \A a, b \in Type : <<a, b>> \in S
  <2> HIDE DEF S
  <2> QED
    BY <1>4, PairInduction
<1>6. \A a, b \in Normal : Kept(a, b)
  <2> HIDE DEF Kept
  <2> QED
    BY <1>5 DEF Normal
<1> QED
  BY <1>6

\* Types that sampling may derive for the values under a name: the one object type they refer
\* to has this name.
Expected(t, name) == /\ t.base[1] # "predicate" /\ t.base # Undefined.base
                     /\ RefersToObject(t) => ObjectNameOf(t) = name

\* The type made of a value is at most any that it has.
LEMMA MadeIsLeast ==
    ASSUME NEW types \in Schemas
    PROVE  \A call \in Calls : \A t \in Normal :
                Expected(t, call[1]) /\ HasType(call[2], t, types) => AtMost(MadeFieldType[call].type, t)
<1> DEFINE Least(call) == \A t \in Normal :
                Expected(t, call[1]) /\ HasType(call[2], t, types) => AtMost(MadeFieldType[call].type, t)
           D == Calls
           size == [call \in D |-> Rank(call[2])]
           T == {call \in D : Least(call)}
<1>1. size \in [D -> Nat]
  BY PartsAreLess
<1>2. ASSUME NEW call \in Calls, \A part \in Parts(call) : Least(part) PROVE Least(call)
  <2> DEFINE name == call[1]
             v    == call[2]
             d    == v[2]
             all  == call[3]
             m    == MadeFieldType[call].type
  <2>1. v \in Value /\ name \in Names /\ all \in BOOLEAN
    BY DEF Calls, Names
  <2>2. m \in Normal /\ \A part \in Parts(call) : part \in Calls /\ MadeFieldType[part] \in Formed
    <3>1. MadeFieldType[call] \in Formed
      BY MadeDefined
    <3>2. m \in Normal
      BY <3>1 DEF Formed
    <3> QED
      BY <3>2, PartsAreLess, MadeDefined
  <2>3. MadeFieldType[call] = MadeStep(MadeFieldType, call)
    BY MadeDefined
  \* a type that does not admit null
  <2>4. ASSUME NEW t \in Normal, Expected(t, name), HasType(v, t, types), ~AdmitsNull(t) PROVE AtMost(m, t)
    <3>1. t # ExtendedJSON /\ ~IsNullable(t) /\ t # NullType /\ t \in Type /\ NormalizeType(t) = t
      BY <2>4 DEF AdmitsNull, Normal
    <3>2. \/ v[1] = "scalar" /\ IsScalar(t) /\ CommonSupertypes(v[2], t.base[2]) = {t.base[2]}
          \/ v[1] = "array" /\ IsArray(t) /\ \A i \in DOMAIN d : HasType(d[i], Underlying(t), types)
          \/ v[1] = "document" /\ IsNamed(t)
      BY <2>1, <2>4, <3>1, HasShapes
    <3>3. CASE v[1] = "scalar" /\ IsScalar(t) /\ CommonSupertypes(v[2], t.base[2]) = {t.base[2]}
      <4> DEFINE q == t.base[2]
      <4>1. d \in BsonScalarTypes /\ m = Scalar(d)
        <5>1. d \in BsonScalarTypes
          BY <2>1, <3>3, ValueShapes
        <5>2. MadeStep(MadeFieldType, call) = [defs |-> <<>>, type |-> Scalar(d)]
          BY <3>3 DEF MadeStep
        <5> QED
          BY <2>3, <5>1, <5>2
      <4>2. /\ IsScalar(m) /\ m.base[2] = d /\ m \in Type /\ NormalizeType(m) = m /\ t = Scalar(q)
            /\ q \in BsonScalarTypes /\ CommonSupertypes(d, q) = {q}
        BY <2>2, <3>1, <3>3, <4>1, Unwrappable DEF Normal
      <4> HIDE DEF d, m, q
      <4>3. CASE m = t
        BY <2>2, <4>3, UnifyIsLeastUpperBound
      <4>4. CASE m # t
        <5>1. d # q
          BY <4>1, <4>2, <4>4
        <5>2. \/ {d, q} \subseteq Binary /\ q = "binData"
              \/ {d, q} = {"double", "int"} /\ q = "double"
          BY <4>2, <5>1 DEF CommonSupertypes, Binary
        <5>3. Solid(m) /\ Solid(t)
          <6>1. d # "null" /\ d # "undefined" /\ q # "null" /\ q # "undefined"
            BY <5>2 DEF Binary
          <6>2. t.base[2] = q
            BY DEF q
          <6>3. ~IsNullable(m) /\ m # ExtendedJSON
            BY <4>2, Unwrappable, Unwrapped
          <6> QED
            BY <3>1, <4>2, <6>1, <6>2, <6>3, Unwrappable DEF Solid, AdmitsNull
        <5>4. UnifyType(m, t) = UnifyScalars(m, t)
          BY <3>1, <3>3, <4>2, <5>3, UnifyShapes
        <5>5. UnifyScalars(m, t) = Scalar(q)
          <6>1. UnifyScalars(m, t) =
                    IF m = t THEN m
                    ELSE IF {d, q} \subseteq Binary THEN Scalar("binData")
                    ELSE IF {d, q} = {"double", "int"} THEN Scalar("double")
                    ELSE ExtendedJSON
            BY <3>1, <3>3, <4>2, ScalarsUnify DEF q
          <6>2. ~({d, q} = {"double", "int"} /\ {d, q} \subseteq Binary)
            BY DEF Binary
          <6> QED
            BY <4>4, <5>2, <6>1, <6>2
        <5> QED
          BY <4>2, <5>4, <5>5 DEF AtMost
      <4> QED
        BY <4>3, <4>4
    <3>4. CASE v[1] = "array" /\ IsArray(t) /\ \A i \in DOMAIN d : HasType(d[i], Underlying(t), types)
      <4> DEFINE x     == Underlying(t)
                 made  == [i \in DOMAIN d |-> MadeFieldType[<<name, d[i], all>>]]
                 each  == [i \in DOMAIN d |-> made[i].type]
                 p     == UnifyTypes(each)
      <4>1. x \in Normal /\ t = ArrayOf(x) /\ Expected(x, name)
        <5>1. x \in Normal /\ t = ArrayOf(x) /\ x.base = t.base
          BY <3>1, <3>4, NormalParts, Unwrapped, SameBase
        <5> QED
          BY <2>4, <5>1 DEF Expected, RefersToObject, ObjectNameOf
      <4>2. m = ArrayOf(p)
        <5>1. MadeStep(MadeFieldType, call).type = ArrayOf(p)
          BY <3>4 DEF MadeStep
        <5> QED
          BY <2>3, <5>1
      <4>3. d \in Seq(Value) /\ \A i \in DOMAIN d : <<name, d[i], all>> \in Parts(call)
        BY <2>1, <3>4, ValueShapes DEF Parts
      <4>4. \A i \in DOMAIN d : made[i] \in Formed
        BY <2>2, <4>3
      <4>5. ASSUME NEW i \in DOMAIN d PROVE AtMost(made[i].type, x)
        <5> DEFINE part == <<name, d[i], all>>
        <5>1. Least(part) /\ part[1] = name /\ part[2] = d[i] /\ made[i] = MadeFieldType[part]
          BY <1>2, <4>3
        <5>2. HasType(d[i], x, types)
          BY <3>4
        <5> HIDE DEF part, x, made
        <5> QED
          BY <4>1, <5>1, <5>2
      <4>6. each \in Seq(Normal) /\ Len(each) = Len(d) /\ DOMAIN d = 1..Len(d) /\ \A i \in DOMAIN d : each[i] = made[i].type
        <5>1. DOMAIN d = 1..Len(d) /\ Len(d) \in Nat
          BY <4>3
        <5>2. \A i \in DOMAIN d : made[i].type \in Normal
          BY <4>4 DEF Formed
        <5> HIDE DEF made, d
        <5> QED
          BY <5>1, <5>2
      <4> HIDE DEF x, made, each, d
      <4>7. p \in Normal /\ AtMost(p, x)
        BY <4>1, <4>5, <4>6, TypesUnify
      <4> HIDE DEF p
      <4>8. UnifyType(ArrayOf(p), ArrayOf(x)) = ArrayOf(UnifyType(p, x))
        <5>1. ASSUME NEW y \in Type
              PROVE  /\ ArrayOf(y) \in Type /\ IsArray(ArrayOf(y)) /\ Underlying(ArrayOf(y)) = y /\ Solid(ArrayOf(y))
                     /\ ~IsScalar(ArrayOf(y)) /\ ~IsNamed(ArrayOf(y))
          <6>1. /\ ArrayOf(y) \in Type /\ IsArray(ArrayOf(y)) /\ Underlying(ArrayOf(y)) = y
                /\ ~IsScalar(ArrayOf(y)) /\ ~IsNamed(ArrayOf(y))
            BY Wrapped
          <6>2. ~AdmitsNull(ArrayOf(y))
            BY MakesNullable
          <6>3. ArrayOf(y) # Undefined
            BY <6>1, Unwrappable
          <6> QED
            BY <6>1, <6>2, <6>3 DEF Solid
        <5>2. p \in Type /\ x \in Type
          BY <4>1, <4>7 DEF Normal
        <5> QED
          BY <5>1, <5>2, UnifyShapes
      <4> QED
        BY <4>1, <4>2, <4>7, <4>8 DEF AtMost
    <3>5. CASE v[1] = "document" /\ IsNamed(t)
      <4>1. m = Object(name)
        <5>1. MadeStep(MadeFieldType, call).type = Object(name)
          BY <3>5 DEF MadeStep
        <5> QED
          BY <2>3, <5>1
      <4>2. t = Object(name)
        <5>1. t.wrap = <<>> /\ t.base[1] = "object" /\ t.base[2] = name /\ t = [wrap |-> t.wrap, base |-> t.base]
          BY <2>4, <3>1, <3>5 DEF IsNamed, Expected, RefersToObject, ObjectNameOf, Type
        <5>2. t.base = <<t.base[1], t.base[2]>>
          <6> DEFINE base == t.base
          <6>1. base \in Bases /\ ExtendedJSON.base = <<"ejson", "">>
            BY <3>1 DEF Type, ExtendedJSON
          <6> HIDE DEF base
          <6>2. base \in {"scalar"} \X BsonScalarTypes => base = <<base[1], base[2]>>
            OBVIOUS
          <6>3. base \in {"object", "predicate"} \X Seq(STRING) => base = <<base[1], base[2]>>
            OBVIOUS
          <6>4. ASSUME base = ExtendedJSON.base PROVE base = <<base[1], base[2]>>
            <7>1. base = <<"ejson", "">>
              BY <6>1, <6>4
            <7>2. base[1] = "ejson" /\ base[2] = ""
              BY <7>1
            <7> QED
              BY <7>1, <7>2
          <6>5. base = <<base[1], base[2]>>
            BY <6>1, <6>2, <6>3, <6>4 DEF Bases
          <6> QED
            BY <6>5 DEF base
        <5> QED
          BY <5>1, <5>2 DEF Object
      <4> QED
        BY <2>4, <4>1, <4>2, UnifyIsLeastUpperBound
    <3> QED
      BY <3>2, <3>3, <3>4, <3>5
  <2>5. ASSUME NEW t \in Normal, Expected(t, name), HasType(v, t, types), AdmitsNull(t) PROVE AtMost(m, t)
    <3>1. t \in Type /\ NormalizeType(t) = t /\ ~IsNullable(NullType) /\ NullType \in Normal
      BY NormalizeShapes, Unwrappable DEF Normal
    <3>2. CASE v = NullValue
      <4>1. m = NullType
        <5>1. MadeStep(MadeFieldType, call) = [defs |-> <<>>, type |-> Scalar("null")]
          BY <3>2 DEF MadeStep, NullValue
        <5> QED
          BY <2>3, <5>1 DEF NullType
      <4>2. AdmitsNull(NullType) /\ MakeNullable(NullType) = NullType /\ MakeNullable(t) = t
        BY <2>5, <3>1, MakesNullable, Unwrappable DEF AdmitsNull
      <4>3. CASE t = ExtendedJSON
        BY <2>2, <4>3, UnifyIsLeastUpperBound
      <4>4. CASE t = NullType
        BY <4>1, <4>4, <3>1, UnifyIsLeastUpperBound
      <4>5. CASE IsNullable(t)
        <5> DEFINE u == Underlying(t)
        <5>1. /\ u \in Normal /\ t = Nullable(u) /\ ~AdmitsNull(u) /\ u \in Type /\ NormalizeType(u) = u
              /\ ~IsNullable(u) /\ u.base = t.base
          BY <3>1, <4>5, NormalParts, Unwrapped, SameBase DEF Normal, AdmitsNull
        <5>2. t = MakeNullable(u)
          BY <5>1, MakesNullable
        <5>3. u # Undefined
          BY <2>5, <5>1 DEF Expected
        <5> HIDE DEF u
        <5>4. UnifyType(NullType, t) = MakeNullable(UnifyType(NullType, u))
          BY <3>1, <5>1, <5>2, NormalLifts
        <5>5. UnifyType(NullType, u) = MakeNullable(u)
          BY <3>1, <5>1, <5>3, UnifyShapes, Unwrappable
        <5> QED
          BY <4>1, <4>2, <5>2, <5>4, <5>5 DEF AtMost
      <4> QED
        BY <2>5, <4>3, <4>4, <4>5 DEF AdmitsNull
    <3>3. CASE v # NullValue
      <4>1. CASE t = ExtendedJSON
        BY <2>2, <4>1, UnifyIsLeastUpperBound
      <4>2. t # NullType
        <5> SUFFICES ASSUME t = NullType PROVE FALSE
          OBVIOUS
        <5>1. /\ t # ExtendedJSON /\ ~IsNullable(t) /\ IsScalar(t) /\ ~IsArray(t) /\ ~IsNamed(t)
              /\ t.base[2] = "null"
          BY Unwrappable
        <5>2. v[1] = "scalar" /\ CommonSupertypes(v[2], "null") = {"null"}
          BY <2>1, <2>5, <5>1, HasShapes
        <5>3. v[2] = "null"
          BY <5>2 DEF CommonSupertypes
        <5> QED
          BY <2>1, <3>3, <5>2, <5>3, ValueShapes DEF NullValue
      <4>3. CASE IsNullable(t)
        <5> DEFINE u == Underlying(t)
        <5>1. u \in Normal /\ ~AdmitsNull(u) /\ t = MakeNullable(u) /\ u.base = t.base
          <6>1. u \in Normal /\ ~AdmitsNull(u) /\ t = Nullable(u) /\ u \in Type /\ u.base = t.base
            BY <3>1, <4>3, NormalParts, Unwrapped, SameBase DEF Normal
          <6> QED
            BY <6>1, MakesNullable
        <5>2. HasType(v, u, types)
          BY <2>1, <2>5, <3>3, <4>3, HasShapes
        <5>3. Expected(u, name)
          BY <2>5, <5>1 DEF Expected, RefersToObject, ObjectNameOf
        <5> HIDE DEF u, m
        <5>4. AtMost(m, u)
          BY <2>4, <5>1, <5>2, <5>3
        <5> QED
          BY <2>2, <2>5, <5>1, <5>4, UnifyIsLeastUpperBound
      <4> QED
        BY <2>5, <4>1, <4>2, <4>3 DEF AdmitsNull
    <3> QED
      BY <3>2, <3>3
  <2> QED
    BY <2>4, <2>5
<1>3. \A call \in D : (\A y \in D : size[y] < size[call] => y \in T) => call \in T
  <2> SUFFICES ASSUME NEW call \in D, \A y \in D : size[y] < size[call] => y \in T PROVE call \in T
    OBVIOUS
  <2>1. \A part \in Parts(call) : part \in D /\ size[part] < size[call]
    BY PartsAreLess
  <2> HIDE DEF Least
  <2>2. \A part \in Parts(call) : Least(part)
    BY <2>1
  <2> QED
    BY <1>2, <2>2
<1>4. \A call \in D : call \in T
  <2> HIDE DEF D, T, size
  <2> QED
    BY <1>1, <1>3, SizeInduction
<1> QED
  BY <1>4

\* One object type allows for whatever another one does.
Allows(y, x) ==
    /\ \A f \in DOMAIN x : f \in DOMAIN y /\ AtMost(x[f], y[f])
    /\ \A f \in DOMAIN y : f \notin DOMAIN x => MakeNullable(y[f]) = y[f]

LEMMA FieldsInclude ==
    ASSUME NEW x, NEW y, IsObjectType(x), IsObjectType(y)
    PROVE  UnifyObjectType(x, y) = y <=> Allows(y, x)
<1> DEFINE u == UnifyObjectType(x, y)
<1>1. /\ u = [f \in DOMAIN u |-> u[f]] /\ y = [f \in DOMAIN y |-> y[f]]
      /\ \A f : f \in DOMAIN u <=> f \in DOMAIN x \/ f \in DOMAIN y
      /\ \A f \in DOMAIN x : f \notin DOMAIN y => u[f] = MakeNullable(x[f])
      /\ \A f \in DOMAIN y : f \notin DOMAIN x => u[f] = MakeNullable(y[f])
      /\ \A f \in DOMAIN x : f \in DOMAIN y => u[f] = UnifyType(x[f], y[f])
  BY UnifiedFields DEF IsObjectType
<1> HIDE DEF u
<1>2. ASSUME u = y PROVE Allows(y, x)
  <2>1. \A f \in DOMAIN x : f \in DOMAIN y /\ UnifyType(x[f], y[f]) = y[f]
    BY <1>1, <1>2
  <2>2. \A f \in DOMAIN y : f \notin DOMAIN x => MakeNullable(y[f]) = y[f]
    BY <1>1, <1>2
  <2> QED
    BY <2>1, <2>2 DEF Allows, AtMost
<1>3. ASSUME Allows(y, x) PROVE u = y
  <2>1. DOMAIN u = DOMAIN y
    BY <1>1, <1>3 DEF Allows
  <2>2. \A f \in DOMAIN y : u[f] = y[f]
    BY <1>1, <1>3 DEF Allows, AtMost
  <2> QED
    BY <1>1, <2>1, <2>2
<1> QED
  BY <1>2, <1>3 DEF u

LEMMA TypesInclude ==
    ASSUME NEW s \in Schemas, NEW t \in Schemas
    PROVE  Includes(t, s) <=> \A n \in DOMAIN s : n \in DOMAIN t /\ Allows(t[n], s[n])
<1> DEFINE u == UnifyObjectTypes(s, t)
<1>1. IsObjectTypes(s) /\ IsObjectTypes(t)
  BY SchemaParts
<1>2. /\ u = [n \in DOMAIN u |-> u[n]] /\ t = [n \in DOMAIN t |-> t[n]]
      /\ \A n : n \in DOMAIN u <=> n \in DOMAIN s \/ n \in DOMAIN t
      /\ \A n \in DOMAIN t : n \notin DOMAIN s => u[n] = t[n]
      /\ \A n \in DOMAIN s : n \in DOMAIN t => u[n] = UnifyObjectType(s[n], t[n])
  BY <1>1, UnifiedTypes DEF IsObjectTypes
<1>3. ASSUME NEW n \in DOMAIN s, n \in DOMAIN t
      PROVE  u[n] = t[n] <=> Allows(t[n], s[n])
  <2>1. IsObjectType(s[n]) /\ IsObjectType(t[n])
    BY <1>1, <1>3 DEF IsObjectTypes
  <2> HIDE DEF u
  <2> QED
    BY <1>2, <1>3, <2>1, FieldsInclude
<1> HIDE DEF u
<1>4. ASSUME u = t PROVE \A n \in DOMAIN s : n \in DOMAIN t /\ Allows(t[n], s[n])
  BY <1>2, <1>3, <1>4
<1>5. ASSUME \A n \in DOMAIN s : n \in DOMAIN t /\ Allows(t[n], s[n]) PROVE u = t
  <2>1. DOMAIN u = DOMAIN t
    BY <1>2, <1>5
  <2>2. \A n \in DOMAIN t : u[n] = t[n]
    BY <1>2, <1>3, <1>5
  <2> QED
    BY <1>2, <2>1, <2>2
<1> QED
  BY <1>4, <1>5 DEF u, Includes

\* A field's type can be replaced in a schema by any that is above what the schemas that it
\* includes have there.
LEMMA FieldReplaced ==
    ASSUME NEW coll \in Schemas, NEW k \in DOMAIN coll, NEW f \in DOMAIN coll[k], NEW t \in Normal
    PROVE  \E u \in Schemas :
            /\ k \in DOMAIN u /\ f \in DOMAIN u[k] /\ u[k][f] = t
            /\ \A m \in Schemas :
                /\ Includes(coll, m) /\ k \in DOMAIN m
                /\ f \in DOMAIN m[k] => AtMost(m[k][f], t)
                /\ f \notin DOMAIN m[k] => AdmitsNull(t)
                => Includes(u, m)
<1> DEFINE o == [g \in DOMAIN coll[k] |-> IF g = f THEN t ELSE coll[k][g]]
           u == [n \in DOMAIN coll |-> IF n = k THEN o ELSE coll[n]]
<1>1. /\ DOMAIN coll \subseteq Names
      /\ \A n \in DOMAIN coll : /\ coll[n] \in ObjectTypeSet /\ DOMAIN coll[n] \subseteq Names
                                 /\ \A g \in DOMAIN coll[n] : coll[n][g] \in Normal
  BY SchemaParts
<1>2. /\ o = [g \in DOMAIN o |-> o[g]] /\ DOMAIN o = DOMAIN coll[k]
      /\ o[f] = t /\ \A g \in DOMAIN o : g # f => o[g] = coll[k][g]
  OBVIOUS
<1> HIDE DEF o
<1>3. o \in ObjectTypeSet
  BY <1>1, <1>2, SchemaFormed
<1>4. /\ u = [n \in DOMAIN u |-> u[n]] /\ DOMAIN u = DOMAIN coll
      /\ u[k] = o /\ \A n \in DOMAIN u : n # k => u[n] = coll[n]
  OBVIOUS
<1> HIDE DEF u
<1>5. u \in Schemas
  BY <1>1, <1>3, <1>4, SchemaFormed
<1>6. t \in Type
  BY DEF Normal
<1>7. ASSUME NEW m \in Schemas, Includes(coll, m), k \in DOMAIN m,
             f \in DOMAIN m[k] => AtMost(m[k][f], t),
             f \notin DOMAIN m[k] => AdmitsNull(t)
      PROVE  Includes(u, m)
  <2>1. \A n \in DOMAIN m : n \in DOMAIN coll /\ Allows(coll[n], m[n])
    BY <1>7, TypesInclude
  <2>2. Allows(o, m[k])
    <3>1. ASSUME NEW g \in DOMAIN m[k] PROVE g \in DOMAIN o /\ AtMost(m[k][g], o[g])
      <4>1. g \in DOMAIN coll[k] /\ AtMost(m[k][g], coll[k][g])
        BY <1>7, <2>1 DEF Allows
      <4>2. CASE g = f
        BY <1>2, <1>7, <4>2
      <4>3. CASE g # f
        BY <1>2, <4>1, <4>3
      <4> QED
        BY <4>2, <4>3
    <3>2. ASSUME NEW g \in DOMAIN o, g \notin DOMAIN m[k] PROVE MakeNullable(o[g]) = o[g]
      <4>1. CASE g = f
        BY <1>2, <1>6, <1>7, <3>2, <4>1, MakesNullable
      <4>2. CASE g # f
        BY <1>2, <1>7, <2>1, <3>2, <4>2 DEF Allows
      <4> QED
        BY <4>1, <4>2
    <3> QED
      BY <3>1, <3>2 DEF Allows
  <2>3. \A n \in DOMAIN m : n \in DOMAIN u /\ Allows(u[n], m[n])
    BY <1>4, <2>1, <2>2
  <2> QED
    BY <1>5, <2>3, TypesInclude
<1> QED
  BY <1>2, <1>4, <1>5, <1>7

\* Without the option, the fields of what is made of a document are what is made of its fields.
LEMMA OwnFields ==
    ASSUME NEW name \in Names, NEW doc \in DocumentsOver(Value), NEW isCollectionType \in BOOLEAN,
           NEW allNullable \in BOOLEAN, ~allNullable, NEW made \in [DOMAIN doc -> Formed],
           NEW r, r = FieldsMade(made, name, doc, isCollectionType, allNullable)
    PROVE  /\ \A g : g \in DOMAIN r[name] <=> \E i \in DOMAIN doc : doc[i].name = g
           /\ \A i \in DOMAIN doc : r[name][doc[i].name] = made[i].type
BY ObjectTypesMade

\* What is made of a document has, for a field, at most any type that may hold what the
\* document has there.
LEMMA DocumentIsLeast ==
    ASSUME NEW types \in Schemas, NEW doc \in Documents, NEW f, NEW t \in Normal,
           Expected(t, CollectionTypeName \o f), AdmitsField(t, doc, f, types),
           NEW all \in BOOLEAN, ~all
    PROVE  LET own == MakeObjectType(doc, all)[CollectionTypeName]
           IN  /\ f \in DOMAIN own => AtMost(own[f], t)
               /\ f \notin DOMAIN own => AdmitsNull(t)
<1> DEFINE made == [i \in DOMAIN doc |-> MadeFieldType[FieldCall(CollectionTypeName, doc, i, all)]]
           v == <<"document", doc>>
           r == MakeObjectType(doc, all)
           own == r[CollectionTypeName]
<1>1. v \in Value /\ v[1] = "document" /\ v[2] = doc
  BY DocumentsAssumption
<1>2. doc \in DocumentsOver(Value) /\ \A i \in DOMAIN doc : doc[i].value \in Value
  <2> HIDE DEF v
  <2> QED
    BY <1>1, ValueShapes
<1>3. CollectionTypeName \in Names
  BY NameAssumption DEF Names
<1>4. ASSUME NEW i \in DOMAIN doc
      PROVE  /\ made[i] \in Formed
             /\ doc[i].name = f => AtMost(made[i].type, t)
  <2> DEFINE call == FieldCall(CollectionTypeName, doc, i, all)
             name == CollectionTypeName \o doc[i].name
  <2>1. name \in Seq(STRING)
    <3>1. doc[i].name \in Seq(STRING)
      BY <1>2, DocumentParts DEF Names
    <3> QED
      BY <3>1, NameAssumption
  <2>2. call = <<name, doc[i].value, all>>
    BY DEF FieldCall
  <2>3. doc[i].name = f => name = CollectionTypeName \o f
    OBVIOUS
  <2> HIDE DEF name
  <2>4. call \in Calls /\ call[1] = name /\ call[2] = doc[i].value
    BY <1>2, <2>1, <2>2 DEF Calls
  <2>5. made[i] = MadeFieldType[call]
    OBVIOUS
  <2>6. doc[i].name = f => HasType(doc[i].value, t, types)
    BY DEF AdmitsField
  <2> HIDE DEF call, made
  <2>7. made[i] \in Formed
    BY <2>4, <2>5, MadeDefined
  <2>8. ASSUME doc[i].name = f PROVE AtMost(made[i].type, t)
    <3>1. Expected(t, call[1]) /\ HasType(call[2], t, types)
      BY <2>3, <2>4, <2>6, <2>8
    <3> QED
      BY <2>4, <2>5, <3>1, MadeIsLeast
  <2> QED
    BY <2>7, <2>8
<1>5. r = FieldsMade(made, CollectionTypeName, doc, TRUE, all)
  BY ObjectTypeMade DEF MakeObjectType
<1>6. made \in [DOMAIN doc -> Formed]
  BY <1>4
<1> HIDE DEF made, r
<1>7. /\ \A g : g \in DOMAIN own <=> \E i \in DOMAIN doc : doc[i].name = g
      /\ \A i \in DOMAIN doc : own[doc[i].name] = made[i].type
  <2> DEFINE collects == TRUE
  <2>1. collects \in BOOLEAN /\ r = FieldsMade(made, CollectionTypeName, doc, collects, all)
    BY <1>5
  <2> HIDE DEF collects
  <2> QED
    BY <1>2, <1>3, <1>6, <2>1, OwnFields
<1> HIDE DEF own
<1>8. ASSUME f \in DOMAIN own PROVE AtMost(own[f], t)
  <2>1. PICK i \in DOMAIN doc : doc[i].name = f
    BY <1>7, <1>8
  <2> QED
    BY <1>4, <1>7, <2>1
<1>9. ASSUME f \notin DOMAIN own PROVE AdmitsNull(t)
  <2>1. \A j \in DOMAIN doc : doc[j].name # f
    BY <1>7, <1>9
  <2> QED
    BY <2>1 DEF AdmitsField
<1> QED
  BY <1>8, <1>9 DEF own, r

\* The type of a field is below every type of its own that may hold what was sampled there.
THEOREM AlwaysLeastFieldTypes == Spec => []LeastFieldTypes
<1>1. CollectedIsLeast => LeastFieldTypes
  <2> DEFINE k == CollectionTypeName
             coll == collectedTypes
             all == allSchemaNullable
             Made(d) == MakeObjectType(d, all)
  <2> SUFFICES ASSUME CollectedIsLeast, coll # <<>>, ~all, NEW f \in DOMAIN coll[k], NEW t \in CandidateTypes,
                      RefersToObject(t) => ObjectNameOf(t) = k \o f,
                      \A i \in DOMAIN sample : AdmitsField(t, sample[i], f, coll)
               PROVE  Below(coll[k][f], t)
    BY DEF LeastFieldTypes
  <2>1. /\ coll \in Schemas /\ all \in BOOLEAN /\ ~all /\ sample \in Seq(Documents)
        /\ IsLeast(coll, {Made(d) : d \in Sampled})
    BY DEF CollectedIsLeast
  <2>2. t \in Normal /\ Expected(t, k \o f)
    BY CandidatesAssumption DEF Normal, Expected
  <2>3. \A d \in Sampled : d \in Documents /\ AdmitsField(t, d, f, coll)
    BY <2>1 DEF Sampled
  <2>4. ASSUME NEW d \in Sampled
        PROVE  /\ Made(d) \in Schemas /\ k \in DOMAIN Made(d) /\ Includes(coll, Made(d))
               /\ f \in DOMAIN Made(d)[k] => AtMost(Made(d)[k][f], t)
               /\ f \notin DOMAIN Made(d)[k] => AdmitsNull(t)
    <3>1. Made(d) \in Schemas /\ k \in DOMAIN Made(d)
      BY <2>1, <2>3, DocumentTypes
    <3>2. Includes(coll, Made(d))
      BY <2>1 DEF IsLeast
    <3>3. Made(d) = MakeObjectType(d, all) /\ all \in BOOLEAN /\ ~all
      BY <2>1
    <3> HIDE DEF Made, coll, all
    <3>4. /\ f \in DOMAIN Made(d)[k] => AtMost(Made(d)[k][f], t)
          /\ f \notin DOMAIN Made(d)[k] => AdmitsNull(t)
      BY <2>1, <2>2, <2>3, <3>3, DocumentIsLeast
    <3> QED
      BY <3>1, <3>2, <3>4
  <2> HIDE DEF Made, coll, all
  <2>5. k \in DOMAIN coll
    <3>1. Sampled # {}
      <4> SUFFICES ASSUME Sampled = {} PROVE FALSE
        OBVIOUS
      <4>1. {Made(d) : d \in Sampled} = {}
        OBVIOUS
      <4>2. IsLeast(coll, {})
        BY <2>1, <4>1
      <4>3. IsLeast(<<>>, {})
        BY LeastGrows
      <4>4. coll = <<>>
        BY <4>2, <4>3, LeastIsUnique
      <4> QED
        BY <4>4
    <3>2. PICK d \in Sampled : TRUE
      BY <3>1
    <3>3. Made(d) \in Schemas /\ k \in DOMAIN Made(d) /\ Includes(coll, Made(d))
      BY <2>4
    <3> QED
      BY <2>1, <3>3, TypesInclude
  <2>6. PICK u \in Schemas :
            /\ k \in DOMAIN u /\ f \in DOMAIN u[k] /\ u[k][f] = t
            /\ \A m \in Schemas :
                /\ Includes(coll, m) /\ k \in DOMAIN m
                /\ f \in DOMAIN m[k] => AtMost(m[k][f], t)
                /\ f \notin DOMAIN m[k] => AdmitsNull(t)
                => Includes(u, m)
    BY <2>1, <2>2, <2>5, FieldReplaced
  <2>7. \A d \in Sampled : Includes(u, Made(d))
    BY <2>4, <2>6
  <2>8. Includes(u, coll)
    BY <2>1, <2>7 DEF IsLeast
  <2>9. AtMost(coll[k][f], u[k][f])
    BY <2>1, <2>5, <2>8, TypesInclude DEF Allows
  <2>10. coll[k][f] \in Normal
    BY <2>1, <2>5, SchemaParts
  <2>11. Below(coll[k][f], t)
    BY <2>2, <2>6, <2>9, <2>10, AtMostIsBelow
  <2> QED
    BY <2>11
<1> QED
  BY <1>1, AlwaysLeast, PTL

=============================================================================
