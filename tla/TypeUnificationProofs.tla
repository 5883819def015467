----------------------- MODULE TypeUnificationProofs -----------------------
(***************************************************************************)
(* The laws of unify_type, for all types: it is commutative, associative   *)
(* and idempotent up to normalization, with Undefined as its unit and      *)
(* ExtendedJSON as its zero.  These are what the repository tests with     *)
(* types chosen at random (type_unification.rs, mod test).                 *)
(*                                                                         *)
(* The functions are recursive.  Induction over types is here the choice   *)
(* of a smallest counterexample (Smallest), and that the recursive         *)
(* definitions define something at all is proved as well (Recursion).      *)
(***************************************************************************)
EXTENDS TypeUnification, WellFoundedInduction, TLAPS

------------------------------------------------------------------------------
\* Induction and recursion.

\* A set of numbers has a smallest element, unless it is empty.
LEMMA Smallest ==
    ASSUME NEW S \in SUBSET Nat, S # {}
    PROVE  \E n \in S : \A m \in S : n <= m
<1> DEFINE R == OpToRel(<, Nat)
<1>1. IsWellFoundedOn(R, Nat)
  BY NatLessThanWellFounded
<1>2. \A x, y \in Nat : y < x => <<y, x>> \in R
  BY DEF OpToRel
<1> HIDE DEF R
<1>3. PICK x \in S : \A y \in S : ~ (<<y, x>> \in R)
  BY <1>1, WFMin
<1>4. \A y \in S : ~(y < x)
  BY <1>2, <1>3
<1>5. \A y \in S : x <= y
  BY <1>4, S \subseteq Nat
<1> QED
  BY <1>5

\* A set that holds what it holds everything smaller than holds everything.
LEMMA SizeInduction ==
    ASSUME NEW D, NEW size \in [D -> Nat],
           NEW S, \A x \in D : (\A y \in D : size[y] < size[x] => y \in S) => x \in S
    PROVE  \A x \in D : x \in S
<1> SUFFICES ASSUME NEW z \in D, z \notin S PROVE FALSE
  OBVIOUS
<1> DEFINE Sizes == {n \in Nat : \E x \in D : x \notin S /\ size[x] = n}
<1>1. \A x \in D : size[x] \in Nat
  OBVIOUS
<1>2. Sizes \in SUBSET Nat /\ Sizes # {}
  BY <1>1
<1>3. PICK n \in Sizes : \A m \in Sizes : n <= m
  BY <1>2, Smallest
<1>4. PICK x \in D : x \notin S /\ size[x] = n
  BY <1>3
<1>5. PICK y \in D : size[y] < size[x] /\ y \notin S
  BY <1>4
<1>6. size[y] \in Sizes /\ size[y] \in Nat /\ n \in Nat /\ size[y] < n
  BY <1>1, <1>4, <1>5
<1> QED
  BY <1>3, <1>6

\* What step makes of a function, for an argument, depends on the function for smaller
\* arguments only.
Contracts(step, size, D, R) ==
    /\ R # {}
    /\ size \in [D -> Nat]
    /\ step \in [[D -> R] -> [D -> R]]
    /\ \A g, h \in [D -> R], x \in D :
            (\A y \in D : size[y] < size[x] => g[y] = h[y]) => step[g][x] = step[h][x]

\* Then there is a function that step leaves as it is.
LEMMA Recursion ==
    ASSUME NEW step, NEW size, NEW D, NEW R, Contracts(step, size, D, R)
    PROVE  \E g \in [D -> R] : step[g] = g
<1> USE DEF Contracts
<1> DEFINE Upto(n) == {g \in [D -> R] : \A x \in D : size[x] < n => step[g][x] = g[x]}
<1>0. \A x \in D : size[x] \in Nat
  OBVIOUS
<1>1. ASSUME NEW n \in Nat, NEW g \in Upto(n), NEW h \in Upto(n), NEW x \in D, size[x] < n
      PROVE  g[x] = h[x]
  <2> SUFFICES ASSUME g[x] # h[x] PROVE FALSE
    OBVIOUS
  <2> DEFINE Sizes == {k \in Nat : \E y \in D : size[y] = k /\ k < n /\ g[y] # h[y]}
  <2>1. Sizes \in SUBSET Nat /\ Sizes # {}
    BY <1>0, <1>1
  <2>2. PICK m \in Sizes : \A k \in Sizes : m <= k
    BY <2>1, Smallest
  <2>3. PICK y \in D : size[y] = m /\ m < n /\ g[y] # h[y]
    BY <2>2
  <2>4. m \in Nat
    BY <2>1
  <2>5. \A z \in D : size[z] < size[y] => g[z] = h[z]
    <3> SUFFICES ASSUME NEW z \in D, size[z] < size[y], g[z] # h[z] PROVE FALSE
      OBVIOUS
    <3>1. size[z] \in Nat /\ size[z] < m
      BY <1>0, <2>3
    <3>2. size[z] < n
      BY <3>1, <2>3, <2>4
    <3>3. size[z] \in Sizes
      BY <3>1, <3>2
    <3> QED
      BY <2>2, <2>4, <3>1, <3>3
  <2>6. g \in [D -> R] /\ h \in [D -> R]
    OBVIOUS
  <2>7. step[g][y] = step[h][y]
    BY <2>5, <2>6
  <2>8. step[g][y] = g[y] /\ step[h][y] = h[y]
    BY <2>3
  <2> QED
    BY <2>3, <2>7, <2>8
<1>2. ASSUME NEW n \in Nat PROVE Upto(n) # {}
  <2> DEFINE None == {k \in Nat : Upto(k) = {}}
  <2> SUFFICES ASSUME n \in None PROVE FALSE
    OBVIOUS
  <2>0. None \in SUBSET Nat /\ None # {}
    OBVIOUS
  <2>1. PICK m \in None : \A k \in None : m <= k
    <3> HIDE DEF None
    <3> QED
      BY <2>0, Smallest
  <2>2. m \in Nat /\ Upto(m) = {}
    BY <2>1
  <2>3. m # 0
    <3>1. PICK r : r \in R
      OBVIOUS
    <3>2. [x \in D |-> r] \in [D -> R]
      BY <3>1
    <3>3. \A x \in D : ~(size[x] < 0)
      BY <1>0
    <3>4. [x \in D |-> r] \in Upto(0)
      BY <3>2, <3>3
    <3> QED
      BY <2>2, <3>4
  <2>4. m - 1 \in Nat /\ m - 1 \notin None
    <3>1. m - 1 \in Nat /\ ~(m <= m - 1)
      BY <2>2, <2>3
    <3> QED
      BY <2>1, <3>1
  <2>5. PICK g \in Upto(m - 1) : TRUE
    BY <2>4
  <2>6. g \in [D -> R] /\ step[g] \in [D -> R] /\ \A x \in D : size[x] < m - 1 => step[g][x] = g[x]
    BY <2>5
  <2>7. ASSUME NEW x \in D, size[x] < m PROVE step[step[g]][x] = step[g][x]
    <3>1. \A y \in D : size[y] < size[x] => step[g][y] = g[y]
      <4> SUFFICES ASSUME NEW y \in D, size[y] < size[x] PROVE step[g][y] = g[y]
        OBVIOUS
      <4>1. size[y] < m - 1
        BY <1>0, <2>2, <2>7
      <4> QED
        BY <2>6, <4>1
    <3> QED
      BY <2>6, <3>1
  <2>8. step[g] \in Upto(m)
    BY <2>6, <2>7
  <2> QED
    BY <2>2, <2>8
<1> DEFINE At(x) == CHOOSE g : g \in Upto(size[x] + 1)
           f == [x \in D |-> At(x)[x]]
<1>3. ASSUME NEW x \in D PROVE At(x) \in Upto(size[x] + 1)
  <2>1. Upto(size[x] + 1) # {}
    BY <1>0, <1>2
  <2> HIDE DEF Upto
  <2> QED
    BY <2>1
<1>4. f \in [D -> R]
  <2>1. \A x \in D : At(x) \in [D -> R]
    BY <1>3
  <2> HIDE DEF At
  <2> QED
    BY <2>1
<1>5. ASSUME NEW x \in D PROVE step[f][x] = f[x]
  <2>1. At(x) \in [D -> R] /\ \A y \in D : size[y] < size[x] + 1 => step[At(x)][y] = At(x)[y]
    BY <1>3
  <2>2. size[x] \in Nat /\ size[x] < size[x] + 1
    BY <1>0
  <2>3. ASSUME NEW y \in D, size[y] < size[x] PROVE f[y] = At(x)[y]
    <3>1. size[y] \in Nat /\ size[y] + 1 \in Nat /\ size[y] < size[y] + 1
          /\ \A z \in D : size[z] < size[y] + 1 => size[z] < size[x] + 1
      BY <1>0, <2>3
    <3>2. At(x) \in Upto(size[y] + 1)
      <4> HIDE DEF At
      <4> QED
        BY <2>1, <3>1
    <3>3. At(y) \in Upto(size[y] + 1)
      BY <1>3
    <3> HIDE DEF Upto, At
    <3>4. At(x)[y] = At(y)[y]
      BY <1>1, <3>1, <3>2, <3>3
    <3> QED
      BY <3>4
  <2> HIDE DEF At
  <2>4. f[x] = At(x)[x]
    OBVIOUS
  <2> HIDE DEF f
  <2>5. step[f][x] = step[At(x)][x]
    BY <1>4, <2>1, <2>3
  <2> QED
    BY <2>1, <2>2, <2>4, <2>5
<1>6. step[f] \in [D -> R]
  BY <1>4
<1> HIDE DEF f
<1>7. step[f] = f
  BY <1>4, <1>5, <1>6
<1> QED
  BY <1>4, <1>7

------------------------------------------------------------------------------
\* What types are made of.

Depth(t) == Len(t.wrap)

\* A type that is given other wrappers.
LEMMA Rewrapped ==
    ASSUME NEW t, t = [wrap |-> t.wrap, base |-> t.base], NEW w
    PROVE  [t EXCEPT !.wrap = w] = [wrap |-> w, base |-> t.base]
<1> DEFINE u == t.wrap
           v == t.base
<1>1. t = [wrap |-> u, base |-> v]
  OBVIOUS
<1> HIDE DEF u, v
<1>2. [t EXCEPT !.wrap = w] = [wrap |-> w, base |-> v]
  BY <1>1
<1> QED
  BY <1>2 DEF v

\* A type under one more wrapper is a type, one deeper.
LEMMA Wrapped ==
    ASSUME NEW t \in Type
    PROVE  /\ Nullable(t) \in Type /\ ArrayOf(t) \in Type
           /\ Depth(t) \in Nat /\ Depth(Nullable(t)) = Depth(t) + 1 /\ Depth(ArrayOf(t)) = Depth(t) + 1
           /\ IsNullable(Nullable(t)) /\ ~IsNullable(ArrayOf(t))
           /\ IsArray(ArrayOf(t)) /\ ~IsArray(Nullable(t))
           /\ Underlying(Nullable(t)) = t /\ Underlying(ArrayOf(t)) = t
           /\ ~IsScalar(Nullable(t)) /\ ~IsNamed(Nullable(t)) /\ ~IsScalar(ArrayOf(t)) /\ ~IsNamed(ArrayOf(t))
<1>1. t = [wrap |-> t.wrap, base |-> t.base] /\ t.wrap \in Seq(Wrapper) /\ t.base \in Bases
  BY DEF Type
<1> DEFINE N == <<"nullable">> \o t.wrap
           A == <<"array">> \o t.wrap
<1>2. <<"nullable">> \in Seq(Wrapper) /\ <<"array">> \in Seq(Wrapper)
  BY DEF Wrapper
<1>3. /\ N \in Seq(Wrapper) /\ Len(N) = Len(t.wrap) + 1 /\ N # <<>> /\ Head(N) = "nullable" /\ Tail(N) = t.wrap
      /\ A \in Seq(Wrapper) /\ Len(A) = Len(t.wrap) + 1 /\ A # <<>> /\ Head(A) = "array" /\ Tail(A) = t.wrap
  BY <1>1, <1>2
<1>4. Nullable(t) = [wrap |-> N, base |-> t.base] /\ ArrayOf(t) = [wrap |-> A, base |-> t.base]
  <2>1. Nullable(t) = [t EXCEPT !.wrap = N] /\ ArrayOf(t) = [t EXCEPT !.wrap = A]
    BY DEF Nullable, ArrayOf
  <2> HIDE DEF N, A
  <2> QED
    BY <1>1, <2>1, Rewrapped
<1> HIDE DEF N, A
<1>5. /\ Nullable(t).wrap = N /\ ArrayOf(t).wrap = A
      /\ Nullable(t).base = t.base /\ ArrayOf(t).base = t.base
  BY <1>4
<1>6. [Nullable(t) EXCEPT !.wrap = t.wrap] = t /\ [ArrayOf(t) EXCEPT !.wrap = t.wrap] = t
  BY <1>1, <1>4, <1>5, Rewrapped
<1>7. Underlying(Nullable(t)) = t /\ Underlying(ArrayOf(t)) = t
  BY <1>3, <1>5, <1>6 DEF Underlying
<1>8. Nullable(t) \in Type /\ ArrayOf(t) \in Type
  BY <1>1, <1>3, <1>4 DEF Type
<1>9. /\ IsNullable(Nullable(t)) /\ ~IsNullable(ArrayOf(t))
      /\ IsArray(ArrayOf(t)) /\ ~IsArray(Nullable(t))
      /\ ~IsScalar(Nullable(t)) /\ ~IsNamed(Nullable(t)) /\ ~IsScalar(ArrayOf(t)) /\ ~IsNamed(ArrayOf(t))
  BY <1>3, <1>5 DEF IsNullable, IsArray, IsScalar, IsNamed
<1>10. Depth(t) \in Nat /\ Depth(Nullable(t)) = Depth(t) + 1 /\ Depth(ArrayOf(t)) = Depth(t) + 1
  BY <1>1, <1>3, <1>5 DEF Depth
<1> QED
  BY <1>7, <1>8, <1>9, <1>10

\* A type is nullable, an array, or has no wrapper; the type under a wrapper is less deep.
LEMMA Unwrapped ==
    ASSUME NEW t \in Type
    PROVE  /\ Depth(t) \in Nat
           /\ ~(IsNullable(t) /\ IsArray(t))
           /\ ~IsNullable(t) /\ ~IsArray(t) => t.wrap = <<>>
           /\ IsNullable(t) \/ IsArray(t) =>
                /\ Underlying(t) \in Type /\ Depth(Underlying(t)) < Depth(t)
                /\ ~IsScalar(t) /\ ~IsNamed(t)
           /\ IsNullable(t) => t = Nullable(Underlying(t))
           /\ IsArray(t) => t = ArrayOf(Underlying(t))
<1>1. t = [wrap |-> t.wrap, base |-> t.base] /\ t.wrap \in Seq(Wrapper) /\ t.base \in Bases
  BY DEF Type
<1>2. Len(t.wrap) \in Nat /\ (t.wrap # <<>> => Head(t.wrap) \in {"nullable", "array"})
  BY <1>1 DEF Wrapper
<1>3. ~(IsNullable(t) /\ IsArray(t)) /\ (~IsNullable(t) /\ ~IsArray(t) => t.wrap = <<>>)
  BY <1>2 DEF IsNullable, IsArray
<1>4. ASSUME t.wrap # <<>>
      PROVE  /\ Underlying(t) \in Type /\ Depth(Underlying(t)) < Depth(t)
             /\ t = [Underlying(t) EXCEPT !.wrap = <<Head(t.wrap)>> \o Underlying(t).wrap]
  <2>1. /\ Tail(t.wrap) \in Seq(Wrapper) /\ Len(Tail(t.wrap)) < Len(t.wrap)
        /\ t.wrap = <<Head(t.wrap)>> \o Tail(t.wrap)
    BY <1>1, <1>4
  <2> DEFINE tail == Tail(t.wrap)
             whole == <<Head(t.wrap)>> \o tail
  <2>2. Underlying(t) = [wrap |-> tail, base |-> t.base]
    <3>1. Underlying(t) = [t EXCEPT !.wrap = tail]
      BY DEF Underlying
    <3> HIDE DEF tail
    <3> QED
      BY <1>1, <3>1, Rewrapped
  <2>3. tail \in Seq(Wrapper) /\ Len(tail) < Len(t.wrap) /\ t.wrap = whole
    BY <2>1
  <2> HIDE DEF tail, whole
  <2>4. Underlying(t) \in Type /\ Underlying(t).wrap = tail
    BY <1>1, <2>2, <2>3 DEF Type
  <2>5. [Underlying(t) EXCEPT !.wrap = whole] = t
    <3>1. Underlying(t) = [wrap |-> Underlying(t).wrap, base |-> Underlying(t).base] /\ Underlying(t).base = t.base
      BY <2>2
    <3>2. [Underlying(t) EXCEPT !.wrap = whole] = [wrap |-> whole, base |-> t.base]
      BY <3>1, Rewrapped
    <3> QED
      BY <1>1, <2>3, <3>2
  <2> QED
    BY <2>3, <2>4, <2>5 DEF Depth, whole
<1> QED
  BY <1>2, <1>3, <1>4 DEF Depth, IsNullable, IsArray, IsScalar, IsNamed, Nullable, ArrayOf

\* The types without a wrapper, which differ from each other and from those with one.
LEMMA Unwrappable ==
    /\ ExtendedJSON \in Type /\ Undefined \in Type /\ NullType \in Type
    /\ \A s \in BsonScalarTypes : Scalar(s) \in Type /\ IsScalar(Scalar(s)) /\ Scalar(s).base[2] = s
    /\ \A t \in Type : IsScalar(t) => t.base[2] \in BsonScalarTypes /\ t = Scalar(t.base[2])
    /\ IsScalar(Undefined) /\ IsScalar(NullType) /\ Undefined # NullType
    /\ Undefined.base[2] = "undefined" /\ NullType.base[2] = "null"
    /\ ~IsScalar(ExtendedJSON) /\ ~IsNamed(ExtendedJSON)
    /\ \A t \in {ExtendedJSON, Undefined, NullType} : ~IsNullable(t) /\ ~IsArray(t)
    /\ \A t : ~(IsScalar(t) /\ IsNamed(t))
    /\ \A t \in Type : t.wrap = <<>> => IsScalar(t) \/ IsNamed(t) \/ t = ExtendedJSON
<1>1. <<>> \in Seq(Wrapper)
  OBVIOUS
<1>2. \A s \in BsonScalarTypes : Scalar(s) \in Type
  BY <1>1 DEF Scalar, Type, Bases
<1>3. ExtendedJSON \in Type
  BY <1>1 DEF ExtendedJSON, Type, Bases
<1>4. ASSUME NEW t \in Type, IsScalar(t) PROVE t.base[2] \in BsonScalarTypes /\ t = Scalar(t.base[2])
  <2>1. t = [wrap |-> <<>>, base |-> t.base] /\ t.base \in Bases /\ t.base[1] = "scalar"
    BY <1>4 DEF Type, IsScalar
  <2>2. t.base \in {"scalar"} \X BsonScalarTypes
    <3>1. ExtendedJSON.base[1] = "ejson"
      BY DEF ExtendedJSON
    <3>2. \A b \in {"object", "predicate"} \X Seq(STRING) : b[1] \in {"object", "predicate"}
      OBVIOUS
    <3> QED
      BY <2>1, <3>1, <3>2 DEF Bases
  <2>3. t.base = <<"scalar", t.base[2]>> /\ t.base[2] \in BsonScalarTypes
    BY <2>2
  <2> QED
    BY <2>1, <2>3 DEF Scalar
<1>5. ASSUME NEW t \in Type, t.wrap = <<>> PROVE IsScalar(t) \/ IsNamed(t) \/ t = ExtendedJSON
  <2>1. t = [wrap |-> <<>>, base |-> t.base] /\ t.base \in Bases
    BY <1>5 DEF Type
  <2>2. t.base[1] \in {"scalar", "object", "predicate"} \/ t.base = ExtendedJSON.base
    BY <2>1 DEF Bases
  <2> QED
    BY <1>5, <2>1, <2>2 DEF IsScalar, IsNamed, ExtendedJSON
<1>6. \A s \in BsonScalarTypes : IsScalar(Scalar(s)) /\ Scalar(s).base[2] = s
  BY DEF Scalar, IsScalar
<1>7. /\ Undefined = Scalar("undefined") /\ NullType = Scalar("null")
      /\ Undefined.base[2] = "undefined" /\ NullType.base[2] = "null"
  <2>1. "undefined" \in BsonScalarTypes /\ "null" \in BsonScalarTypes
    BY DEF BsonScalarTypes
  <2> QED
    BY <1>6, <2>1 DEF Undefined, NullType
<1>8. Undefined # NullType
  BY <1>7
<1>9. ~IsScalar(ExtendedJSON) /\ ~IsNamed(ExtendedJSON)
  BY DEF ExtendedJSON, IsScalar, IsNamed
<1>10. \A t \in {ExtendedJSON, Undefined, NullType} : ~IsNullable(t) /\ ~IsArray(t)
  <2>1. ExtendedJSON.wrap = <<>> /\ Undefined.wrap = <<>> /\ NullType.wrap = <<>>
    BY DEF ExtendedJSON, Undefined, NullType, Scalar
  <2> QED
    BY <2>1 DEF IsNullable, IsArray
<1>11. \A t : ~(IsScalar(t) /\ IsNamed(t))
  BY DEF IsScalar, IsNamed
<1>12. Undefined \in Type /\ NullType \in Type /\ IsScalar(Undefined) /\ IsScalar(NullType)
  <2>1. "undefined" \in BsonScalarTypes /\ "null" \in BsonScalarTypes
    BY DEF BsonScalarTypes
  <2> QED
    BY <1>2, <1>6, <1>7, <2>1
<1> QED
  BY <1>2, <1>3, <1>4, <1>5, <1>6, <1>7, <1>8, <1>9, <1>10, <1>11, <1>12

\* A set that holds each type if it holds all that are less deep holds all types.
LEMMA TypeInduction ==
    ASSUME NEW S, \A t \in Type : (\A u \in Type : Depth(u) < Depth(t) => u \in S) => t \in S
    PROVE  \A t \in Type : t \in S
<1> DEFINE size == [t \in Type |-> Depth(t)]
<1>1. size \in [Type -> Nat]
  BY Unwrapped
<1>2. \A t \in Type : (\A u \in Type : size[u] < size[t] => u \in S) => t \in S
  OBVIOUS
<1> HIDE DEF size
<1> QED
  BY <1>1, <1>2, SizeInduction

\* The same for pairs, by what both are deep together.
LEMMA PairInduction ==
    ASSUME NEW S, \A a, b \in Type :
                (\A c, d \in Type : Depth(c) + Depth(d) < Depth(a) + Depth(b) => <<c, d>> \in S) => <<a, b>> \in S
    PROVE  \A a, b \in Type : <<a, b>> \in S
<1> DEFINE D == Type \X Type
           size == [x \in D |-> Depth(x[1]) + Depth(x[2])]
<1>0. \A t \in Type : Depth(t) \in Nat
  BY Unwrapped
<1>1. size \in [D -> Nat]
  BY <1>0
<1>2. \A x \in D : (\A y \in D : size[y] < size[x] => y \in S) => x \in S
  <2> SUFFICES ASSUME NEW a \in Type, NEW b \in Type, \A y \in D : size[y] < size[<<a, b>>] => y \in S
               PROVE  <<a, b>> \in S
    OBVIOUS
  <2>1. \A c, d \in Type : Depth(c) + Depth(d) < Depth(a) + Depth(b) => <<c, d>> \in S
    OBVIOUS
  <2> QED
    BY <2>1
<1>3. \A x \in D : x \in S
  <2> HIDE DEF size, D
  <2> QED
    BY <1>1, <1>2, SizeInduction
<1> QED
  BY <1>3

\* The same for three types.
LEMMA TripleInduction ==
    ASSUME NEW S, \A a, b, c \in Type :
                (\A d, e, f \in Type :
                    Depth(d) + Depth(e) + Depth(f) < Depth(a) + Depth(b) + Depth(c) => <<d, e, f>> \in S)
                => <<a, b, c>> \in S
    PROVE  \A a, b, c \in Type : <<a, b, c>> \in S
<1> DEFINE D == Type \X Type \X Type
           size == [x \in D |-> Depth(x[1]) + Depth(x[2]) + Depth(x[3])]
<1>0. \A t \in Type : Depth(t) \in Nat
  BY Unwrapped
<1>1. size \in [D -> Nat]
  BY <1>0
<1>t. ASSUME NEW a \in Type, NEW b \in Type, NEW c \in Type
      PROVE  <<a, b, c>> \in D /\ size[<<a, b, c>>] = Depth(a) + Depth(b) + Depth(c)
  OBVIOUS
<1>2. \A x \in D : (\A y \in D : size[y] < size[x] => y \in S) => x \in S
  <2> SUFFICES ASSUME NEW a \in Type, NEW b \in Type, NEW c \in Type,
                      \A y \in D : size[y] < size[<<a, b, c>>] => y \in S
               PROVE  <<a, b, c>> \in S
    OBVIOUS
  <2>1. \A d, e, f \in Type :
            Depth(d) + Depth(e) + Depth(f) < Depth(a) + Depth(b) + Depth(c) => <<d, e, f>> \in S
    <3> HIDE DEF size, D
    <3> QED
      BY <1>t
  <2> QED
    BY <2>1
<1>3. \A x \in D : x \in S
  <2> HIDE DEF size, D
  <2> QED
    BY <1>1, <1>2, SizeInduction
<1> QED
  <2> SUFFICES ASSUME NEW a \in Type, NEW b \in Type, NEW c \in Type PROVE <<a, b, c>> \in S
    OBVIOUS
  <2>1. <<a, b, c>> \in D
    BY <1>t
  <2> HIDE DEF D
  <2> QED
    BY <1>3, <2>1

------------------------------------------------------------------------------
\* Normalization.

\* What Normalized is, given what it is for less deep types
NormalizeStep(g, t) ==
    IF IsArray(t) THEN ArrayOf(g[Underlying(t)])
    ELSE IF ~IsNullable(t) THEN t
    ELSE LET inner == Underlying(t)
         IN  IF inner \in {ExtendedJSON, NullType} THEN inner
             ELSE IF IsNullable(inner) THEN g[inner]
             ELSE Nullable(g[inner])

\* The recursive definition defines a function on types.
LEMMA NormalizedDefined ==
    Normalized \in [Type -> Type] /\ \A t \in Type : Normalized[t] = NormalizeStep(Normalized, t)
<1> DEFINE size == [t \in Type |-> Depth(t)]
           step == [g \in [Type -> Type] |-> [t \in Type |-> NormalizeStep(g, t)]]
<1>1. ASSUME NEW g \in [Type -> Type], NEW t \in Type PROVE NormalizeStep(g, t) \in Type
  <2>1. IsNullable(t) \/ IsArray(t) => Underlying(t) \in Type /\ g[Underlying(t)] \in Type
    BY Unwrapped
  <2> QED
    BY <2>1, Wrapped DEF NormalizeStep
<1>2. size \in [Type -> Nat]
  BY Unwrapped
<1>3. step \in [[Type -> Type] -> [Type -> Type]]
  BY <1>1
<1>4. \A g, h \in [Type -> Type], t \in Type :
        (\A u \in Type : size[u] < size[t] => g[u] = h[u]) => step[g][t] = step[h][t]
  <2> SUFFICES ASSUME NEW g \in [Type -> Type], NEW h \in [Type -> Type], NEW t \in Type,
                      \A u \in Type : size[u] < size[t] => g[u] = h[u]
               PROVE  step[g][t] = step[h][t]
    OBVIOUS
  <2>1. \A u \in Type : Depth(u) < Depth(t) => g[u] = h[u]
    OBVIOUS
  <2>2. IsNullable(t) \/ IsArray(t) => g[Underlying(t)] = h[Underlying(t)]
    BY <2>1, Unwrapped
  <2>3. NormalizeStep(g, t) = NormalizeStep(h, t)
    BY <2>2 DEF NormalizeStep
  <2> QED
    BY <2>3
<1>5. Type # {}
  BY Unwrappable
<1> HIDE DEF size
<1>6. PICK g \in [Type -> Type] : step[g] = g
  <2> HIDE DEF step
  <2>1. Contracts(step, size, Type, Type)
    BY <1>2, <1>3, <1>4, <1>5 DEF Contracts
  <2> QED
    BY <2>1, Recursion
<1>7. g = [t \in Type |-> NormalizeStep(g, t)]
  BY <1>6
<1>8. Normalized = [t \in Type |-> NormalizeStep(Normalized, t)]
  BY <1>7 DEF Normalized, NormalizeStep
<1>9. \A t \in Type : Normalized[t] = NormalizeStep(Normalized, t)
  BY <1>8
<1>10. \A t \in Type : t \in {u \in Type : Normalized[u] \in Type}
  <2>1. ASSUME NEW t \in Type, \A u \in Type : Depth(u) < Depth(t) => Normalized[u] \in Type
        PROVE  Normalized[t] \in Type
    <3>1. IsNullable(t) \/ IsArray(t) => Underlying(t) \in Type /\ Normalized[Underlying(t)] \in Type
      BY <2>1, Unwrapped
    <3>2. NormalizeStep(Normalized, t) \in Type
      BY <3>1, Wrapped DEF NormalizeStep
    <3> QED
      BY <1>9, <3>2
  <2>2. \A t \in Type : (\A u \in Type : Depth(u) < Depth(t) => u \in {v \in Type : Normalized[v] \in Type})
                        => t \in {v \in Type : Normalized[v] \in Type}
    BY <2>1
  <2> QED
    BY <2>2, TypeInduction
<1> QED
  BY <1>8, <1>9, <1>10

LEMMA MakesNullable ==
    ASSUME NEW t \in Type
    PROVE  /\ MakeNullable(t) \in Type /\ AdmitsNull(MakeNullable(t))
           /\ AdmitsNull(t) => MakeNullable(t) = t
           /\ ~AdmitsNull(t) => MakeNullable(t) = Nullable(t)
           /\ MakeNullable(MakeNullable(t)) = MakeNullable(t)
           /\ AdmitsNull(Nullable(t)) /\ ~AdmitsNull(ArrayOf(t)) /\ ~AdmitsNull(Undefined)
BY Wrapped, Unwrappable DEF MakeNullable, AdmitsNull

\* Normalization by the shape of a type.
LEMMA NormalizeShapes ==
    ASSUME NEW t \in Type
    PROVE  /\ NormalizeType(t) \in Type
           /\ ~IsNullable(t) /\ ~IsArray(t) => NormalizeType(t) = t
           /\ NormalizeType(ArrayOf(t)) = ArrayOf(NormalizeType(t))
           /\ t \in {ExtendedJSON, NullType} => NormalizeType(Nullable(t)) = t
           /\ IsNullable(t) => NormalizeType(Nullable(t)) = NormalizeType(t)
           /\ ~AdmitsNull(t) => NormalizeType(Nullable(t)) = Nullable(NormalizeType(t))
<1>1. NormalizeType(t) \in Type
  BY NormalizedDefined DEF NormalizeType
<1>2. ~IsNullable(t) /\ ~IsArray(t) => NormalizeType(t) = t
  BY NormalizedDefined DEF NormalizeType, NormalizeStep
<1>3. NormalizeType(ArrayOf(t)) = ArrayOf(NormalizeType(t))
  <2>1. NormalizeType(ArrayOf(t)) = NormalizeStep(Normalized, ArrayOf(t))
    BY NormalizedDefined, Wrapped DEF NormalizeType
  <2> QED
    BY <2>1, Wrapped DEF NormalizeType, NormalizeStep
<1>4. NormalizeType(Nullable(t)) = IF t \in {ExtendedJSON, NullType} THEN t
                                   ELSE IF IsNullable(t) THEN NormalizeType(t) ELSE Nullable(NormalizeType(t))
  <2>1. NormalizeType(Nullable(t)) = NormalizeStep(Normalized, Nullable(t))
    BY NormalizedDefined, Wrapped DEF NormalizeType
  <2> QED
    BY <2>1, Wrapped DEF NormalizeType, NormalizeStep
<1> QED
  BY <1>1, <1>2, <1>3, <1>4, Unwrappable DEF AdmitsNull

\* Normalization keeps whether a type admits null, and does not deepen it.
LEMMA NormalizeKeeps ==
    \A t \in Type : /\ AdmitsNull(NormalizeType(t)) <=> AdmitsNull(t)
                    /\ Depth(NormalizeType(t)) <= Depth(t)
                    /\ ~IsNullable(t) => ~IsNullable(NormalizeType(t))
<1> DEFINE Kept(t) == /\ AdmitsNull(NormalizeType(t)) <=> AdmitsNull(t)
                      /\ Depth(NormalizeType(t)) <= Depth(t)
                      /\ ~IsNullable(t) => ~IsNullable(NormalizeType(t))
           S == {t \in Type : Kept(t)}
<1>1. ASSUME NEW t \in Type, \A u \in Type : Depth(u) < Depth(t) => Kept(u)
      PROVE  Kept(t)
  <2>1. CASE ~IsNullable(t) /\ ~IsArray(t)
    BY <2>1, NormalizeShapes, Unwrapped
  <2>2. CASE IsArray(t)
    <3>1. PICK u \in Type : t = ArrayOf(u) /\ Depth(u) < Depth(t) /\ Depth(t) = Depth(u) + 1
      BY <2>2, Unwrapped, Wrapped
    <3>2. NormalizeType(t) = ArrayOf(NormalizeType(u)) /\ NormalizeType(u) \in Type
      BY <3>1, NormalizeShapes
    <3>3. Depth(NormalizeType(u)) <= Depth(u) /\ Depth(u) \in Nat /\ Depth(NormalizeType(u)) \in Nat
      BY <1>1, <3>1, <3>2, Wrapped
    <3>4. Depth(NormalizeType(t)) = Depth(NormalizeType(u)) + 1
      BY <3>2, Wrapped
    <3> QED
      BY <3>1, <3>2, <3>3, <3>4, Wrapped, MakesNullable
  <2>3. CASE IsNullable(t)
    <3>1. PICK u \in Type : t = Nullable(u) /\ Depth(u) < Depth(t) /\ Depth(t) = Depth(u) + 1
      BY <2>3, Unwrapped, Wrapped
    <3>2. NormalizeType(u) \in Type /\ Depth(u) \in Nat /\ Depth(NormalizeType(u)) \in Nat
      BY <3>1, NormalizeShapes, Wrapped
    <3>3. Kept(u)
      BY <1>1, <3>1
    <3>4. CASE u \in {ExtendedJSON, NullType}
      BY <2>3, <3>1, <3>2, <3>4, NormalizeShapes DEF AdmitsNull
    <3>5. CASE IsNullable(u)
      BY <2>3, <3>1, <3>2, <3>3, <3>5, NormalizeShapes DEF AdmitsNull
    <3>6. CASE ~AdmitsNull(u)
      <4>1. NormalizeType(t) = Nullable(NormalizeType(u))
        BY <3>1, <3>6, NormalizeShapes
      <4>2. Depth(NormalizeType(t)) = Depth(NormalizeType(u)) + 1 /\ AdmitsNull(NormalizeType(t))
        BY <3>2, <4>1, Wrapped, MakesNullable
      <4> QED
        BY <2>3, <3>1, <3>2, <3>3, <4>2 DEF AdmitsNull
    <3> QED
      BY <3>4, <3>5, <3>6 DEF AdmitsNull
  <2> QED
    BY <2>1, <2>2, <2>3
<1>2. \A t \in Type : (\A u \in Type : Depth(u) < Depth(t) => u \in S) => t \in S
  BY <1>1
<1>3. \A t \in Type : t \in S
  <2> HIDE DEF S
  <2> QED
    BY <1>2, TypeInduction
<1> QED
  BY <1>3

\* Normalizing a nullable type makes the normalized type nullable.
LEMMA NormalizeNullable ==
    ASSUME NEW t \in Type
    PROVE  /\ NormalizeType(Nullable(t)) = MakeNullable(NormalizeType(t))
           /\ NormalizeType(MakeNullable(t)) = MakeNullable(NormalizeType(t))
<1>1. NormalizeType(t) \in Type /\ (AdmitsNull(NormalizeType(t)) <=> AdmitsNull(t))
  BY NormalizeShapes, NormalizeKeeps
<1>2. t \in {ExtendedJSON, NullType} => NormalizeType(t) = t
  BY NormalizeShapes, Unwrappable
<1>3. NormalizeType(Nullable(t)) = MakeNullable(NormalizeType(t))
  BY <1>1, <1>2, NormalizeShapes, MakesNullable DEF AdmitsNull
<1> QED
  BY <1>1, <1>3, MakesNullable

Normal == {t \in Type : NormalizeType(t) = t}

\* Normalized types are normal, and what they are made of is normal.
LEMMA NormalizeIsNormal == \A t \in Type : NormalizeType(t) \in Normal
<1> DEFINE S == {t \in Type : NormalizeType(t) \in Normal}
<1>0. ASSUME NEW x \in Normal PROVE MakeNullable(x) \in Normal
  BY NormalizeNullable, MakesNullable DEF Normal
<1>1. ASSUME NEW t \in Type, \A u \in Type : Depth(u) < Depth(t) => NormalizeType(u) \in Normal
      PROVE  NormalizeType(t) \in Normal
  <2>1. CASE ~IsNullable(t) /\ ~IsArray(t)
    BY <2>1, NormalizeShapes DEF Normal
  <2>2. CASE IsArray(t)
    <3>1. PICK u \in Type : t = ArrayOf(u) /\ Depth(u) < Depth(t)
      BY <2>2, Unwrapped
    <3>2. NormalizeType(u) \in Normal
      BY <1>1, <3>1
    <3> QED
      BY <3>1, <3>2, NormalizeShapes, Wrapped DEF Normal
  <2>3. CASE IsNullable(t)
    <3>1. PICK u \in Type : t = Nullable(u) /\ Depth(u) < Depth(t)
      BY <2>3, Unwrapped
    <3> QED
      BY <1>0, <1>1, <3>1, NormalizeNullable
  <2> QED
    BY <2>1, <2>2, <2>3
<1>2. \A t \in Type : (\A u \in Type : Depth(u) < Depth(t) => u \in S) => t \in S
  BY <1>1
<1>3. \A t \in Type : t \in S
  <2> HIDE DEF S
  <2> QED
    BY <1>2, TypeInduction
<1> QED
  BY <1>3

LEMMA NormalParts ==
    ASSUME NEW t \in Normal
    PROVE  /\ t \in Type /\ MakeNullable(t) \in Normal /\ ArrayOf(t) \in Normal
           /\ IsArray(t) => Underlying(t) \in Normal
           /\ IsNullable(t) => Underlying(t) \in Normal /\ ~AdmitsNull(Underlying(t))
<1>1. t \in Type /\ NormalizeType(t) = t
  BY DEF Normal
<1>2. MakeNullable(t) \in Normal /\ ArrayOf(t) \in Normal
  BY <1>1, NormalizeNullable, NormalizeShapes, MakesNullable, Wrapped DEF Normal
<1>3. ASSUME IsArray(t) PROVE Underlying(t) \in Normal
  <2>1. PICK u \in Type : t = ArrayOf(u)
    BY <1>1, <1>3, Unwrapped
  <2>2. ArrayOf(NormalizeType(u)) = ArrayOf(u) /\ NormalizeType(u) \in Type
    BY <1>1, <2>1, NormalizeShapes
  <2>3. NormalizeType(u) = u /\ Underlying(t) = u
    BY <2>1, <2>2, Wrapped
  <2> QED
    BY <2>3 DEF Normal
<1>4. ASSUME IsNullable(t) PROVE Underlying(t) \in Normal /\ ~AdmitsNull(Underlying(t))
  <2>1. PICK u \in Type : t = Nullable(u) /\ Underlying(t) = u
    BY <1>1, <1>4, Unwrapped
  <2> DEFINE x == NormalizeType(u)
  <2>2. x \in Type /\ MakeNullable(x) = t /\ Depth(x) <= Depth(u) /\ (AdmitsNull(x) <=> AdmitsNull(u))
    BY <1>1, <2>1, NormalizeNullable, NormalizeShapes, NormalizeKeeps
  <2>3. Depth(x) \in Nat /\ Depth(u) \in Nat /\ Depth(t) = Depth(u) + 1
    BY <2>1, <2>2, Wrapped
  <2> HIDE DEF x
  <2>4. ~AdmitsNull(x)
    <3> SUFFICES ASSUME AdmitsNull(x) PROVE FALSE
      OBVIOUS
    <3>1. x = t
      BY <2>2, MakesNullable
    <3> QED
      BY <2>2, <2>3, <3>1
  <2>5. Nullable(x) = Nullable(u)
    BY <2>1, <2>2, <2>4, MakesNullable
  <2>6. x = u
    BY <2>2, <2>5, Wrapped
  <2> QED
    BY <2>1, <2>2, <2>4, <2>6 DEF Normal, x
<1> QED
  BY <1>1, <1>2, <1>3, <1>4

------------------------------------------------------------------------------
\* Unification.

\* The type that stands for two scalar types
UnifyScalars(a, b) ==
    LET super == CommonSupertypes(a.base[2], b.base[2])
    IN  IF super = {} THEN ExtendedJSON ELSE Scalar(CHOOSE s \in super : TRUE)

\* The match of unify_type, given what it is for types that are less deep together
Matched(g, a, b) ==
    IF ExtendedJSON \in {a, b} THEN ExtendedJSON
    ELSE IF a = Undefined THEN b
    ELSE IF b = Undefined THEN a
    ELSE IF IsNullable(a) THEN MakeNullable(g[<<Underlying(a), b>>])
    ELSE IF IsNullable(b) THEN MakeNullable(g[<<a, Underlying(b)>>])
    ELSE IF a = NullType THEN MakeNullable(b)
    ELSE IF b = NullType THEN MakeNullable(a)
    ELSE IF IsScalar(a) /\ IsScalar(b) THEN UnifyScalars(a, b)
    ELSE IF IsNamed(a) /\ a = b THEN a
    ELSE IF IsArray(a) /\ IsArray(b) THEN ArrayOf(g[<<Underlying(a), Underlying(b)>>])
    ELSE ExtendedJSON

\* Two scalar types have one of them, the supertype of both, or ExtendedJSON in common.
LEMMA ScalarsUnify ==
    ASSUME NEW a \in Type, NEW b \in Type, IsScalar(a), IsScalar(b)
    PROVE  /\ UnifyScalars(a, b) \in Type
           /\ UnifyScalars(a, b) =
                IF a = b THEN a
                ELSE IF {a.base[2], b.base[2]} \subseteq Binary THEN Scalar("binData")
                ELSE IF {a.base[2], b.base[2]} = {"double", "int"} THEN Scalar("double")
                ELSE ExtendedJSON
<1> DEFINE p == a.base[2]
           q == b.base[2]
<1>1. p \in BsonScalarTypes /\ q \in BsonScalarTypes /\ a = Scalar(p) /\ b = Scalar(q)
  BY Unwrappable
<1>2. \A x : {x} # {} /\ (CHOOSE s \in {x} : TRUE) = x
  OBVIOUS
<1>3. UnifyScalars(a, b) =
        IF CommonSupertypes(p, q) = {} THEN ExtendedJSON ELSE Scalar(CHOOSE s \in CommonSupertypes(p, q) : TRUE)
  BY DEF UnifyScalars
<1>4. (p = q) <=> (a = b)
  BY <1>1
<1> HIDE DEF p, q
<1>5. UnifyScalars(a, b) =
                IF a = b THEN a
                ELSE IF {p, q} \subseteq Binary THEN Scalar("binData")
                ELSE IF {p, q} = {"double", "int"} THEN Scalar("double")
                ELSE ExtendedJSON
  BY <1>1, <1>2, <1>3, <1>4, Zenon DEF CommonSupertypes
<1>6. "binData" \in BsonScalarTypes /\ "double" \in BsonScalarTypes
  BY DEF BsonScalarTypes
<1>7. UnifyScalars(a, b) \in Type
  BY <1>5, <1>6, Unwrappable
<1> QED
  BY <1>5, <1>7 DEF p, q

\* The match makes types of types.
LEMMA MatchedIsType ==
    ASSUME NEW g, NEW a \in Type, NEW b \in Type,
           IsNullable(a) => g[<<Underlying(a), b>>] \in Type,
           IsNullable(b) => g[<<a, Underlying(b)>>] \in Type,
           IsArray(a) /\ IsArray(b) => g[<<Underlying(a), Underlying(b)>>] \in Type
    PROVE  Matched(g, a, b) \in Type
BY Unwrappable, Wrapped, MakesNullable, ScalarsUnify DEF Matched

\* The recursive definition defines a function on pairs of types.
LEMMA UnifiedDefined ==
    /\ Unified \in [Type \X Type -> Type]
    /\ \A a, b \in Type : Unified[<<a, b>>] = NormalizeType(Matched(Unified, a, b))
<1> DEFINE D == Type \X Type
           size == [x \in D |-> Depth(x[1]) + Depth(x[2])]
           step == [g \in [D -> Type] |-> [x \in D |-> NormalizeType(Matched(g, x[1], x[2]))]]
<1>1. ASSUME NEW g, NEW a \in Type, NEW b \in Type,
             IsNullable(a) => g[<<Underlying(a), b>>] \in Type,
             IsNullable(b) => g[<<a, Underlying(b)>>] \in Type,
             IsArray(a) /\ IsArray(b) => g[<<Underlying(a), Underlying(b)>>] \in Type
      PROVE  NormalizeType(Matched(g, a, b)) \in Type
  <2>1. Matched(g, a, b) \in Type
    BY <1>1, MatchedIsType
  <2> QED
    BY <2>1, NormalizeShapes
<1>2. \A a, b \in Type :
        /\ <<a, b>> \in D /\ size[<<a, b>>] = Depth(a) + Depth(b)
        /\ IsNullable(a) => <<Underlying(a), b>> \in D /\ size[<<Underlying(a), b>>] < size[<<a, b>>]
        /\ IsNullable(b) => <<a, Underlying(b)>> \in D /\ size[<<a, Underlying(b)>>] < size[<<a, b>>]
        /\ IsArray(a) /\ IsArray(b) =>
             <<Underlying(a), Underlying(b)>> \in D /\ size[<<Underlying(a), Underlying(b)>>] < size[<<a, b>>]
  <2> SUFFICES ASSUME NEW a \in Type, NEW b \in Type
               PROVE  /\ <<a, b>> \in D /\ size[<<a, b>>] = Depth(a) + Depth(b)
                      /\ IsNullable(a) => <<Underlying(a), b>> \in D /\ size[<<Underlying(a), b>>] < size[<<a, b>>]
                      /\ IsNullable(b) => <<a, Underlying(b)>> \in D /\ size[<<a, Underlying(b)>>] < size[<<a, b>>]
                      /\ IsArray(a) /\ IsArray(b) =>
                            /\ <<Underlying(a), Underlying(b)>> \in D
                            /\ size[<<Underlying(a), Underlying(b)>>] < size[<<a, b>>]
    OBVIOUS
  <2>1. \A c, d \in Type : <<c, d>> \in D /\ size[<<c, d>>] = Depth(c) + Depth(d)
    OBVIOUS
  <2>2. \A c \in Type : Depth(c) \in Nat
    BY Unwrapped
  <2>3. /\ IsNullable(a) \/ IsArray(a) => Underlying(a) \in Type /\ Depth(Underlying(a)) < Depth(a)
        /\ IsNullable(b) \/ IsArray(b) => Underlying(b) \in Type /\ Depth(Underlying(b)) < Depth(b)
    BY Unwrapped
  <2> HIDE DEF D, size
  <2> QED
    BY <2>1, <2>2, <2>3
<1>3. size \in [D -> Nat]
  BY Unwrapped
<1>4. step \in [[D -> Type] -> [D -> Type]]
  <2>1. \A g \in [D -> Type], a, b \in Type : NormalizeType(Matched(g, a, b)) \in Type
    <3> HIDE DEF size, D
    <3> QED
      BY <1>1, <1>2
  <2> QED
    BY <2>1
<1>5. \A g, h \in [D -> Type], x \in D :
        (\A y \in D : size[y] < size[x] => g[y] = h[y]) => step[g][x] = step[h][x]
  <2> SUFFICES ASSUME NEW g \in [D -> Type], NEW h \in [D -> Type], NEW x \in D,
                      \A y \in D : size[y] < size[x] => g[y] = h[y]
               PROVE  step[g][x] = step[h][x]
    OBVIOUS
  <2>0. PICK a \in Type, b \in Type : x = <<a, b>>
    OBVIOUS
  <2>1. /\ IsNullable(a) => g[<<Underlying(a), b>>] = h[<<Underlying(a), b>>]
        /\ IsNullable(b) => g[<<a, Underlying(b)>>] = h[<<a, Underlying(b)>>]
        /\ IsArray(a) /\ IsArray(b) => g[<<Underlying(a), Underlying(b)>>] = h[<<Underlying(a), Underlying(b)>>]
    <3> HIDE DEF size, D
    <3> QED
      BY <1>2, <2>0
  <2>2. Matched(g, a, b) = Matched(h, a, b)
    BY <2>1 DEF Matched
  <2>3. step[g][<<a, b>>] = NormalizeType(Matched(g, a, b)) /\ step[h][<<a, b>>] = NormalizeType(Matched(h, a, b))
    OBVIOUS
  <2> QED
    BY <2>0, <2>2, <2>3
<1>6. PICK g \in [D -> Type] : step[g] = g
  <2> HIDE DEF step, size, D
  <2>1. Contracts(step, size, D, Type)
    BY <1>3, <1>4, <1>5, Unwrappable DEF Contracts
  <2> QED
    BY <2>1, Recursion
<1>7. g = [x \in D |-> NormalizeType(Matched(g, x[1], x[2]))]
  BY <1>6
<1>8. Unified = [x \in D |-> NormalizeType(Matched(Unified, x[1], x[2]))]
  BY <1>7, Zenon DEF Unified, Matched, UnifyScalars
<1>9. \A a, b \in Type : Unified[<<a, b>>] = NormalizeType(Matched(Unified, a, b))
  BY <1>8
<1>10. \A a, b \in Type : <<a, b>> \in {x \in D : Unified[x] \in Type}
  <2> DEFINE S == {x \in D : Unified[x] \in Type}
  <2>1. ASSUME NEW a \in Type, NEW b \in Type,
               \A c, d \in Type : Depth(c) + Depth(d) < Depth(a) + Depth(b) => <<c, d>> \in S
        PROVE  <<a, b>> \in S
    <3>1. \A y \in D : size[y] < size[<<a, b>>] => Unified[y] \in Type
      BY <2>1
    <3>2. /\ IsNullable(a) => Unified[<<Underlying(a), b>>] \in Type
          /\ IsNullable(b) => Unified[<<a, Underlying(b)>>] \in Type
          /\ IsArray(a) /\ IsArray(b) => Unified[<<Underlying(a), Underlying(b)>>] \in Type
      <4> HIDE DEF size, D
      <4> QED
        BY <1>2, <3>1
    <3>3. Unified[<<a, b>>] \in Type
      BY <1>1, <1>9, <3>2
    <3> QED
      BY <3>3
  <2> HIDE DEF S
  <2>2. \A a, b \in Type : <<a, b>> \in S
    BY <2>1, PairInduction
  <2> QED
    BY <2>2 DEF S
<1>11. \A x \in D : Unified[x] \in Type
  BY <1>10
<1> HIDE DEF size, step
<1> QED
  BY <1>8, <1>9, <1>11

\* The types unify_type compares with each other in the end
Solid(t) == ~AdmitsNull(t) /\ t # Undefined

\* Unification by the shapes of the types.
LEMMA UnifyShapes ==
    ASSUME NEW a \in Type, NEW b \in Type
    PROVE  /\ UnifyType(a, b) \in Normal
           /\ ExtendedJSON \in {a, b} => UnifyType(a, b) = ExtendedJSON
           /\ a = Undefined => UnifyType(a, b) = NormalizeType(b)
           /\ b = Undefined => UnifyType(a, b) = NormalizeType(a)
           /\ IsNullable(a) /\ b \notin {ExtendedJSON, Undefined} =>
                UnifyType(a, b) = MakeNullable(UnifyType(Underlying(a), b))
           /\ a \notin {ExtendedJSON, Undefined} /\ ~IsNullable(a) /\ IsNullable(b) =>
                UnifyType(a, b) = MakeNullable(UnifyType(a, Underlying(b)))
           /\ a = NullType /\ ~IsNullable(b) /\ b # Undefined => UnifyType(a, b) = MakeNullable(NormalizeType(b))
           /\ b = NullType /\ ~IsNullable(a) /\ a # Undefined => UnifyType(a, b) = MakeNullable(NormalizeType(a))
           /\ Solid(a) /\ Solid(b) =>
                UnifyType(a, b) = IF IsScalar(a) /\ IsScalar(b) THEN UnifyScalars(a, b)
                                  ELSE IF IsNamed(a) /\ a = b THEN a
                                  ELSE IF IsArray(a) /\ IsArray(b)
                                       THEN ArrayOf(UnifyType(Underlying(a), Underlying(b)))
                                  ELSE ExtendedJSON
<1> DEFINE M == Matched(Unified, a, b)
<1>1. \A x, y \in Type : UnifyType(x, y) \in Type
  BY UnifiedDefined DEF UnifyType
<1>2. /\ IsNullable(a) \/ IsArray(a) => Underlying(a) \in Type
      /\ IsNullable(b) \/ IsArray(b) => Underlying(b) \in Type
  BY Unwrapped
<1>3. M \in Type /\ UnifyType(a, b) = NormalizeType(M)
  BY <1>1, <1>2, MatchedIsType, UnifiedDefined DEF UnifyType
<1>4. UnifyType(a, b) \in Normal
  BY <1>3, NormalizeIsNormal
<1>5. /\ IsNullable(a) => MakeNullable(UnifyType(Underlying(a), b)) \in Normal
      /\ IsNullable(b) => MakeNullable(UnifyType(a, Underlying(b))) \in Normal
      /\ IsArray(a) /\ IsArray(b) => ArrayOf(UnifyType(Underlying(a), Underlying(b))) \in Normal
  <2>1. ASSUME NEW x \in Type, NEW y \in Type
        PROVE  MakeNullable(UnifyType(x, y)) \in Normal /\ ArrayOf(UnifyType(x, y)) \in Normal
    <3>1. UnifyType(x, y) = NormalizeType(Matched(Unified, x, y))
      BY UnifiedDefined DEF UnifyType
    <3>2. Matched(Unified, x, y) \in Type
      <4>1. /\ IsNullable(x) \/ IsArray(x) => Underlying(x) \in Type
            /\ IsNullable(y) \/ IsArray(y) => Underlying(y) \in Type
        BY Unwrapped
      <4> QED
        BY <1>1, <4>1, MatchedIsType DEF UnifyType
    <3>3. UnifyType(x, y) \in Normal
      BY <3>1, <3>2, NormalizeIsNormal
    <3> QED
      BY <3>3, NormalParts
  <2> QED
    BY <1>2, <2>1
<1>6. /\ ExtendedJSON \in {a, b} => M = ExtendedJSON
      /\ a = Undefined /\ b # ExtendedJSON => M = b
      /\ b = Undefined /\ a # ExtendedJSON => M = a
      /\ IsNullable(a) /\ b \notin {ExtendedJSON, Undefined} => M = MakeNullable(UnifyType(Underlying(a), b))
      /\ a \notin {ExtendedJSON, Undefined} /\ ~IsNullable(a) /\ IsNullable(b) =>
            M = MakeNullable(UnifyType(a, Underlying(b)))
      /\ a = NullType /\ ~IsNullable(b) /\ b \notin {ExtendedJSON, Undefined} => M = MakeNullable(b)
      /\ b = NullType /\ ~IsNullable(a) /\ a \notin {ExtendedJSON, Undefined} => M = MakeNullable(a)
      /\ Solid(a) /\ Solid(b) =>
            M = IF IsScalar(a) /\ IsScalar(b) THEN UnifyScalars(a, b)
                ELSE IF IsNamed(a) /\ a = b THEN a
                ELSE IF IsArray(a) /\ IsArray(b) THEN ArrayOf(UnifyType(Underlying(a), Underlying(b)))
                ELSE ExtendedJSON
  BY Unwrappable DEF Matched, UnifyType, Solid, AdmitsNull, MakeNullable
<1> HIDE DEF M
<1>7. NormalizeType(ExtendedJSON) = ExtendedJSON /\ NormalizeType(Undefined) = Undefined
  BY NormalizeShapes, Unwrappable
<1>8. MakeNullable(ExtendedJSON) = ExtendedJSON
  BY DEF MakeNullable
<1>9. Solid(a) /\ Solid(b) => NormalizeType(M) = M
  <2>1. ASSUME NEW t \in Type, IsScalar(t) \/ IsNamed(t) \/ t = ExtendedJSON PROVE NormalizeType(t) = t
    BY <2>1, NormalizeShapes, Unwrapped, Unwrappable
  <2>2. IsScalar(a) /\ IsScalar(b) =>
            UnifyScalars(a, b) \in Type /\ (IsScalar(UnifyScalars(a, b)) \/ UnifyScalars(a, b) = ExtendedJSON)
    <3>1. "binData" \in BsonScalarTypes /\ "double" \in BsonScalarTypes
      BY DEF BsonScalarTypes
    <3>2. IsScalar(Scalar("binData")) /\ IsScalar(Scalar("double"))
      BY <3>1, Unwrappable
    <3>3. IsScalar(a) /\ IsScalar(b) =>
            UnifyScalars(a, b) \in Type /\ UnifyScalars(a, b) \in {a, Scalar("binData"), Scalar("double"), ExtendedJSON}
      <4> SUFFICES ASSUME IsScalar(a), IsScalar(b)
                   PROVE  /\ UnifyScalars(a, b) \in Type
                          /\ UnifyScalars(a, b) \in {a, Scalar("binData"), Scalar("double"), ExtendedJSON}
        OBVIOUS
      <4>1. UnifyScalars(a, b) \in Type
        BY ScalarsUnify
      <4>2. UnifyScalars(a, b) \in {a, Scalar("binData"), Scalar("double"), ExtendedJSON}
        BY ScalarsUnify
      <4> QED
        BY <4>1, <4>2
    <3> QED
      BY <3>2, <3>3
  <2> QED
    BY <1>3, <1>5, <1>6, <2>1, <2>2, Unwrappable DEF Normal
<1>10. ASSUME ExtendedJSON \in {a, b}
       PROVE  /\ UnifyType(a, b) = ExtendedJSON
              /\ a = Undefined => NormalizeType(b) = ExtendedJSON
              /\ b = Undefined => NormalizeType(a) = ExtendedJSON
              /\ a = NullType => MakeNullable(NormalizeType(b)) = ExtendedJSON
              /\ b = NullType => MakeNullable(NormalizeType(a)) = ExtendedJSON
  BY <1>3, <1>6, <1>7, <1>8, <1>10, Unwrappable
<1>11. /\ a = Undefined => UnifyType(a, b) = NormalizeType(b)
       /\ b = Undefined => UnifyType(a, b) = NormalizeType(a)
  BY <1>3, <1>6, <1>10
<1>12. /\ a = NullType /\ ~IsNullable(b) /\ b # Undefined => UnifyType(a, b) = MakeNullable(NormalizeType(b))
       /\ b = NullType /\ ~IsNullable(a) /\ a # Undefined => UnifyType(a, b) = MakeNullable(NormalizeType(a))
  BY <1>3, <1>6, <1>10, NormalizeNullable, Unwrappable
<1>13. /\ IsNullable(a) /\ b \notin {ExtendedJSON, Undefined} =>
            UnifyType(a, b) = MakeNullable(UnifyType(Underlying(a), b))
       /\ a \notin {ExtendedJSON, Undefined} /\ ~IsNullable(a) /\ IsNullable(b) =>
            UnifyType(a, b) = MakeNullable(UnifyType(a, Underlying(b)))
  BY <1>3, <1>5, <1>6 DEF Normal
<1>14. Solid(a) /\ Solid(b) => UnifyType(a, b) = M
  BY <1>3, <1>9
<1> QED
  BY <1>4, <1>6, <1>10, <1>11, <1>12, <1>13, <1>14

------------------------------------------------------------------------------
\* The laws, first for normal types.

\* A nullable type is what it wraps, made nullable: on the left.
LEMMA UnifyPeels ==
    ASSUME NEW a \in Normal, NEW b \in Normal, IsNullable(a)
    PROVE  UnifyType(a, b) = MakeNullable(UnifyType(Underlying(a), b))
<1> DEFINE c == Underlying(a)
<1>1. a \in Type /\ b \in Type /\ c \in Normal /\ c \in Type /\ ~AdmitsNull(c) /\ a = Nullable(c)
  BY NormalParts, Unwrapped DEF Normal
<1>2. a # ExtendedJSON /\ a # Undefined
  BY Unwrappable
<1>3. b = ExtendedJSON =>
        UnifyType(a, b) = ExtendedJSON /\ UnifyType(c, b) = ExtendedJSON /\ MakeNullable(ExtendedJSON) = ExtendedJSON
  BY <1>1, UnifyShapes DEF MakeNullable
<1>4. b = Undefined => UnifyType(a, b) = a /\ UnifyType(c, b) = c /\ MakeNullable(c) = a
  BY <1>1, UnifyShapes, MakesNullable DEF Normal
<1> QED
  BY <1>1, <1>3, <1>4, UnifyShapes

\* Two scalar types have the same in common in either order.
LEMMA ScalarsCommute ==
    ASSUME NEW a \in Type, NEW b \in Type, IsScalar(a), IsScalar(b)
    PROVE  UnifyScalars(a, b) = UnifyScalars(b, a)
BY ScalarsUnify

LEMMA NormalCommutes == \A a, b \in Normal : UnifyType(a, b) = UnifyType(b, a)
<1> DEFINE Law(a, b) == a \in Normal /\ b \in Normal => UnifyType(a, b) = UnifyType(b, a)
           S == {x \in Type \X Type : Law(x[1], x[2])}
<1>1. ASSUME NEW a \in Type, NEW b \in Type,
             \A c, d \in Type : Depth(c) + Depth(d) < Depth(a) + Depth(b) => Law(c, d)
      PROVE  Law(a, b)
  <2> SUFFICES ASSUME a \in Normal, b \in Normal PROVE UnifyType(a, b) = UnifyType(b, a)
    OBVIOUS
  <2> DEFINE c == Underlying(a)
             d == Underlying(b)
  <2>1. Depth(a) \in Nat /\ Depth(b) \in Nat
    BY Unwrapped
  <2>2. IsNullable(a) \/ IsArray(a) => c \in Normal /\ c \in Type /\ Depth(c) \in Nat /\ Depth(c) < Depth(a)
    BY NormalParts, Unwrapped
  <2>3. IsNullable(b) \/ IsArray(b) => d \in Normal /\ d \in Type /\ Depth(d) \in Nat /\ Depth(d) < Depth(b)
    BY NormalParts, Unwrapped
  <2>4. IsNullable(a) => UnifyType(c, b) = UnifyType(b, c)
    BY <1>1, <2>1, <2>2
  <2>5. IsNullable(b) => UnifyType(a, d) = UnifyType(d, a)
    BY <1>1, <2>1, <2>3
  <2>6. (IsNullable(a) /\ IsNullable(b)) \/ (IsArray(a) /\ IsArray(b)) => UnifyType(c, d) = UnifyType(d, c)
    BY <1>1, <2>1, <2>2, <2>3
  <2>7. CASE {a, b} \cap {ExtendedJSON, Undefined} # {}
    BY <2>7, UnifyShapes
  <2>8. CASE IsNullable(a) /\ IsNullable(b)
    <3>1. UnifyType(a, b) = MakeNullable(UnifyType(c, b)) /\ UnifyType(b, a) = MakeNullable(UnifyType(d, a))
      BY <2>8, UnifyPeels
    <3>2. UnifyType(b, c) = MakeNullable(UnifyType(d, c)) /\ UnifyType(a, d) = MakeNullable(UnifyType(c, d))
      BY <2>2, <2>3, <2>8, UnifyPeels
    <3> QED
      BY <2>4, <2>5, <2>6, <2>8, <3>1, <3>2
  <2>9. CASE IsNullable(a) /\ ~IsNullable(b) /\ {a, b} \cap {ExtendedJSON, Undefined} = {}
    <3>1. UnifyType(a, b) = MakeNullable(UnifyType(c, b))
      BY <2>9, UnifyPeels
    <3>2. UnifyType(b, a) = MakeNullable(UnifyType(b, c))
      BY <2>9, UnifyShapes
    <3> QED
      BY <2>4, <2>9, <3>1, <3>2
  <2>10. CASE ~IsNullable(a) /\ IsNullable(b) /\ {a, b} \cap {ExtendedJSON, Undefined} = {}
    <3>1. UnifyType(b, a) = MakeNullable(UnifyType(d, a))
      BY <2>10, UnifyPeels
    <3>2. UnifyType(a, b) = MakeNullable(UnifyType(a, d))
      BY <2>10, UnifyShapes
    <3> QED
      BY <2>5, <2>10, <3>1, <3>2
  <2>11. CASE ~IsNullable(a) /\ ~IsNullable(b) /\ NullType \in {a, b} /\ {a, b} \cap {ExtendedJSON, Undefined} = {}
    BY <2>11, UnifyShapes
  <2>12. CASE Solid(a) /\ Solid(b)
    <3>1. IsScalar(a) /\ IsScalar(b) => UnifyScalars(a, b) = UnifyScalars(b, a)
      BY ScalarsCommute
    <3>2. IsArray(a) /\ IsArray(b) => ArrayOf(UnifyType(c, d)) = ArrayOf(UnifyType(d, c))
      BY <2>6
    <3>3. /\ UnifyType(a, b) = IF IsScalar(a) /\ IsScalar(b) THEN UnifyScalars(a, b)
                               ELSE IF IsNamed(a) /\ a = b THEN a
                               ELSE IF IsArray(a) /\ IsArray(b) THEN ArrayOf(UnifyType(c, d)) ELSE ExtendedJSON
          /\ UnifyType(b, a) = IF IsScalar(b) /\ IsScalar(a) THEN UnifyScalars(b, a)
                               ELSE IF IsNamed(b) /\ b = a THEN b
                               ELSE IF IsArray(b) /\ IsArray(a) THEN ArrayOf(UnifyType(d, c)) ELSE ExtendedJSON
      BY <2>12, UnifyShapes
    <3> QED
      BY <3>1, <3>2, <3>3
  <2> QED
    BY <2>7, <2>8, <2>9, <2>10, <2>11, <2>12 DEF Solid, AdmitsNull
<1>2. \A a, b \in Type :
        (\A c, d \in Type : Depth(c) + Depth(d) < Depth(a) + Depth(b) => <<c, d>> \in S) => <<a, b>> \in S
  <2>1. \A a, b \in Type : <<a, b>> \in S <=> Law(a, b)
    OBVIOUS
  <2> HIDE DEF S, Law
  <2> QED
    BY <1>1, <2>1
<1>3. \A a, b \in Type : <<a, b>> \in S
  <2> HIDE DEF S
  <2> QED
    BY <1>2, PairInduction
<1>4. \A a, b \in Type : Law(a, b)
  BY <1>3
<1> QED
  BY <1>4 DEF Normal

\* Making either side nullable makes the result nullable.
LEMMA NormalLifts ==
    ASSUME NEW a \in Normal, NEW b \in Normal
    PROVE  /\ UnifyType(MakeNullable(a), b) = MakeNullable(UnifyType(a, b))
           /\ UnifyType(a, MakeNullable(b)) = MakeNullable(UnifyType(a, b))
<1>1. ASSUME NEW x \in Normal, NEW y \in Normal PROVE UnifyType(MakeNullable(x), y) = MakeNullable(UnifyType(x, y))
  <2>0. x \in Type /\ y \in Type /\ MakeNullable(x) \in Normal /\ NormalizeType(y) = y
        /\ NormalizeType(x) = x /\ UnifyType(x, y) \in Type
    BY NormalParts, UnifyShapes DEF Normal
  <2>1. CASE ~AdmitsNull(x)
    BY <2>0, <2>1, UnifyPeels, MakesNullable, Wrapped
  <2>2. CASE AdmitsNull(x)
    <3>1. MakeNullable(x) = x
      BY <2>0, <2>2, MakesNullable
    <3>2. x = ExtendedJSON => UnifyType(x, y) = ExtendedJSON
      BY <2>0, UnifyShapes
    <3>3. IsNullable(x) => UnifyType(x, y) = MakeNullable(UnifyType(Underlying(x), y)) /\ UnifyType(Underlying(x), y) \in Type
      <4>1. IsNullable(x) => Underlying(x) \in Normal /\ Underlying(x) \in Type
        BY NormalParts
      <4> QED
        BY <2>0, <4>1, UnifyPeels, UnifyShapes DEF Normal
    <3>4. x = NullType => \E z \in Type : UnifyType(x, y) = MakeNullable(z)
      <4> SUFFICES ASSUME x = NullType PROVE \E z \in Type : UnifyType(x, y) = MakeNullable(z)
        OBVIOUS
      <4>1. MakeNullable(ExtendedJSON) = ExtendedJSON /\ MakeNullable(NullType) = NullType
        BY DEF MakeNullable
      <4>2. y = ExtendedJSON => UnifyType(x, y) = ExtendedJSON
        BY <2>0, UnifyShapes
      <4>3. y = Undefined => UnifyType(x, y) = NullType
        BY <2>0, UnifyShapes
      <4>4. IsNullable(y) => UnifyType(x, y) = MakeNullable(UnifyType(x, Underlying(y))) /\ UnifyType(x, Underlying(y)) \in Type
        <5>1. IsNullable(y) => Underlying(y) \in Type
          BY <2>0, Unwrapped
        <5>2. NullType \notin {ExtendedJSON, Undefined} /\ ~IsNullable(NullType)
          BY Unwrappable
        <5> QED
          BY <2>0, <5>1, <5>2, UnifyShapes DEF Normal
      <4>5. ~IsNullable(y) /\ y # Undefined => UnifyType(x, y) = MakeNullable(y)
        BY <2>0, UnifyShapes
      <4> QED
        BY <2>0, <4>1, <4>2, <4>3, <4>4, <4>5, Unwrappable
    <3>5. ExtendedJSON = MakeNullable(ExtendedJSON)
      BY DEF MakeNullable
    <3>6. \A z \in Type : MakeNullable(MakeNullable(z)) = MakeNullable(z)
      BY MakesNullable
    <3> QED
      BY <2>2, <3>1, <3>2, <3>3, <3>4, <3>5, <3>6 DEF AdmitsNull
  <2> QED
    BY <2>1, <2>2
<1>2. UnifyType(a, MakeNullable(b)) = UnifyType(MakeNullable(b), a) /\ UnifyType(a, b) = UnifyType(b, a)
  BY NormalParts, NormalCommutes
<1> QED
  BY <1>1, <1>2

\* Null and the solid types unify to one of them, or to a type that admits null.
\* Solid types unify to a solid type only if they are of one kind, which it is of too.
SameKind(a, b) == \/ IsScalar(a) /\ IsScalar(b)
                  \/ IsNamed(a) /\ IsNamed(b)
                  \/ IsArray(a) /\ IsArray(b)

LEMMA SolidsUnify ==
    ASSUME NEW a \in Normal, NEW b \in Normal, Solid(a), Solid(b)
    PROVE  /\ UnifyType(a, b) \in Normal
           /\ \/ UnifyType(a, b) = ExtendedJSON
              \/ Solid(UnifyType(a, b)) /\ SameKind(a, b) /\ SameKind(a, UnifyType(a, b))
           /\ ~SameKind(a, b) => UnifyType(a, b) = ExtendedJSON
<1>1. a \in Type /\ b \in Type /\ UnifyType(a, b) \in Normal
  BY UnifyShapes DEF Normal
<1>2. UnifyType(a, b) = IF IsScalar(a) /\ IsScalar(b) THEN UnifyScalars(a, b)
                        ELSE IF IsNamed(a) /\ a = b THEN a
                        ELSE IF IsArray(a) /\ IsArray(b) THEN ArrayOf(UnifyType(Underlying(a), Underlying(b)))
                        ELSE ExtendedJSON
  BY <1>1, UnifyShapes
<1>3. IsArray(a) /\ IsArray(b) => Solid(UnifyType(a, b)) /\ IsArray(UnifyType(a, b))
  <2> SUFFICES ASSUME IsArray(a), IsArray(b) PROVE Solid(UnifyType(a, b)) /\ IsArray(UnifyType(a, b))
    OBVIOUS
  <2> DEFINE e == UnifyType(Underlying(a), Underlying(b))
  <2>1. UnifyType(a, b) = ArrayOf(e)
    BY <1>1, <1>2, Unwrapped
  <2>2. e \in Type
    BY NormalParts, UnifyShapes DEF Normal
  <2> HIDE DEF e
  <2> QED
    BY <2>1, <2>2, Wrapped, MakesNullable, Unwrappable DEF Solid
<1>4. IsScalar(a) /\ IsScalar(b) =>
        \/ UnifyType(a, b) = ExtendedJSON
        \/ Solid(UnifyType(a, b)) /\ IsScalar(UnifyType(a, b))
  <2> SUFFICES ASSUME IsScalar(a), IsScalar(b)
               PROVE  \/ UnifyType(a, b) = ExtendedJSON
                      \/ Solid(UnifyType(a, b)) /\ IsScalar(UnifyType(a, b))
    OBVIOUS
  <2>1. "binData" \in BsonScalarTypes /\ "double" \in BsonScalarTypes
    BY DEF BsonScalarTypes
  <2>2. \A s \in {"binData", "double"} :
            Scalar(s) \in Type /\ IsScalar(Scalar(s)) /\ Scalar(s).base[2] = s /\ ~IsNullable(Scalar(s))
    BY <2>1, Unwrappable DEF Scalar, IsNullable
  <2>3. \A s \in {"binData", "double"} : Solid(Scalar(s))
    BY <2>2, Unwrappable DEF Solid, AdmitsNull
  <2>4. UnifyScalars(a, b) \in {a, Scalar("binData"), Scalar("double"), ExtendedJSON}
    BY <1>1, ScalarsUnify
  <2> QED
    BY <1>2, <2>2, <2>3, <2>4
<1> QED
  BY <1>1, <1>2, <1>3, <1>4, Unwrappable DEF SameKind

LEMMA ScalarsAssociate ==
    ASSUME NEW a \in Type, NEW b \in Type, NEW c \in Type, IsScalar(a), IsScalar(b), IsScalar(c)
    PROVE  \/ UnifyScalars(a, b) = ExtendedJSON /\ UnifyScalars(b, c) = ExtendedJSON
           \/ /\ UnifyScalars(a, b) = ExtendedJSON /\ IsScalar(UnifyScalars(b, c))
              /\ UnifyScalars(a, UnifyScalars(b, c)) = ExtendedJSON
           \/ /\ UnifyScalars(b, c) = ExtendedJSON /\ IsScalar(UnifyScalars(a, b))
              /\ UnifyScalars(UnifyScalars(a, b), c) = ExtendedJSON
           \/ /\ IsScalar(UnifyScalars(a, b)) /\ IsScalar(UnifyScalars(b, c))
              /\ UnifyScalars(a, UnifyScalars(b, c)) = UnifyScalars(UnifyScalars(a, b), c)
<1> DEFINE B == Scalar("binData")
           F == Scalar("double")
<1>1. "binData" \in BsonScalarTypes /\ "double" \in BsonScalarTypes
  BY DEF BsonScalarTypes
<1>2. /\ B \in Type /\ IsScalar(B) /\ B.base[2] = "binData"
      /\ F \in Type /\ IsScalar(F) /\ F.base[2] = "double"
  BY <1>1, Unwrappable
<1>3. \A x, y \in Type : IsScalar(x) /\ IsScalar(y) => (x = y <=> x.base[2] = y.base[2])
  BY Unwrappable
<1>4. \A x, y \in Type : IsScalar(x) /\ IsScalar(y) =>
        UnifyScalars(x, y) = IF x.base[2] = y.base[2] THEN x
                             ELSE IF x.base[2] \in Binary /\ y.base[2] \in Binary THEN B
                             ELSE IF (x.base[2] = "double" /\ y.base[2] = "int") \/ (x.base[2] = "int" /\ y.base[2] = "double") THEN F
                             ELSE ExtendedJSON
  BY <1>3, ScalarsUnify
<1>5. ~IsScalar(ExtendedJSON)
  BY Unwrappable
<1>6. "binData" \in Binary /\ "double" \notin Binary /\ "int" \notin Binary
  BY DEF Binary
<1> HIDE DEF B, F
<1> QED
  BY <1>2, <1>3, <1>4, <1>5, <1>6

LEMMA NormalAssociates ==
    \A a, b, c \in Normal : UnifyType(UnifyType(a, b), c) = UnifyType(a, UnifyType(b, c))
<1> DEFINE Law(a, b, c) == a \in Normal /\ b \in Normal /\ c \in Normal =>
                                UnifyType(UnifyType(a, b), c) = UnifyType(a, UnifyType(b, c))
           S == {x \in Type \X Type \X Type : Law(x[1], x[2], x[3])}
<1>1. ASSUME NEW a \in Type, NEW b \in Type, NEW c \in Type,
             \A d, e, f \in Type : Depth(d) + Depth(e) + Depth(f) < Depth(a) + Depth(b) + Depth(c) => Law(d, e, f)
      PROVE  Law(a, b, c)
  <2> SUFFICES ASSUME a \in Normal, b \in Normal, c \in Normal
               PROVE  UnifyType(UnifyType(a, b), c) = UnifyType(a, UnifyType(b, c))
    OBVIOUS
  <2>1. \A x, y \in Normal : UnifyType(x, y) \in Normal
    BY UnifyShapes DEF Normal
  <2>2. \A x \in Type : Depth(x) \in Nat
    BY Unwrapped
  <2>3. \A x \in Normal : IsNullable(x) \/ IsArray(x) =>
            Underlying(x) \in Normal /\ Underlying(x) \in Type /\ Depth(Underlying(x)) < Depth(x)
    BY NormalParts, Unwrapped
  <2>4. \A x \in Normal : IsNullable(x) => x = MakeNullable(Underlying(x))
    BY NormalParts, MakesNullable, Unwrapped
  <2>5. CASE IsNullable(a)
    <3> DEFINE p == Underlying(a)
    <3>1. p \in Normal /\ a = MakeNullable(p)
      BY <2>3, <2>4, <2>5
    <3>2. UnifyType(UnifyType(p, b), c) = UnifyType(p, UnifyType(b, c))
      BY <1>1, <2>2, <2>3, <2>5
    <3> HIDE DEF p
    <3>3. UnifyType(a, b) = MakeNullable(UnifyType(p, b))
          /\ UnifyType(MakeNullable(UnifyType(p, b)), c) = MakeNullable(UnifyType(UnifyType(p, b), c))
          /\ UnifyType(a, UnifyType(b, c)) = MakeNullable(UnifyType(p, UnifyType(b, c)))
      BY <2>1, <3>1, NormalLifts
    <3> QED
      BY <3>2, <3>3
  <2>6. CASE IsNullable(b)
    <3> DEFINE p == Underlying(b)
    <3>1. p \in Normal /\ b = MakeNullable(p)
      BY <2>3, <2>4, <2>6
    <3>2. UnifyType(UnifyType(a, p), c) = UnifyType(a, UnifyType(p, c))
      BY <1>1, <2>2, <2>3, <2>6
    <3> HIDE DEF p
    <3>3. UnifyType(a, b) = MakeNullable(UnifyType(a, p))
          /\ UnifyType(MakeNullable(UnifyType(a, p)), c) = MakeNullable(UnifyType(UnifyType(a, p), c))
          /\ UnifyType(b, c) = MakeNullable(UnifyType(p, c))
          /\ UnifyType(a, MakeNullable(UnifyType(p, c))) = MakeNullable(UnifyType(a, UnifyType(p, c)))
      BY <2>1, <3>1, NormalLifts
    <3> QED
      BY <3>2, <3>3
  <2>7. CASE IsNullable(c)
    <3> DEFINE p == Underlying(c)
    <3>1. p \in Normal /\ c = MakeNullable(p)
      BY <2>3, <2>4, <2>7
    <3>2. UnifyType(UnifyType(a, b), p) = UnifyType(a, UnifyType(b, p))
      BY <1>1, <2>2, <2>3, <2>7
    <3> HIDE DEF p
    <3>3. UnifyType(UnifyType(a, b), c) = MakeNullable(UnifyType(UnifyType(a, b), p))
          /\ UnifyType(b, c) = MakeNullable(UnifyType(b, p))
          /\ UnifyType(a, MakeNullable(UnifyType(b, p))) = MakeNullable(UnifyType(a, UnifyType(b, p)))
      BY <2>1, <3>1, NormalLifts
    <3> QED
      BY <3>2, <3>3
  <2>8. CASE ExtendedJSON \in {a, b, c}
    <3>1. \A x \in Normal : UnifyType(ExtendedJSON, x) = ExtendedJSON /\ UnifyType(x, ExtendedJSON) = ExtendedJSON
      BY UnifyShapes, Unwrappable DEF Normal
    <3> QED
      BY <2>1, <2>8, <3>1
  <2>9. CASE Undefined \in {a, b, c}
    <3>1. \A x \in Normal : UnifyType(Undefined, x) = x /\ UnifyType(x, Undefined) = x
      BY UnifyShapes, Unwrappable DEF Normal
    <3> QED
      BY <2>1, <2>9, <3>1
  <2> DEFINE Plain(x) == x \in Normal /\ (x = NullType \/ Solid(x))
  <2>10. \A x : Plain(x) => UnifyType(NullType, x) = MakeNullable(x) /\ UnifyType(x, NullType) = MakeNullable(x)
    <3>1. \A x : Plain(x) => x \in Type /\ ~IsNullable(x) /\ x # Undefined /\ NormalizeType(x) = x
      BY Unwrappable DEF Normal, Solid, AdmitsNull
    <3> QED
      BY <3>1, UnifyShapes, Unwrappable
  <2>11. \A x \in Normal : x # Undefined /\ ~(IsNullable(x) /\ Underlying(x) = Undefined) =>
            UnifyType(NullType, x) = MakeNullable(x) /\ UnifyType(x, NullType) = MakeNullable(x)
    <3> SUFFICES ASSUME NEW x \in Normal, x # Undefined, ~(IsNullable(x) /\ Underlying(x) = Undefined)
                 PROVE  UnifyType(NullType, x) = MakeNullable(x)
      BY NormalCommutes, NormalizeShapes, Unwrappable DEF Normal
    <3>1. NullType \in Normal /\ NullType \notin {ExtendedJSON, Undefined} /\ ~IsNullable(NullType)
      BY NormalizeShapes, Unwrappable DEF Normal
    <3>2. CASE ~IsNullable(x)
      BY <3>1, <3>2, UnifyShapes DEF Normal
    <3>3. CASE IsNullable(x)
      <4> DEFINE y == Underlying(x)
      <4>1. y \in Normal /\ ~AdmitsNull(y) /\ y # Undefined /\ x = MakeNullable(y)
        BY <2>4, <3>3, NormalParts
      <4> HIDE DEF y
      <4>2. UnifyType(NullType, y) = MakeNullable(y)
        BY <2>10, <4>1 DEF Solid
      <4>3. UnifyType(NullType, x) = MakeNullable(MakeNullable(y))
        BY <3>1, <4>1, <4>2, NormalLifts
      <4> QED
        BY <4>1, <4>3
    <3> QED
      BY <3>2, <3>3
  <2>12. \A x, y : Plain(x) /\ Plain(y) =>
            LET u == UnifyType(x, y) IN u \in Normal /\ u # Undefined /\ ~(IsNullable(u) /\ Underlying(u) = Undefined)
    <3> SUFFICES ASSUME NEW x, NEW y, Plain(x), Plain(y)
                 PROVE  LET u == UnifyType(x, y)
                        IN  u \in Normal /\ u # Undefined /\ ~(IsNullable(u) /\ Underlying(u) = Undefined)
      OBVIOUS
    <3>1. CASE Solid(x) /\ Solid(y)
      BY <3>1, SolidsUnify, Unwrappable DEF Solid, AdmitsNull
    <3>2. ASSUME NEW z, Plain(z)
          PROVE  /\ MakeNullable(z) # Undefined
                 /\ ~(IsNullable(MakeNullable(z)) /\ Underlying(MakeNullable(z)) = Undefined)
      BY <3>2, MakesNullable, Wrapped, Unwrappable DEF Normal, Solid, AdmitsNull
    <3> QED
      BY <2>1, <2>10, <3>1, <3>2
  <2>13. CASE Plain(a) /\ Plain(b) /\ Plain(c) /\ NullType \in {a, b, c}
    <3>1. CASE a = NullType
      <4>1. UnifyType(UnifyType(a, b), c) = MakeNullable(UnifyType(b, c))
        BY <2>10, <2>13, <3>1, NormalLifts
      <4>2. UnifyType(a, UnifyType(b, c)) = MakeNullable(UnifyType(b, c))
        BY <2>11, <2>12, <2>13, <3>1
      <4> QED
        BY <4>1, <4>2
    <3>2. CASE b = NullType
      BY <2>10, <2>13, <3>2, NormalLifts
    <3>3. CASE c = NullType
      <4>1. UnifyType(a, UnifyType(b, c)) = MakeNullable(UnifyType(a, b))
        BY <2>10, <2>13, <3>3, NormalLifts
      <4>2. UnifyType(UnifyType(a, b), c) = MakeNullable(UnifyType(a, b))
        BY <2>11, <2>12, <2>13, <3>3
      <4> QED
        BY <4>1, <4>2
    <3> QED
      BY <2>13, <3>1, <3>2, <3>3
  <2>14. CASE Solid(a) /\ Solid(b) /\ Solid(c)
    <3> DEFINE u == UnifyType(a, b)
               v == UnifyType(b, c)
    <3>1. \A x \in Normal : UnifyType(ExtendedJSON, x) = ExtendedJSON /\ UnifyType(x, ExtendedJSON) = ExtendedJSON
      BY UnifyShapes, Unwrappable DEF Normal
    <3>2. /\ u \in Normal /\ (u = ExtendedJSON \/ (Solid(u) /\ SameKind(a, b) /\ SameKind(a, u)))
          /\ v \in Normal /\ (v = ExtendedJSON \/ (Solid(v) /\ SameKind(b, c) /\ SameKind(b, v)))
          /\ ~SameKind(a, b) => u = ExtendedJSON
          /\ ~SameKind(b, c) => v = ExtendedJSON
      BY <2>14, SolidsUnify
    <3>3. ~AdmitsNull(a) /\ ~AdmitsNull(b) /\ ~AdmitsNull(c)
      BY <2>14 DEF Solid
    <3>4. CASE ~SameKind(a, b) \/ ~SameKind(b, c)
      <4>1. /\ Solid(u) => UnifyType(u, c) = ExtendedJSON \/ SameKind(u, c)
            /\ Solid(v) => UnifyType(a, v) = ExtendedJSON \/ SameKind(a, v)
        BY <2>14, <3>2, SolidsUnify
      <4> HIDE DEF u, v
      <4>2. ASSUME NEW x \in Type, NEW y \in Type, NEW z \in Type, SameKind(x, y), SameKind(y, z) \/ SameKind(z, y)
            PROVE  SameKind(x, z) /\ SameKind(z, x)
        BY <4>2, Unwrappable, Unwrapped DEF SameKind
      <4>3. a \in Type /\ b \in Type /\ c \in Type /\ u \in Type /\ v \in Type
        BY <3>2 DEF Normal
      <4>4. UnifyType(u, c) = ExtendedJSON
        <5>1. CASE SameKind(a, b)
          BY <3>1, <3>2, <3>4, <4>1, <4>2, <4>3, <5>1 DEF SameKind
        <5> QED
          BY <3>1, <3>2, <5>1
      <4>5. UnifyType(a, v) = ExtendedJSON
        <5>1. CASE SameKind(b, c)
          BY <3>1, <3>2, <3>4, <4>1, <4>2, <4>3, <5>1 DEF SameKind
        <5> QED
          BY <3>1, <3>2, <5>1
      <4> QED
        BY <4>4, <4>5 DEF u, v
    <3>5. CASE IsScalar(a) /\ IsScalar(b) /\ IsScalar(c)
      <4>1. u = UnifyScalars(a, b) /\ v = UnifyScalars(b, c)
        BY <2>14, <3>5, UnifyShapes
      <4>2. /\ Solid(u) /\ IsScalar(u) => UnifyType(u, c) = UnifyScalars(u, c)
            /\ Solid(v) /\ IsScalar(v) => UnifyType(a, v) = UnifyScalars(a, v)
        BY <2>14, <3>2, <3>5, UnifyShapes DEF Normal
      <4>3. (IsScalar(u) => Solid(u)) /\ (IsScalar(v) => Solid(v))
        BY <3>2, Unwrappable
      <4>4. \/ u = ExtendedJSON /\ v = ExtendedJSON
            \/ u = ExtendedJSON /\ IsScalar(v) /\ UnifyScalars(a, v) = ExtendedJSON
            \/ v = ExtendedJSON /\ IsScalar(u) /\ UnifyScalars(u, c) = ExtendedJSON
            \/ IsScalar(u) /\ IsScalar(v) /\ UnifyScalars(a, v) = UnifyScalars(u, c)
        BY <3>5, <4>1, ScalarsAssociate
      <4> HIDE DEF u, v
      <4>5. UnifyType(u, c) = UnifyType(a, v)
        BY <3>1, <4>2, <4>3, <4>4
      <4> QED
        BY <4>5 DEF u, v
    <3>6. CASE IsNamed(a) /\ IsNamed(b) /\ IsNamed(c)
      <4>1. \A x, y \in Normal : Solid(x) /\ Solid(y) /\ IsNamed(x) =>
                UnifyType(x, y) = IF x = y THEN x ELSE ExtendedJSON
        BY UnifyShapes, Unwrappable, Unwrapped DEF Normal
      <4> QED
        BY <2>14, <3>1, <3>6, <4>1
    <3>7. CASE IsArray(a) /\ IsArray(b) /\ IsArray(c)
      <4> DEFINE d == Underlying(a)
                 e == Underlying(b)
                 f == Underlying(c)
      <4>1. d \in Normal /\ e \in Normal /\ f \in Normal
        BY <2>3, <3>7
      <4>2. UnifyType(UnifyType(d, e), f) = UnifyType(d, UnifyType(e, f))
        <5>1. /\ d \in Type /\ Depth(d) < Depth(a) /\ Depth(d) \in Nat /\ Depth(a) \in Nat
              /\ e \in Type /\ Depth(e) < Depth(b) /\ Depth(e) \in Nat /\ Depth(b) \in Nat
              /\ f \in Type /\ Depth(f) < Depth(c) /\ Depth(f) \in Nat /\ Depth(c) \in Nat
          BY <2>2, <2>3, <3>7
        <5> HIDE DEF d, e, f
        <5> QED
          BY <1>1, <4>1, <5>1
      <4>3. u = ArrayOf(UnifyType(d, e)) /\ v = ArrayOf(UnifyType(e, f))
        BY <2>14, <3>7, UnifyShapes, Unwrapped
      <4>4. UnifyType(d, e) \in Type /\ UnifyType(e, f) \in Type
        BY <2>1, <4>1 DEF Normal
      <4>5. /\ IsArray(u) /\ Underlying(u) = UnifyType(d, e) /\ ~IsScalar(u) /\ ~IsNamed(u) /\ Solid(u)
            /\ IsArray(v) /\ Underlying(v) = UnifyType(e, f) /\ ~IsScalar(v) /\ ~IsNamed(v) /\ Solid(v)
        <5> DEFINE de == UnifyType(d, e)
                   ef == UnifyType(e, f)
        <5>1. u = ArrayOf(de) /\ v = ArrayOf(ef) /\ de \in Type /\ ef \in Type
          BY <4>3, <4>4
        <5> HIDE DEF u, v, de, ef
        <5>2. /\ IsArray(u) /\ Underlying(u) = de /\ ~IsScalar(u) /\ ~IsNamed(u) /\ ~AdmitsNull(u)
              /\ IsArray(v) /\ Underlying(v) = ef /\ ~IsScalar(v) /\ ~IsNamed(v) /\ ~AdmitsNull(v)
          BY <5>1, Wrapped, MakesNullable
        <5> QED
          BY <5>2, Unwrappable DEF Solid, de, ef
      <4>6. UnifyType(u, c) = ArrayOf(UnifyType(UnifyType(d, e), f))
            /\ UnifyType(a, v) = ArrayOf(UnifyType(d, UnifyType(e, f)))
        <5> HIDE DEF u, v
        <5> QED
          BY <2>14, <3>2, <3>7, <4>5, UnifyShapes, Unwrapped DEF Normal
      <4> QED
        BY <4>2, <4>6
    <3> QED
      BY <3>4, <3>5, <3>6, <3>7, Unwrappable, Unwrapped DEF SameKind
  <2>15. \A x \in Normal : IsNullable(x) \/ x \in {ExtendedJSON, Undefined} \/ x = NullType \/ Solid(x)
    BY DEF Solid, AdmitsNull
  <2> QED
    BY <2>5, <2>6, <2>7, <2>8, <2>9, <2>13, <2>14, <2>15
<1>2. \A a, b, c \in Type :
        (\A d, e, f \in Type : Depth(d) + Depth(e) + Depth(f) < Depth(a) + Depth(b) + Depth(c) => <<d, e, f>> \in S)
        => <<a, b, c>> \in S
  <2>1. ASSUME NEW a \in Type, NEW b \in Type, NEW c \in Type PROVE <<a, b, c>> \in S <=> Law(a, b, c)
    OBVIOUS
  <2> HIDE DEF S, Law
  <2> QED
    BY <1>1, <2>1
<1>3. \A a, b, c \in Type : <<a, b, c>> \in S
  <2> HIDE DEF S
  <2> QED
    BY <1>2, TripleInduction
<1>4. ASSUME NEW a \in Normal, NEW b \in Normal, NEW c \in Normal PROVE Law(a, b, c)
  <2>1. <<a, b, c>> \in S
    <3> HIDE DEF S
    <3> QED
      BY <1>3 DEF Normal
  <2> QED
    BY <2>1
<1> QED
  BY <1>4

------------------------------------------------------------------------------
\* The laws for all types, normalized or not.

\* Normalization keeps what a solid type is.
LEMMA SolidNormalizes ==
    ASSUME NEW t \in Type, Solid(t)
    PROVE  /\ NormalizeType(t) \in Normal /\ Solid(NormalizeType(t))
           /\ ~IsArray(t) => NormalizeType(t) = t
           /\ IsArray(t) => /\ IsArray(NormalizeType(t)) /\ Underlying(t) \in Type
                            /\ Underlying(NormalizeType(t)) = NormalizeType(Underlying(t))
<1>1. NormalizeType(t) \in Normal /\ (~IsArray(t) => NormalizeType(t) = t)
  BY NormalizeIsNormal, NormalizeShapes DEF Solid, AdmitsNull
<1>2. CASE IsArray(t)
  <2>1. PICK u \in Type : t = ArrayOf(u) /\ Underlying(t) = u
    BY <1>2, Unwrapped
  <2>2. NormalizeType(t) = ArrayOf(NormalizeType(u)) /\ NormalizeType(u) \in Type
    BY <2>1, NormalizeShapes
  <2>3. IsArray(NormalizeType(t)) /\ Underlying(NormalizeType(t)) = NormalizeType(u) /\ ~AdmitsNull(NormalizeType(t))
    BY <2>2, Wrapped, MakesNullable
  <2> QED
    BY <1>1, <1>2, <2>1, <2>3, Unwrappable DEF Solid
<1> QED
  BY <1>1, <1>2

\* Types unify as their normalized forms do.
LEMMA UnifyNormalizes ==
    \A a, b \in Type : UnifyType(a, b) = UnifyType(NormalizeType(a), NormalizeType(b))
<1> DEFINE Law(a, b) == UnifyType(a, b) = UnifyType(NormalizeType(a), NormalizeType(b))
           S == {x \in Type \X Type : Law(x[1], x[2])}
<1>1. ASSUME NEW a \in Type, NEW b \in Type,
             \A c, d \in Type : Depth(c) + Depth(d) < Depth(a) + Depth(b) => Law(c, d)
      PROVE  Law(a, b)
  <2> DEFINE c == Underlying(a)
             d == Underlying(b)
             m == NormalizeType(a)
             n == NormalizeType(b)
  <2>1. Depth(a) \in Nat /\ Depth(b) \in Nat
    BY Unwrapped
  <2>2. IsNullable(a) \/ IsArray(a) => c \in Type /\ Depth(c) \in Nat /\ Depth(c) < Depth(a)
    BY Unwrapped
  <2>3. IsNullable(b) \/ IsArray(b) => d \in Type /\ Depth(d) \in Nat /\ Depth(d) < Depth(b)
    BY Unwrapped
  <2>4. IsNullable(a) => Law(c, b)
    BY <1>1, <2>1, <2>2
  <2>5. IsNullable(b) => Law(a, d)
    BY <1>1, <2>1, <2>3
  <2>6. IsArray(a) /\ IsArray(b) => Law(c, d)
    BY <1>1, <2>1, <2>2, <2>3
  <2>7. /\ m \in Normal /\ m \in Type /\ NormalizeType(m) = m
        /\ n \in Normal /\ n \in Type /\ NormalizeType(n) = n
    BY NormalizeIsNormal DEF Normal
  <2>8. CASE ExtendedJSON \in {a, b}
    <3>1. ExtendedJSON \in {m, n}
      BY <2>8, NormalizeShapes, Unwrappable
    <3> QED
      BY <2>7, <2>8, <3>1, UnifyShapes
  <2>9. CASE Undefined \in {a, b}
    <3>1. (a = Undefined => m = Undefined) /\ (b = Undefined => n = Undefined)
      BY NormalizeShapes, Unwrappable
    <3> QED
      BY <2>7, <2>9, <3>1, UnifyShapes
  <2>10. CASE IsNullable(a) /\ b \notin {ExtendedJSON, Undefined}
    <3>1. UnifyType(a, b) = MakeNullable(UnifyType(NormalizeType(c), n))
      BY <2>4, <2>10, UnifyShapes
    <3>2. m = MakeNullable(NormalizeType(c)) /\ NormalizeType(c) \in Normal
      BY <2>2, <2>10, NormalizeNullable, NormalizeIsNormal, Unwrapped
    <3> HIDE DEF m, n
    <3>3. UnifyType(m, n) = MakeNullable(UnifyType(NormalizeType(c), n))
      BY <2>7, <3>2, NormalLifts
    <3> QED
      BY <3>1, <3>3 DEF m, n
  <2>11. CASE IsNullable(b) /\ ~IsNullable(a) /\ a \notin {ExtendedJSON, Undefined}
    <3>1. UnifyType(a, b) = MakeNullable(UnifyType(m, NormalizeType(d)))
      BY <2>5, <2>11, UnifyShapes
    <3>2. n = MakeNullable(NormalizeType(d)) /\ NormalizeType(d) \in Normal
      BY <2>3, <2>11, NormalizeNullable, NormalizeIsNormal, Unwrapped
    <3> HIDE DEF m, n
    <3>3. UnifyType(m, n) = MakeNullable(UnifyType(m, NormalizeType(d)))
      BY <2>7, <3>2, NormalLifts
    <3> QED
      BY <3>1, <3>3 DEF m, n
  <2>12. CASE NullType \in {a, b} /\ ~IsNullable(a) /\ ~IsNullable(b) /\ {a, b} \cap {ExtendedJSON, Undefined} = {}
    <3>1. ASSUME NEW t \in Type, ~IsNullable(t), t # Undefined
          PROVE  ~IsNullable(NormalizeType(t)) /\ NormalizeType(t) # Undefined
      <4>1. CASE IsArray(t)
        <5>1. ~IsScalar(NormalizeType(t))
          BY <4>1, NormalizeShapes, Unwrapped, Wrapped
        <5> QED
          BY <3>1, <5>1, NormalizeKeeps, Unwrappable
      <4> QED
        BY <3>1, <4>1, NormalizeShapes
    <3>2. (a = NullType => m = NullType) /\ (b = NullType => n = NullType)
      BY NormalizeShapes, Unwrappable
    <3>3. ~IsNullable(m) /\ m # Undefined /\ ~IsNullable(n) /\ n # Undefined
      BY <2>12, <3>1
    <3>4. /\ a = NullType => UnifyType(a, b) = MakeNullable(n)
          /\ b = NullType => UnifyType(a, b) = MakeNullable(m)
      <4>1. /\ a = NullType => UnifyType(a, b) = MakeNullable(NormalizeType(b))
            /\ b = NullType => UnifyType(a, b) = MakeNullable(NormalizeType(a))
        BY <2>12, UnifyShapes
      <4> QED
        BY <4>1
    <3> HIDE DEF m, n
    <3>5. /\ a = NullType => UnifyType(m, n) = MakeNullable(n)
          /\ b = NullType => UnifyType(m, n) = MakeNullable(m)
      <4>1. /\ m = NullType => UnifyType(m, n) = MakeNullable(NormalizeType(n))
            /\ n = NullType => UnifyType(m, n) = MakeNullable(NormalizeType(m))
        BY <2>7, <3>3, UnifyShapes
      <4> QED
        BY <2>7, <3>2, <4>1
    <3>6. UnifyType(a, b) = UnifyType(m, n)
      BY <2>12, <3>4, <3>5
    <3> QED
      BY <3>6 DEF m, n
  <2>13. CASE Solid(a) /\ Solid(b)
    <3>1. /\ Solid(m) /\ Solid(n)
          /\ ~IsArray(a) => m = a
          /\ ~IsArray(b) => n = b
          /\ IsArray(a) => IsArray(m) /\ Underlying(m) = NormalizeType(c)
          /\ IsArray(b) => IsArray(n) /\ Underlying(n) = NormalizeType(d)
      BY <2>13, SolidNormalizes
    <3>2. /\ IsArray(a) => ~IsScalar(a) /\ ~IsNamed(a)
          /\ IsArray(b) => ~IsScalar(b) /\ ~IsNamed(b)
          /\ IsArray(m) => ~IsScalar(m) /\ ~IsNamed(m)
          /\ IsArray(n) => ~IsScalar(n) /\ ~IsNamed(n)
      BY <2>7, Unwrapped
    <3>3. UnifyType(a, b) = IF IsScalar(a) /\ IsScalar(b) THEN UnifyScalars(a, b)
                            ELSE IF IsNamed(a) /\ a = b THEN a
                            ELSE IF IsArray(a) /\ IsArray(b) THEN ArrayOf(UnifyType(c, d)) ELSE ExtendedJSON
      BY <2>13, UnifyShapes
    <3>4. UnifyType(m, n) = IF IsScalar(m) /\ IsScalar(n) THEN UnifyScalars(m, n)
                            ELSE IF IsNamed(m) /\ m = n THEN m
                            ELSE IF IsArray(m) /\ IsArray(n) THEN ArrayOf(UnifyType(Underlying(m), Underlying(n)))
                            ELSE ExtendedJSON
      BY <2>7, <3>1, UnifyShapes
    <3> HIDE DEF m, n
    <3>5. UnifyType(a, b) = UnifyType(m, n)
      <4>1. CASE IsArray(a) /\ IsArray(b)
        BY <2>6, <3>1, <3>2, <3>3, <3>4, <4>1
      <4>2. CASE ~IsArray(a) /\ ~IsArray(b)
        BY <3>1, <3>3, <3>4, <4>2
      <4>3. CASE IsArray(a) /\ ~IsArray(b)
        BY <3>1, <3>2, <3>3, <3>4, <4>3
      <4>4. CASE ~IsArray(a) /\ IsArray(b)
        BY <3>1, <3>2, <3>3, <3>4, <4>4
      <4> QED
        BY <4>1, <4>2, <4>3, <4>4
    <3> QED
      BY <3>5 DEF m, n
  <2> HIDE DEF Law
  <2> QED
    BY <2>8, <2>9, <2>10, <2>11, <2>12, <2>13 DEF Solid, AdmitsNull
<1>2. \A a, b \in Type :
        (\A c, d \in Type : Depth(c) + Depth(d) < Depth(a) + Depth(b) => <<c, d>> \in S) => <<a, b>> \in S
  <2>1. \A a, b \in Type : <<a, b>> \in S <=> Law(a, b)
    OBVIOUS
  <2> HIDE DEF S, Law
  <2> QED
    BY <1>1, <2>1
<1>3. \A a, b \in Type : <<a, b>> \in S
  <2> HIDE DEF S
  <2> QED
    BY <1>2, PairInduction
<1> QED
  BY <1>3

\* unify_type does not depend on the order of its arguments (type_unification.rs:243,
\* test_unify_type_is_commutative, which tests it for types chosen at random).
THEOREM UnifyIsCommutative == \A a, b \in Type : UnifyType(a, b) = UnifyType(b, a)
BY UnifyNormalizes, NormalCommutes, NormalizeIsNormal

\* Nor does it matter which two of three types are unified first (type_unification.rs:252,
\* test_unify_type_is_associative).
THEOREM UnifyIsAssociative ==
    \A a, b, c \in Type : UnifyType(UnifyType(a, b), c) = UnifyType(a, UnifyType(b, c))
<1> SUFFICES ASSUME NEW a \in Type, NEW b \in Type, NEW c \in Type
             PROVE  UnifyType(UnifyType(a, b), c) = UnifyType(a, UnifyType(b, c))
  OBVIOUS
<1> DEFINE l == NormalizeType(a)
           m == NormalizeType(b)
           n == NormalizeType(c)
<1>1. l \in Normal /\ m \in Normal /\ n \in Normal /\ l \in Type /\ m \in Type /\ n \in Type
  BY NormalizeIsNormal DEF Normal
<1>2. UnifyType(a, b) = UnifyType(l, m) /\ UnifyType(b, c) = UnifyType(m, n)
  BY UnifyNormalizes
<1> HIDE DEF l, m, n
<1>3. UnifyType(l, m) \in Normal /\ UnifyType(m, n) \in Normal
  BY <1>1, UnifyShapes
<1>4. \A x \in Normal : x \in Type /\ NormalizeType(x) = x
  BY DEF Normal
<1>5. UnifyType(UnifyType(a, b), c) = UnifyType(UnifyType(l, m), n)
  BY <1>2, <1>3, <1>4, UnifyNormalizes DEF n
<1>6. UnifyType(a, UnifyType(b, c)) = UnifyType(l, UnifyType(m, n))
  BY <1>2, <1>3, <1>4, UnifyNormalizes DEF l
<1> QED
  BY <1>1, <1>5, <1>6, NormalAssociates

\* A type unified with itself is the type, normalized (type_unification.rs:235,
\* test_type_unifies_with_itself_and_normalizes).
THEOREM UnifyIsIdempotent == \A a \in Type : UnifyType(a, a) = NormalizeType(a)
<1> DEFINE S == {t \in Type : UnifyType(t, t) = NormalizeType(t)}
<1>1. ASSUME NEW t \in Type, \A u \in Type : Depth(u) < Depth(t) => UnifyType(u, u) = NormalizeType(u)
      PROVE  UnifyType(t, t) = NormalizeType(t)
  <2>1. CASE t \in {ExtendedJSON, Undefined, NullType}
    <3>1. NormalizeType(t) = t /\ MakeNullable(NullType) = NullType
      BY <2>1, NormalizeShapes, Unwrappable DEF MakeNullable
    <3> QED
      BY <2>1, <3>1, UnifyShapes, Unwrappable
  <2>2. CASE IsNullable(t)
    <3>1. PICK u \in Type : t = Nullable(u) /\ Depth(u) < Depth(t)
      BY <2>2, Unwrapped
    <3> DEFINE n == NormalizeType(u)
    <3>2. n \in Normal /\ NormalizeType(t) = MakeNullable(n) /\ UnifyType(n, n) = n
      BY <1>1, <3>1, NormalizeIsNormal, NormalizeNullable, UnifyNormalizes
    <3>3. UnifyType(t, t) = UnifyType(MakeNullable(n), MakeNullable(n))
      BY <3>1, <3>2, UnifyNormalizes
    <3> HIDE DEF n
    <3>4. UnifyType(MakeNullable(n), MakeNullable(n)) = MakeNullable(MakeNullable(UnifyType(n, n)))
      BY <3>2, NormalLifts, NormalParts
    <3> QED
      BY <3>2, <3>3, <3>4, MakesNullable DEF Normal
  <2>3. CASE Solid(t)
    <3>1. IsScalar(t) => UnifyScalars(t, t) = t
      BY ScalarsUnify
    <3>2. IsArray(t) => ArrayOf(UnifyType(Underlying(t), Underlying(t))) = NormalizeType(t)
      BY <1>1, NormalizeShapes, Unwrapped
    <3>3. ~IsArray(t) => NormalizeType(t) = t
      BY <2>3, SolidNormalizes
    <3>4. IsScalar(t) \/ IsNamed(t) \/ IsArray(t)
      BY <2>3, Unwrapped, Unwrappable DEF Solid, AdmitsNull
    <3> QED
      BY <2>3, <3>1, <3>2, <3>3, <3>4, UnifyShapes, Unwrapped, Unwrappable
  <2> QED
    BY <2>1, <2>2, <2>3 DEF Solid, AdmitsNull
<1>2. \A t \in Type : (\A u \in Type : Depth(u) < Depth(t) => u \in S) => t \in S
  BY <1>1
<1>3. \A t \in Type : t \in S
  <2> HIDE DEF S
  <2> QED
    BY <1>2, TypeInduction
<1> QED
  BY <1>3

\* Undefined is the unit of unification and ExtendedJSON its zero (type_unification.rs:261-285,
\* test_undefined_is_left_identity and the three tests after it).
THEOREM UnifyHasUnitAndZero ==
    \A a \in Type : /\ UnifyType(Undefined, a) = NormalizeType(a) /\ UnifyType(a, Undefined) = NormalizeType(a)
                    /\ UnifyType(ExtendedJSON, a) = ExtendedJSON /\ UnifyType(a, ExtendedJSON) = ExtendedJSON
BY UnifyShapes, Unwrappable

\* One type admits what another does: unifying it with the other adds nothing to the other.
AtMost(a, b) == UnifyType(a, b) = b

\* On normalized types this is a partial order, between Undefined and ExtendedJSON, with
\* Nullable(T) above T; unify_type gives the least type above both of its arguments, as its
\* comment says (type_unification.rs:20-21).
THEOREM UnifyIsLeastUpperBound ==
    ASSUME NEW a \in Normal, NEW b \in Normal, NEW c \in Normal
    PROVE  /\ AtMost(Undefined, a) /\ AtMost(a, ExtendedJSON) /\ AtMost(a, MakeNullable(a))
           /\ AtMost(a, a)
           /\ AtMost(a, b) /\ AtMost(b, a) => a = b
           /\ AtMost(a, b) /\ AtMost(b, c) => AtMost(a, c)
           /\ AtMost(a, UnifyType(a, b)) /\ AtMost(b, UnifyType(a, b))
           /\ AtMost(a, c) /\ AtMost(b, c) => AtMost(UnifyType(a, b), c)
<1>1. \A x \in Normal : x \in Type /\ NormalizeType(x) = x
  BY DEF Normal
<1>2. \A x \in Normal : UnifyType(x, x) = x
  BY <1>1, UnifyIsIdempotent
<1>3. \A x, y \in Normal : UnifyType(x, y) = UnifyType(y, x)
  BY NormalCommutes
<1>4. \A x, y, z \in Normal : UnifyType(UnifyType(x, y), z) = UnifyType(x, UnifyType(y, z))
  BY NormalAssociates
<1>5. AtMost(Undefined, a) /\ AtMost(a, ExtendedJSON)
  BY <1>1, UnifyHasUnitAndZero DEF AtMost
<1>6. AtMost(a, MakeNullable(a))
  BY <1>2, NormalLifts DEF AtMost
<1>7. AtMost(a, b) /\ AtMost(b, a) => a = b
  BY <1>3 DEF AtMost
<1>8. AtMost(a, b) /\ AtMost(b, c) => AtMost(a, c)
  BY <1>4 DEF AtMost
<1>9. AtMost(a, UnifyType(a, b))
  BY <1>2, <1>4 DEF AtMost
<1>10. AtMost(b, UnifyType(a, b))
  <2>1. UnifyType(b, UnifyType(b, a)) = UnifyType(b, a)
    BY <1>2, <1>4
  <2> QED
    BY <1>3, <2>1 DEF AtMost
<1>11. AtMost(a, c) /\ AtMost(b, c) => AtMost(UnifyType(a, b), c)
  BY <1>4 DEF AtMost
<1> QED
  BY <1>2, <1>5, <1>6, <1>7, <1>8, <1>9, <1>10, <1>11 DEF AtMost

------------------------------------------------------------------------------
\* Object types, functions from the names of fields to types, and sets of them, functions
\* from the names of object types to object types.
IsObjectType(o)  == o = [f \in DOMAIN o |-> o[f]] /\ \A f \in DOMAIN o : o[f] \in Type
IsObjectTypes(s) == s = [n \in DOMAIN s |-> s[n]] /\ \A n \in DOMAIN s : IsObjectType(s[n])

\* Making either side nullable makes the result nullable, normalized or not.
LEMMA UnifyLifts ==
    ASSUME NEW a \in Type, NEW b \in Type
    PROVE  /\ UnifyType(MakeNullable(a), b) = MakeNullable(UnifyType(a, b))
           /\ UnifyType(a, MakeNullable(b)) = MakeNullable(UnifyType(a, b))
<1> DEFINE m == NormalizeType(a)
           n == NormalizeType(b)
<1>1. m \in Normal /\ n \in Normal /\ UnifyType(a, b) = UnifyType(m, n)
  BY NormalizeIsNormal, UnifyNormalizes
<1>2. /\ UnifyType(MakeNullable(a), b) = UnifyType(MakeNullable(m), n)
      /\ UnifyType(a, MakeNullable(b)) = UnifyType(m, MakeNullable(n))
  BY UnifyNormalizes, MakesNullable, NormalizeNullable
<1> HIDE DEF m, n
<1> QED
  BY <1>1, <1>2, NormalLifts

\* Two functions with the same arguments and the same values are the same.
LEMMA SameFunction ==
    ASSUME NEW f, NEW g, f = [x \in DOMAIN f |-> f[x]], g = [x \in DOMAIN g |-> g[x]],
           DOMAIN f = DOMAIN g, \A x \in DOMAIN f : f[x] = g[x]
    PROVE  f = g
OBVIOUS

\* The fields of a unified object type.
LEMMA UnifiedFields ==
    ASSUME NEW a, NEW b, IsObjectType(a), IsObjectType(b)
    PROVE  /\ IsObjectType(UnifyObjectType(a, b))
           /\ \A f : f \in DOMAIN UnifyObjectType(a, b) <=> f \in DOMAIN a \/ f \in DOMAIN b
           /\ \A f \in DOMAIN a : f \notin DOMAIN b => UnifyObjectType(a, b)[f] = MakeNullable(a[f])
           /\ \A f \in DOMAIN b : f \notin DOMAIN a => UnifyObjectType(a, b)[f] = MakeNullable(b[f])
           /\ \A f \in DOMAIN a : f \in DOMAIN b => UnifyObjectType(a, b)[f] = UnifyType(a[f], b[f])
<1> DEFINE u == UnifyObjectType(a, b)
<1>1. /\ u = [f \in DOMAIN u |-> u[f]]
      /\ DOMAIN u = DOMAIN a \cup DOMAIN b
      /\ \A f \in DOMAIN a \ DOMAIN b : u[f] = MakeNullable(a[f])
      /\ \A f \in DOMAIN b \ DOMAIN a : u[f] = MakeNullable(b[f])
      /\ \A f \in DOMAIN a \cap DOMAIN b : u[f] = UnifyType(a[f], b[f])
  BY DEF UnifyObjectType
<1>2. \A f \in DOMAIN u : u[f] \in Type
  <2>1. /\ \A f \in DOMAIN a : a[f] \in Type /\ MakeNullable(a[f]) \in Type
        /\ \A f \in DOMAIN b : b[f] \in Type /\ MakeNullable(b[f]) \in Type
    BY MakesNullable DEF IsObjectType
  <2>2. \A x, y \in Type : UnifyType(x, y) \in Type
    BY UnifyShapes DEF Normal
  <2> HIDE DEF u
  <2> QED
    BY <1>1, <2>1, <2>2
<1> HIDE DEF u
<1>3. IsObjectType(u)
  BY <1>1, <1>2 DEF IsObjectType
<1> QED
  BY <1>1, <1>3 DEF u

\* No field is lost, and one that is not in both object types admits null
\* (type_unification.rs:297, test_object_type_unification).
THEOREM UnsharedFieldsAdmitNull ==
    ASSUME NEW a, NEW b, IsObjectType(a), IsObjectType(b)
    PROVE  /\ DOMAIN UnifyObjectType(a, b) = DOMAIN a \cup DOMAIN b
           /\ \A f \in DOMAIN UnifyObjectType(a, b) :
                  f \notin DOMAIN a \cap DOMAIN b => AdmitsNull(UnifyObjectType(a, b)[f])
<1>1. \A f : (f \in DOMAIN a => AdmitsNull(MakeNullable(a[f]))) /\ (f \in DOMAIN b => AdmitsNull(MakeNullable(b[f])))
  BY MakesNullable DEF IsObjectType
<1> QED
  BY <1>1, UnifiedFields

\* The order of two object types does not matter, nor does which of three are unified first.
THEOREM ObjectTypesUnifyInAnyOrder ==
    ASSUME NEW a, NEW b, NEW c, IsObjectType(a), IsObjectType(b), IsObjectType(c)
    PROVE  /\ UnifyObjectType(a, b) = UnifyObjectType(b, a)
           /\ UnifyObjectType(UnifyObjectType(a, b), c) = UnifyObjectType(a, UnifyObjectType(b, c))
<1> DEFINE U(x, y) == UnifyObjectType(x, y)
<1>1. \A x, y : IsObjectType(x) /\ IsObjectType(y) =>
        /\ IsObjectType(U(x, y))
        /\ \A f : f \in DOMAIN U(x, y) <=> f \in DOMAIN x \/ f \in DOMAIN y
        /\ \A f \in DOMAIN x : f \notin DOMAIN y => U(x, y)[f] = MakeNullable(x[f])
        /\ \A f \in DOMAIN y : f \notin DOMAIN x => U(x, y)[f] = MakeNullable(y[f])
        /\ \A f \in DOMAIN x : f \in DOMAIN y => U(x, y)[f] = UnifyType(x[f], y[f])
  BY UnifiedFields
<1>2. \A x : IsObjectType(x) => x = [f \in DOMAIN x |-> x[f]] /\ \A f \in DOMAIN x : x[f] \in Type
  BY DEF IsObjectType
<1> HIDE DEF U
<1>3. U(a, b) = U(b, a)
  <2>1. /\ U(a, b) = [f \in DOMAIN U(a, b) |-> U(a, b)[f]] /\ U(b, a) = [f \in DOMAIN U(b, a) |-> U(b, a)[f]]
        /\ DOMAIN U(a, b) = DOMAIN U(b, a)
    BY <1>1, <1>2
  <2>2. ASSUME NEW f \in DOMAIN U(a, b) PROVE U(a, b)[f] = U(b, a)[f]
    BY <1>1, <1>2, UnifyIsCommutative
  <2> QED
    BY <2>1, <2>2, SameFunction
<1>4. U(U(a, b), c) = U(a, U(b, c))
  <2> DEFINE l == U(U(a, b), c)
             r == U(a, U(b, c))
  <2>1. IsObjectType(U(a, b)) /\ IsObjectType(U(b, c)) /\ IsObjectType(l) /\ IsObjectType(r)
    BY <1>1
  <2>2. \A f : /\ f \in DOMAIN U(a, b) <=> f \in DOMAIN a \/ f \in DOMAIN b
               /\ f \in DOMAIN U(b, c) <=> f \in DOMAIN b \/ f \in DOMAIN c
    BY <1>1
  <2>3. \A f : /\ f \in DOMAIN l <=> f \in DOMAIN a \/ f \in DOMAIN b \/ f \in DOMAIN c
               /\ f \in DOMAIN r <=> f \in DOMAIN a \/ f \in DOMAIN b \/ f \in DOMAIN c
    BY <1>1, <2>1, <2>2
  <2>4. ASSUME NEW f \in DOMAIN l PROVE l[f] = r[f]
    <3> DEFINE x == a[f]
               y == b[f]
               z == c[f]
    <3>1. (f \in DOMAIN a => x \in Type) /\ (f \in DOMAIN b => y \in Type) /\ (f \in DOMAIN c => z \in Type)
      BY <1>2
    <3>2. \A s \in Type : MakeNullable(MakeNullable(s)) = MakeNullable(s)
      BY MakesNullable
    <3>3. \A s, t \in Type : /\ UnifyType(MakeNullable(s), t) = MakeNullable(UnifyType(s, t))
                             /\ UnifyType(s, MakeNullable(t)) = MakeNullable(UnifyType(s, t))
      BY UnifyLifts
    <3>4. \A s, t, v \in Type : UnifyType(UnifyType(s, t), v) = UnifyType(s, UnifyType(t, v))
      BY UnifyIsAssociative
    <3>5. CASE f \in DOMAIN a /\ f \in DOMAIN b /\ f \in DOMAIN c
      <4>1. l[f] = UnifyType(UnifyType(x, y), z) /\ r[f] = UnifyType(x, UnifyType(y, z))
        BY <1>1, <2>1, <2>2, <3>5
      <4> QED
        BY <3>1, <3>4, <3>5, <4>1
    <3>6. CASE f \in DOMAIN a /\ f \in DOMAIN b /\ f \notin DOMAIN c
      <4>1. l[f] = MakeNullable(UnifyType(x, y)) /\ r[f] = UnifyType(x, MakeNullable(y))
        BY <1>1, <2>1, <2>2, <3>6
      <4> QED
        BY <3>1, <3>3, <3>6, <4>1
    <3>7. CASE f \in DOMAIN a /\ f \notin DOMAIN b /\ f \in DOMAIN c
      <4>1. l[f] = UnifyType(MakeNullable(x), z) /\ r[f] = UnifyType(x, MakeNullable(z))
        BY <1>1, <2>1, <2>2, <3>7
      <4> QED
        BY <3>1, <3>3, <3>7, <4>1
    <3>8. CASE f \notin DOMAIN a /\ f \in DOMAIN b /\ f \in DOMAIN c
      <4>1. l[f] = UnifyType(MakeNullable(y), z) /\ r[f] = MakeNullable(UnifyType(y, z))
        BY <1>1, <2>1, <2>2, <3>8
      <4> QED
        BY <3>1, <3>3, <3>8, <4>1
    <3>9. CASE f \in DOMAIN a /\ f \notin DOMAIN b /\ f \notin DOMAIN c
      <4>1. l[f] = MakeNullable(MakeNullable(x)) /\ r[f] = MakeNullable(x)
        BY <1>1, <2>1, <2>2, <3>9
      <4> QED
        BY <3>1, <3>2, <3>9, <4>1
    <3>10. CASE f \notin DOMAIN a /\ f \in DOMAIN b /\ f \notin DOMAIN c
      BY <1>1, <2>1, <2>2, <3>10
    <3>11. CASE f \notin DOMAIN a /\ f \notin DOMAIN b /\ f \in DOMAIN c
      <4>1. l[f] = MakeNullable(z) /\ r[f] = MakeNullable(MakeNullable(z))
        BY <1>1, <2>1, <2>2, <3>11
      <4> QED
        BY <3>1, <3>2, <3>11, <4>1
    <3> QED
      BY <2>3, <3>5, <3>6, <3>7, <3>8, <3>9, <3>10, <3>11
  <2>5. l = [f \in DOMAIN l |-> l[f]] /\ r = [f \in DOMAIN r |-> r[f]] /\ DOMAIN l = DOMAIN r
    BY <1>2, <2>1, <2>3
  <2> HIDE DEF l, r
  <2>6. l = r
    BY <2>4, <2>5, SameFunction
  <2> QED
    BY <2>6 DEF l, r
<1> QED
  BY <1>3, <1>4 DEF U

\* The object types of unified sets of them.
LEMMA UnifiedTypes ==
    ASSUME NEW x, NEW y, IsObjectTypes(x), IsObjectTypes(y)
    PROVE  /\ IsObjectTypes(UnifyObjectTypes(x, y))
           /\ \A n : n \in DOMAIN UnifyObjectTypes(x, y) <=> n \in DOMAIN x \/ n \in DOMAIN y
           /\ \A n \in DOMAIN x : n \notin DOMAIN y => UnifyObjectTypes(x, y)[n] = x[n]
           /\ \A n \in DOMAIN y : n \notin DOMAIN x => UnifyObjectTypes(x, y)[n] = y[n]
           /\ \A n \in DOMAIN x : n \in DOMAIN y => UnifyObjectTypes(x, y)[n] = UnifyObjectType(x[n], y[n])
<1> DEFINE U(a, b) == UnifyObjectType(a, b)
           v == UnifyObjectTypes(x, y)
<1>1. /\ v = [n \in DOMAIN v |-> v[n]]
      /\ DOMAIN v = DOMAIN x \cup DOMAIN y
      /\ \A n \in DOMAIN x \ DOMAIN y : v[n] = x[n]
      /\ \A n \in DOMAIN y \ DOMAIN x : v[n] = y[n]
      /\ \A n \in DOMAIN x \cap DOMAIN y : v[n] = U(x[n], y[n])
  BY DEF UnifyObjectTypes
<1>2. \A n \in DOMAIN x \cap DOMAIN y : IsObjectType(U(x[n], y[n]))
  BY UnifiedFields DEF IsObjectTypes
<1>3. (\A n \in DOMAIN x : IsObjectType(x[n])) /\ (\A n \in DOMAIN y : IsObjectType(y[n]))
  BY DEF IsObjectTypes
<1> HIDE DEF v, U
<1>4. \A n \in DOMAIN v : IsObjectType(v[n])
  BY <1>1, <1>2, <1>3
<1>5. IsObjectTypes(v)
  BY <1>1, <1>4 DEF IsObjectTypes
<1>6. /\ IsObjectTypes(v)
      /\ \A n : n \in DOMAIN v <=> n \in DOMAIN x \/ n \in DOMAIN y
      /\ \A n \in DOMAIN x : n \notin DOMAIN y => v[n] = x[n]
      /\ \A n \in DOMAIN y : n \notin DOMAIN x => v[n] = y[n]
      /\ \A n \in DOMAIN x : n \in DOMAIN y => v[n] = U(x[n], y[n])
  BY <1>1, <1>5
<1> QED
  BY <1>6 DEF v, U

\* Two sample documents may come in either order, whatever was collected before them, and
\* unifying what two parts of a sample give is unifying the whole.
THEOREM SamplesUnifyInAnyOrder ==
    ASSUME NEW a, NEW b, NEW c, IsObjectTypes(a), IsObjectTypes(b), IsObjectTypes(c)
    PROVE  /\ UnifyObjectTypes(a, b) = UnifyObjectTypes(b, a)
           /\ UnifyObjectTypes(UnifyObjectTypes(a, b), c) = UnifyObjectTypes(a, UnifyObjectTypes(b, c))
           /\ UnifyObjectTypes(UnifyObjectTypes(a, b), c) = UnifyObjectTypes(UnifyObjectTypes(a, c), b)
<1> DEFINE V(x, y) == UnifyObjectTypes(x, y)
           U(x, y) == UnifyObjectType(x, y)
<1>1. ASSUME NEW x, NEW y, IsObjectTypes(x), IsObjectTypes(y)
      PROVE  /\ IsObjectTypes(V(x, y))
             /\ \A n : n \in DOMAIN V(x, y) <=> n \in DOMAIN x \/ n \in DOMAIN y
             /\ \A n \in DOMAIN x : n \notin DOMAIN y => V(x, y)[n] = x[n]
             /\ \A n \in DOMAIN y : n \notin DOMAIN x => V(x, y)[n] = y[n]
             /\ \A n \in DOMAIN x : n \in DOMAIN y => V(x, y)[n] = U(x[n], y[n])
  BY <1>1, UnifiedTypes
<1>2. \A x, y, z : IsObjectType(x) /\ IsObjectType(y) /\ IsObjectType(z) =>
        U(x, y) = U(y, x) /\ U(U(x, y), z) = U(x, U(y, z))
  BY ObjectTypesUnifyInAnyOrder
<1>3. \A x : IsObjectTypes(x) => x = [n \in DOMAIN x |-> x[n]] /\ \A n \in DOMAIN x : IsObjectType(x[n])
  BY DEF IsObjectTypes
<1> HIDE DEF U, V
<1>4. ASSUME NEW x, NEW y, IsObjectTypes(x), IsObjectTypes(y) PROVE V(x, y) = V(y, x)
  <2>1. /\ V(x, y) = [n \in DOMAIN V(x, y) |-> V(x, y)[n]] /\ V(y, x) = [n \in DOMAIN V(y, x) |-> V(y, x)[n]]
        /\ DOMAIN V(x, y) = DOMAIN V(y, x)
    BY <1>1, <1>3, <1>4
  <2>2. ASSUME NEW n \in DOMAIN V(x, y) PROVE V(x, y)[n] = V(y, x)[n]
    BY <1>1, <1>2, <1>3, <1>4
  <2> QED
    BY <2>1, <2>2, SameFunction
<1>5. ASSUME NEW x, NEW y, NEW z, IsObjectTypes(x), IsObjectTypes(y), IsObjectTypes(z)
      PROVE  V(V(x, y), z) = V(x, V(y, z))
  <2> DEFINE l == V(V(x, y), z)
             r == V(x, V(y, z))
  <2>1. IsObjectTypes(V(x, y)) /\ IsObjectTypes(V(y, z)) /\ IsObjectTypes(l) /\ IsObjectTypes(r)
    BY <1>1, <1>5
  <2>2. \A n : /\ n \in DOMAIN V(x, y) <=> n \in DOMAIN x \/ n \in DOMAIN y
               /\ n \in DOMAIN V(y, z) <=> n \in DOMAIN y \/ n \in DOMAIN z
    BY <1>1, <1>5
  <2>3. \A n : /\ n \in DOMAIN l <=> n \in DOMAIN x \/ n \in DOMAIN y \/ n \in DOMAIN z
               /\ n \in DOMAIN r <=> n \in DOMAIN x \/ n \in DOMAIN y \/ n \in DOMAIN z
    BY <1>1, <1>5, <2>1, <2>2
  <2>4. ASSUME NEW n \in DOMAIN l PROVE l[n] = r[n]
    <3>1. CASE n \in DOMAIN x /\ n \in DOMAIN y /\ n \in DOMAIN z
      <4>1. l[n] = U(U(x[n], y[n]), z[n]) /\ r[n] = U(x[n], U(y[n], z[n]))
        BY <1>1, <1>5, <2>1, <2>2, <3>1
      <4> QED
        BY <1>2, <1>3, <1>5, <3>1, <4>1
    <3>2. CASE ~(n \in DOMAIN x /\ n \in DOMAIN y /\ n \in DOMAIN z)
      BY <1>1, <1>5, <2>1, <2>2, <2>3, <3>2
    <3> QED
      BY <3>1, <3>2
  <2>5. l = [n \in DOMAIN l |-> l[n]] /\ r = [n \in DOMAIN r |-> r[n]] /\ DOMAIN l = DOMAIN r
    BY <1>3, <2>1, <2>3
  <2> HIDE DEF l, r
  <2>6. l = r
    BY <2>4, <2>5, SameFunction
  <2> QED
    BY <2>6 DEF l, r
<1>6. V(a, b) = V(b, a) /\ V(V(a, b), c) = V(a, V(b, c))
  BY <1>4, <1>5
<1>7. V(V(a, b), c) = V(V(a, c), b)
  <2>1. V(V(a, b), c) = V(a, V(b, c)) /\ V(V(a, c), b) = V(a, V(c, b)) /\ V(b, c) = V(c, b)
    BY <1>4, <1>5
  <2> QED
    BY <2>1
<1> QED
  BY <1>6, <1>7 DEF V

\* A document that is sampled twice adds nothing the second time: b is what was made of it,
\* which make_field_type leaves normalized.
THEOREM SampledTwiceAddsNothing ==
    ASSUME NEW a, NEW b, IsObjectTypes(a), IsObjectTypes(b),
           \A n \in DOMAIN b : \A f \in DOMAIN b[n] : b[n][f] \in Normal
    PROVE  UnifyObjectTypes(UnifyObjectTypes(a, b), b) = UnifyObjectTypes(a, b)
<1>1. UnifyObjectTypes(b, b) = b
  <2> DEFINE v == UnifyObjectTypes(b, b)
  <2>1. v = [n \in DOMAIN v |-> v[n]] /\ DOMAIN v = DOMAIN b
        /\ \A n \in DOMAIN b : v[n] = UnifyObjectType(b[n], b[n])
    BY DEF UnifyObjectTypes
  <2>2. ASSUME NEW n \in DOMAIN b PROVE UnifyObjectType(b[n], b[n]) = b[n]
    <3> DEFINE o == b[n]
               u == UnifyObjectType(o, o)
    <3>1. IsObjectType(o) /\ o = [f \in DOMAIN o |-> o[f]]
      BY DEF IsObjectTypes, IsObjectType
    <3>2. u = [f \in DOMAIN u |-> u[f]] /\ DOMAIN u = DOMAIN o /\ \A f \in DOMAIN o : u[f] = UnifyType(o[f], o[f])
      BY DEF UnifyObjectType
    <3>3. \A f \in DOMAIN o : UnifyType(o[f], o[f]) = o[f]
      BY UnifyIsIdempotent DEF Normal
    <3> HIDE DEF o, u
    <3>4. u = o
      BY <3>1, <3>2, <3>3, SameFunction
    <3> QED
      BY <3>4 DEF o, u
  <2>3. b = [n \in DOMAIN b |-> b[n]]
    BY DEF IsObjectTypes
  <2> HIDE DEF v
  <2>4. v = b
    BY <2>1, <2>2, <2>3, SameFunction
  <2> QED
    BY <2>4 DEF v
<1>2. UnifyObjectTypes(UnifyObjectTypes(a, b), b) = UnifyObjectTypes(a, UnifyObjectTypes(b, b))
  BY SamplesUnifyInAnyOrder
<1> QED
  BY <1>1, <1>2
=============================================================================
