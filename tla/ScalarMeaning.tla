--------------------------- MODULE ScalarMeaning ---------------------------
(***************************************************************************)
(* What the operators and functions in the expressions of a relational     *)
(* query mean: the functions of SQL that RelationalExpression of the NDC   *)
(* specification is named after.  Positions in strings are counted from 1. *)
(*                                                                         *)
(* Strings and JSON arrays are sequences, of characters and of values, and *)
(* JSON objects are functions from names.                                  *)
(***************************************************************************)
EXTENDS Integers, Sequences, SequencesExt

CONSTANT Null

\* The operators that have something to say of nulls; of the others null makes null
NullAware == {"And", "Or", "IsNull", "IsNotNull", "IsDistinctFrom", "IsNotDistinctFrom", "IsTrue", "IsNotTrue",
              "IsFalse", "IsNotFalse", "Case", "CaseOf", "Coalesce", "Nvl", "NullIf", "Greatest", "Least"}

NonNull(v) == SelectSeq(v, LAMBDA x : x # Null)

\* v[i] is what a condition is, v[i + 1] what comes of it; the last one is for when none holds
Chosen(v, Holds(_)) ==
    LET met == {i \in 1..(Len(v) - 1) : i % 2 = 1 /\ Holds(v[i])}
    IN  IF met = {} THEN v[Len(v)] ELSE v[Min(met) + 1]

NullAwareValue(op, v) ==
    CASE op = "And" -> IF \E x \in ToSet(v) : x = FALSE THEN FALSE ELSE IF Null \in ToSet(v) THEN Null ELSE TRUE
      [] op = "Or"  -> IF \E x \in ToSet(v) : x = TRUE THEN TRUE ELSE IF Null \in ToSet(v) THEN Null ELSE FALSE
      [] op = "IsNull"     -> v[1] = Null
      [] op = "IsNotNull"  -> v[1] # Null
      [] op = "IsDistinctFrom"    -> v[1] # v[2]
      [] op = "IsNotDistinctFrom" -> v[1] = v[2]
      [] op = "IsTrue"     -> v[1] = TRUE
      [] op = "IsNotTrue"  -> v[1] # TRUE
      [] op = "IsFalse"    -> v[1] = FALSE
      [] op = "IsNotFalse" -> v[1] # FALSE
      [] op = "Case"       -> Chosen(v, LAMBDA x : x = TRUE)
      [] op = "CaseOf"     -> Chosen(Tail(v), LAMBDA x : v[1] # Null /\ x = v[1])
      [] op \in {"Coalesce", "Nvl"} -> IF NonNull(v) = <<>> THEN Null ELSE NonNull(v)[1]
      [] op = "NullIf"     -> IF v[1] = v[2] THEN Null ELSE v[1]
      [] op = "Greatest"   -> IF NonNull(v) = <<>> THEN Null ELSE Max(ToSet(NonNull(v)))
      [] op = "Least"      -> IF NonNull(v) = <<>> THEN Null ELSE Min(ToSet(NonNull(v)))

-----------------------------------------------------------------------------
(* Strings                                                                 *)

Lowercase == [A |-> "a", B |-> "b"]
Lower(s)  == [i \in DOMAIN s |-> IF s[i] \in DOMAIN Lowercase THEN Lowercase[s[i]] ELSE s[i]]

Occurrences(s, t) == {i \in 1..(Len(s) - Len(t) + 1) : SubSeq(s, i, i + Len(t) - 1) = t}
Position(s, t)    == IF Occurrences(s, t) = {} THEN 0 ELSE Min(Occurrences(s, t))

\* Of count characters from a position on, those that there are
Piece(s, position, count) == SubSeq(s, Max({1, position}), Min({Len(s), position + count - 1}))

\* count characters of a padding that is repeated
Padding(p, count) == [i \in 1..count |-> p[((i - 1) % Len(p)) + 1]]

\* What is before the count-th delimiter, or after the count-th from the right; one character delimits
SubstrIndex(s, delimiter, count) ==
    LET at == Occurrences(s, delimiter)
        nth(n) == CHOOSE p \in at : Cardinality({q \in at : q <= p}) = n
    IN  IF (IF count < 0 THEN -count ELSE count) > Cardinality(at) THEN s
        ELSE IF count >= 0 THEN (IF count = 0 THEN <<>> ELSE SubSeq(s, 1, nth(count) - 1))
        ELSE SubSeq(s, nth(Cardinality(at) + count + 1) + 1, Len(s))

\* like[i, j]: what is from the i-th character on matches what is from the j-th of the pattern on
Like(s, pattern) ==
    LET like[i \in 1..(Len(s) + 1), j \in 1..(Len(pattern) + 1)] ==
            LET next(rest) == i <= Len(s) /\ like[i + 1, rest]
            IN  IF j > Len(pattern) THEN i > Len(s)
                ELSE CASE pattern[j] = "%" -> like[i, j + 1] \/ next(j)
                       [] pattern[j] = "_" -> next(j + 1)
                       [] pattern[j] = "\\" /\ j < Len(pattern) -> next(j + 2) /\ s[i] = pattern[j + 1]
                       [] OTHER -> next(j + 1) /\ s[i] = pattern[j]
    IN  like[1, 1]

StringValue(op, v) ==
    CASE op = "Concat"          -> FlattenSeq(v)
      [] op = "CharacterLength" -> Len(v[1])
      [] op = "Substr"          -> Piece(v[1], v[2], IF Len(v) = 3 THEN v[3] ELSE Len(v[1]) - v[2] + 1)
      [] op = "StrPos"          -> Position(v[1], v[2])
      [] op = "Contains"        -> Position(v[1], v[2]) > 0
      [] op = "Left"            -> Piece(v[1], 1, v[2])
      [] op = "Right"           -> Piece(v[1], Len(v[1]) - v[2] + 1, v[2])
      [] op = "Reverse"         -> Reverse(v[1])
      [] op \in {"LPad", "RPad"} ->
           LET padding == Padding(IF Len(v) = 3 THEN v[3] ELSE <<" ">>, v[2] - Len(v[1]))
           IN  IF Len(v[1]) >= v[2] THEN Piece(v[1], 1, v[2])
               ELSE IF op = "LPad" THEN padding \o v[1] ELSE v[1] \o padding
      [] op = "SubstrIndex" -> SubstrIndex(v[1], v[2], v[3])
      [] op = "ToLower"     -> Lower(v[1])
      [] op = "Replace"     -> FlattenSeq([i \in DOMAIN v[1] |-> IF <<v[1][i]>> = v[2] THEN v[3] ELSE <<v[1][i]>>])
      [] op = "Like"        -> Like(v[1], v[2])
      [] op = "NotLike"     -> ~Like(v[1], v[2])
      [] op = "ILike"       -> Like(Lower(v[1]), Lower(v[2]))
      [] op = "NotILike"    -> ~Like(Lower(v[1]), Lower(v[2]))

-----------------------------------------------------------------------------

\* A key is a name, or a path in dots from the root, "$", as the parts between them
Segments(key) == IF key[1] = "$" THEN Tail(key) ELSE key

\* v[1] followed along keys
JsonAt(v) == FoldLeft(LAMBDA json, name : IF json = Null \/ name \notin DOMAIN json THEN Null ELSE json[name],
                      v[1], FlattenSeq([i \in 1..(Len(v) - 1) |-> Segments(v[i + 1])]))

\* Where an operator looks: what JsonContains looks for is no key
JsonFound(op, v) == JsonAt(IF op = "JsonContains" THEN Front(v) ELSE v)

\* Given what is found there
OfJson(op, json, value) == IF op = "JsonGet" \/ json = Null THEN json
                           ELSE IF op = "JsonLength" THEN Len(json) ELSE value \in ToSet(json)

JsonValue(op, v) == IF op # "ArrayElement" THEN OfJson(op, JsonFound(op, v), Last(v))
                    ELSE IF v[2] < Len(v[1]) THEN v[1][v[2] + 1] ELSE Null

\* With the sign of the dividend
Remainder(a, b) == LET abs(i) == IF i < 0 THEN -i ELSE i
                   IN  IF a < 0 THEN -(abs(a) % abs(b)) ELSE abs(a) % abs(b)

\* What an operator makes of the values of its operands
Applied(op, v) ==
    IF op \in NullAware THEN NullAwareValue(op, v)
    ELSE IF \E i \in DOMAIN v : v[i] = Null THEN Null
    ELSE CASE op = "Not"   -> ~v[1]
           [] op = "Eq"    -> v[1] = v[2]
           [] op = "NotEq" -> v[1] # v[2]
           [] op = "Lt"    -> v[1] < v[2]
           [] op = "LtEq"  -> v[1] <= v[2]
           [] op = "Gt"    -> v[1] > v[2]
           [] op = "GtEq"  -> v[1] >= v[2]
           [] op = "In"    -> v[1] \in ToSet(Tail(v))
           [] op = "NotIn" -> v[1] \notin ToSet(Tail(v))
           [] op = "Between"    -> v[1] <= v[2] /\ v[2] <= v[3]
           [] op = "NotBetween" -> v[2] < v[1] \/ v[3] < v[2]
           [] op = "IsZero"   -> v[1] = 0
           [] op = "Plus"     -> v[1] + v[2]
           [] op = "Minus"    -> v[1] - v[2]
           [] op = "Multiply" -> v[1] * v[2]
           [] op = "Modulo"   -> IF v[2] = 0 THEN Null ELSE Remainder(v[1], v[2])    \* an error, by zero
           [] op = "Negate"   -> -v[1]
           [] op \in {"JsonGet", "JsonLength", "JsonContains", "ArrayElement"} -> JsonValue(op, v)
           [] OTHER -> StringValue(op, v)
=============================================================================
