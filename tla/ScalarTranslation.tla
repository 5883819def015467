------------------------- MODULE ScalarTranslation -------------------------
(***************************************************************************)
(* The aggregation expression for an operator of a relational expression   *)
(* (mongodb-agent-common/src/relational/expression.rs), given those for    *)
(* its operands: a, a sequence.                                            *)
(***************************************************************************)
EXTENDS RelationalAlgebra

Path(path)           == [op |-> "Path", path |-> path]
Var(name)            == [op |-> "Var", name |-> name]
Cond(if, then, else) == [op |-> "$cond", if |-> if, then |-> then, else |-> else]

\* The operators that MongoDB has too
Renamed == [And |-> "$and", Or |-> "$or", Not |-> "$not", Eq |-> "$eq", NotEq |-> "$ne", Lt |-> "$lt", LtEq |-> "$lte",
            Gt |-> "$gt", GtEq |-> "$gte", Plus |-> "$add", Minus |-> "$subtract", Multiply |-> "$multiply",
            Modulo |-> "$mod", Nvl |-> "$ifNull", Greatest |-> "$max", Least |-> "$min", Concat |-> "$concat",
            CharacterLength |-> "$strLenCP", ToLower |-> "$toLower", Replace |-> "$replaceAll",
            ArrayElement |-> "$arrayElemAt"]

Equals(x, y)   == Call("$eq", <<x, y>>)
Minus(x, y)    == Call("$subtract", <<x, y>>)
Concat(xs)     == Call("$concat", xs)
Length(s)      == Call("$strLenCP", <<s>>)
Part(s, position, count) == Call("$substrCP", <<s, position, count>>)
\* A list reduced to a string
ReduceToString(input, initial, in) == [op |-> "$reduce", input |-> input, initial |-> Literal(initial), in |-> in]

NotDistinct(a) == Call("$or", << Call("$and", <<Equals(a[1], Literal(Null)), Equals(a[2], Literal(Null))>>),
                                 Equals(a[1], a[2]) >>)

TranslateLogic(op, a) ==
    CASE op = "IsDistinctFrom"    -> Call("$not", <<NotDistinct(a)>>)
      [] op = "IsNotDistinctFrom" -> NotDistinct(a)
      [] op = "IsNull"     -> Equals(a[1], Literal(Null))
      [] op = "IsNotNull"  -> Call("$ne", <<a[1], Literal(Null)>>)
      [] op = "IsTrue"     -> Equals(a[1], Literal(TRUE))
      [] op = "IsFalse"    -> Equals(a[1], Literal(FALSE))
      [] op = "IsNotTrue"  -> Call("$ne", <<a[1], Literal(TRUE)>>)
      [] op = "IsNotFalse" -> Call("$ne", <<a[1], Literal(FALSE)>>)
      [] op = "In"         -> Call("$in", <<a[1], Call("$array", Tail(a))>>)
      [] op = "NotIn"      -> Call("$not", << Call("$in", <<a[1], Call("$array", Tail(a))>>) >>)
      [] op = "Negate"     -> Call("$multiply", <<Literal(-1), a[1]>>)

\* a is low, expr and high for Between
TranslateComparison(op, a) ==
    CASE op = "Between"    -> Call("$and", <<Call("$gte", <<a[2], a[1]>>), Call("$lte", <<a[2], a[3]>>)>>)
      [] op = "NotBetween" -> Call("$or", <<Call("$lt", <<a[2], a[1]>>), Call("$gt", <<a[2], a[3]>>)>>)
      [] op = "Contains"   -> Call("$gte", <<Call("$indexOfCP", <<a[1], a[2]>>), Literal(0)>>)
      [] op = "IsZero"     -> Equals(a[1], Literal(0))

-----------------------------------------------------------------------------

\* a for Case: a condition, a result, and so on, and the default at the end
Branches(a, Condition(_)) ==
    [op |-> "$switch", default |-> Last(a),
     branches |-> [i \in 1..(Len(a) \div 2) |-> [case |-> Condition(a[2 * i - 1]), then |-> a[2 * i]]]]

TranslateConditional(op, a) ==
    CASE op = "Case"     -> Branches(a, LAMBDA when : when)
      [] op = "CaseOf"   -> Branches(Tail(a), LAMBDA when : Equals(a[1], when))
      [] op = "Coalesce" -> FoldRight(LAMBDA x, rest : Call("$ifNull", <<x, rest>>), a, Literal(Null))
      [] op = "NullIf"   -> Cond(Equals(a[1], a[2]), Literal(Null), a[1])

-----------------------------------------------------------------------------

TranslateSubstring(op, a) ==
    CASE op = "Substr" ->
           LET start == Minus(a[2], Literal(1))
           IN  Part(a[1], start, IF Len(a) = 3 THEN a[3]
                                 ELSE Call("$max", <<Minus(Length(a[1]), start), Literal(0)>>))
      [] op = "StrPos" ->
           LET index == Call("$indexOfCP", <<a[1], a[2]>>)
           IN  Cond(Equals(index, Literal(-1)), Literal(0), Call("$add", <<index, Literal(1)>>))

TranslateSides(op, a) ==
    CASE op = "Left"    -> Part(a[1], Literal(0), a[2])
      [] op = "Right"   -> Part(a[1], Call("$max", <<Minus(Length(a[1]), a[2]), Literal(0)>>), a[2])
      [] op = "Reverse" ->
           ReduceToString(
               Call("$reverseArray", << [op |-> "$map", input |-> Call("$range", <<Literal(0), Length(a[1])>>), as |-> "i",
                                         in |-> Part(a[1], Var("i"), Literal(1))] >>),
               <<>>, Concat(<<Var("value"), Var("this")>>))

TranslatePad(op, a) ==
    LET str    == Var("str")
        target == Var("targetLen")
        char   == Part(Var("padChar"), Call("$mod", <<Var("this"), Length(Var("padChar"))>>), Literal(1))
        padding == ReduceToString(Call("$range", <<Literal(0), Minus(target, Length(str))>>), <<>>,
                                  Concat(<<Var("value"), char>>))
    IN  [op |-> "$let",
         vars |-> [str |-> a[1], targetLen |-> a[2], padChar |-> IF Len(a) = 3 THEN a[3] ELSE Literal(<<" ">>)],
         in |-> Cond(Call("$gte", <<Length(str), target>>),
                     Part(str, Literal(0), target),
                     Concat(IF op = "LPad" THEN <<padding, str>> ELSE <<str, padding>>))]

\* Parts of the string, with the delimiter between them
TranslateSubstrIndex(a) ==
    LET parts == Var("parts")
        cnt   == Var("cnt")
        size  == Call("$size", <<parts>>)
        joined(input) ==
            ReduceToString(input, Null, Cond(Equals(Var("value"), Literal(Null)), Var("this"),
                                             Concat(<<Var("value"), a[2], Var("this")>>)))
    IN  [op |-> "$let",
         vars |-> [parts |-> Call("$split", <<a[1], a[2]>>), cnt |-> a[3]],
         in |-> Cond(Call("$gte", <<cnt, Literal(0)>>),
                     joined(Call("$slice", <<parts, Call("$min", <<cnt, size>>)>>)),
                     joined(Call("$slice", <<parts, Call("$max", <<Call("$add", <<size, cnt>>), Literal(0)>>), size>>)))]

-----------------------------------------------------------------------------
(* LIKE                                                                    *)

Metacharacters == {".", "*", "+", "?", "(", ")", "[", "]", "{", "}", "^", "$", "|", "\\"}
EscapeRegexChar(c) == IF c \in Metacharacters THEN <<"\\", c>> ELSE <<c>>

\* Of a pattern that is a literal
SqlLikeToRegex(pattern) ==
    LET escaped(i)  == i > 1 /\ pattern[i - 1] = "\\"
                       /\ Cardinality({j \in 1..(i - 1) : \A k \in j..(i - 1) : pattern[k] = "\\"}) % 2 = 1
        regex(i) == LET c == pattern[i]
                    IN  CASE escaped(i) -> EscapeRegexChar(c)
                          [] c = "\\" -> IF i = Len(pattern) THEN <<"\\", "\\">> ELSE <<>>
                          [] c = "%"  -> <<".", "*">>
                          [] c = "_"  -> <<".">>
                          [] OTHER    -> EscapeRegexChar(c)
    IN  <<"^">> \o FlattenSeq([i \in DOMAIN pattern |-> regex(i)]) \o <<"$">>

\* Of any other: what is to be replaced by what, in this order
Replacements ==
    << << <<"\\">>, <<"\\", "\\">> >> >>
    \o [i \in 1..13 |-> LET c == <<".", "*", "+", "?", "(", ")", "[", "]", "{", "}", "^", "$", "|">>[i]
                        IN  << <<c>>, <<"\\", c>> >>]
    \o << << <<"%">>, <<".", "*">> >>, << <<"_">>, <<".">> >> >>

\* A string among the arguments of an operator, where "$" begins the path of a field
Text(chars) == IF chars = <<"$">> THEN [op |-> "$"] ELSE Literal(chars)

ChainReplaceAll(input, replacements) ==
    FoldLeft(LAMBDA x, r : Call("$replaceAll", <<x, Text(r[1]), Text(r[2])>>), input, replacements)

TranslateLikePattern(pattern) ==
    IF pattern.op = "Literal" THEN Literal(SqlLikeToRegex(pattern.value))
    ELSE Concat(<<Text(<<"^">>), ChainReplaceAll(pattern, Replacements), Text(<<"$">>)>>)

SafeRegexMatch(expr, regex, case_insensitive, negate) ==
    LET input == Call("$toString", <<expr>>)
        match == Call(IF case_insensitive THEN "$regexMatchI" ELSE "$regexMatch", <<input, regex>>)
    IN  Cond(Equals(input, Literal(Null)), Literal(Null), IF negate THEN Call("$not", <<match>>) ELSE match)

TranslateLike(op, a) ==
    SafeRegexMatch(a[1], TranslateLikePattern(a[2]), op \in {"ILike", "NotILike"}, op \in {"NotLike", "NotILike"})

-----------------------------------------------------------------------------
(* JSON                                                                    *)

\* "$.a.b" is a path, "$" and "a" are names; names with dots are left out
JsonPathSegments(key) == IF Len(key) > 1 /\ key[1] = "$" THEN Tail(key) ELSE key

\* keys are literals
TranslateJsonPathAccess(json, keys) ==
    FoldLeft(LAMBDA result, segment : [op |-> "$getField", input |-> result, field |-> segment],
             json, FlattenSeq([i \in DOMAIN keys |-> JsonPathSegments(keys[i].value)]))

TranslateJson(op, a) ==
    CASE op = "JsonGet"      -> TranslateJsonPathAccess(a[1], Tail(a))
      [] op = "JsonLength"   -> Call("$size", << TranslateJsonPathAccess(a[1], Tail(a)) >>)
      [] op = "JsonContains" -> Call("$in", << Last(a), TranslateJsonPathAccess(a[1], SubSeq(a, 2, Len(a) - 1)) >>)
=============================================================================
