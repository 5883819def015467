----------------------------- MODULE TypeInference -----------------------------
(***************************************************************************)
(* native-query create: the types of a pipeline's documents and of its     *)
(* parameters are inferred.  The stages put constraints on type variables  *)
(* (PipelineTypes); type_solver::unify goes over the variables again and   *)
(* again, simplifies the constraints of each that has no type yet, and     *)
(* ends when the variables that are asked for have types, or when a pass   *)
(* has changed nothing.                                                    *)
(*                                                                         *)
(* The variables are kept in a HashMap: the order of a pass is any order,  *)
(* the same one in each pass, and which of several equally complex         *)
(* variables comes first is not determined either.                         *)
(***************************************************************************)
EXTENDS PipelineTypes, NativeQueryMeaning, TypeSolutions

CONSTANTS
    QueryName,
    Problems,       \* a sequence of [type |-> document type of the input collection or Null, stages |-> stages]
    Databases,      \* the documents of the input collection, each of a set of sequences
    ArgumentPool    \* values to give to parameters

VARIABLES
    problem,    \* which of the problems
    cx,         \* the context of inference at the end of the pipeline, Null before
    order,      \* the variables in the order of the HashMap, as far as it is known
    place,      \* how many variables this pass has visited, Null before the first
    u,          \* the state of unify
    before,     \* what u was when the pass began, as far as unify compares it
    outcome     \* Null, an answer or an error

vars == <<problem, cx, order, place, u, before, outcome>>

\* What unify keeps: object types (as constraints, and added as types), solutions and substitutions
Unifier(types) == [types |-> types, added |-> <<>>, solutions |-> <<>>, subs |-> <<>>, error |-> Null]
Compared(w)    == <<w.solutions, w.subs>>

SimplificationError(errs) == IF "overflow" \in errs THEN "StackOverflow" ELSE IF "unreachable" \in errs THEN "Panic" ELSE "Multiple"

\* One variable: it is solved if its constraints come to a single one that has a type
WithSolution(w, v, r) ==
    IF r.error # Null THEN [w EXCEPT !.error = r.error]
    ELSE IF r.t = Null THEN [w EXCEPT !.added = r.added]
    ELSE [w EXCEPT !.added = r.added, !.solutions = (v :> r.t) @@ @, !.subs = (v :> {ConstraintOf(r.t)}) @@ @]
WithSimplified(w, v, s) ==
    IF s.errs # {} THEN [w EXCEPT !.error = SimplificationError(s.errs)]
    ELSE IF ~IsOnly(s.out) THEN [w EXCEPT !.types = s.types]
    ELSE WithSolution([w EXCEPT !.types = s.types], v, ToType(w.solutions, s.types, w.added, TheOnly(s.out)))
Visited(c, w, v) ==
    IF v \in DOMAIN w.solutions THEN w ELSE WithSimplified(w, v, Simplify(w.types, w.subs, v, Sorted(c.vars[v])))

\* After a pass, the simplest variable without a substitution is replaced by its constraints
Unsubstituted(c, w) == DOMAIN c.vars \ DOMAIN w.subs
Weight(c, v)        == MapThenSumSet(Complexity, c.vars[v])
Simplest(c, w)      == {v \in Unsubstituted(c, w) : \A x \in Unsubstituted(c, w) : Weight(c, v) <= Weight(c, x)}
Substituted(c, w, v) == [w EXCEPT !.subs = (v :> c.vars[v]) @@ @]
AfterPass(c, w) == IF Unsubstituted(c, w) = {} THEN {w} ELSE {Substituted(c, w, v) : v \in Simplest(c, w)}

Required(c) == {c.doc} \cup {c.params[p] : p \in DOMAIN c.params}
AllSolved(c, w) == Required(c) \subseteq DOMAIN w.solutions

\* into_types
Problem(err) == [error |-> err]
IsAnswer(o)  == o # Null /\ "result" \in DOMAIN o
ObjectAnswer(a) ==
    IF a = Null THEN Problem("UnknownObjectType")
    ELSE IF IsNamed(a.result) /\ RefersToObject(a.result) THEN a ELSE Problem("ExpectedObject")
IntoTypes(c, w) ==
    ObjectAnswer(PruneObjectTypes(w.solutions[c.doc], [p \in DOMAIN c.params |-> w.solutions[c.params[p]]], w.added))

\* Mutant: goes on when nothing has changed
PassEndless(c, w, prev) == IF AllSolved(c, w) THEN IntoTypes(c, w) ELSE Null
PassEnd(c, w, prev) ==
    IF AllSolved(c, w) THEN IntoTypes(c, w) ELSE IF Compared(w) = prev THEN Problem("FailedToUnify") ELSE Null

-----------------------------------------------------------------------------
Init ==
    /\ problem \in DOMAIN Problems
    /\ cx = Null /\ order = <<>> /\ place = Null /\ u = Null /\ before = Null /\ outcome = Null

\* infer_pipeline_types up to its solution
InferTypes ==
    /\ cx = Null
    /\ cx' \in {InferPipeline(QueryName, Problems[problem].type, Problems[problem].stages)}
    /\ u' = Unifier(cx'.types)
    /\ before' = Compared(u')
    /\ outcome' = IF cx'.error = Null THEN Null ELSE Problem(cx'.error)
    /\ place' = 0
    /\ UNCHANGED <<problem, order>>

Unifying == cx # Null /\ outcome = Null
Variables == DOMAIN cx.vars

\* The next variable of the HashMap
Visit ==
    /\ Unifying /\ place < Cardinality(Variables)
    /\ \E v \in Variables :
        /\ IF place < Len(order) THEN v = order[place + 1] ELSE v \notin ToSet(order)
        /\ order' = IF place < Len(order) THEN order ELSE Append(order, v)
        /\ u' \in {Visited(cx, u, v)}
    /\ outcome' = IF u'.error = Null THEN Null ELSE Problem(u'.error)
    /\ place' = place + 1
    /\ UNCHANGED <<problem, cx, before>>

EndPass ==
    /\ Unifying /\ place = Cardinality(Variables)
    /\ u' \in AfterPass(cx, u)
    /\ outcome' \in {PassEnd(cx, u', before)}
    /\ before' = Compared(u')
    /\ place' = 0
    /\ UNCHANGED <<problem, cx, order>>

Next == InferTypes \/ Visit \/ EndPass

\* One thread infers, and nothing stops it.  Every step of Next moves place, and one is enabled until
\* there is an outcome: so Going has the steps of Next, and costs less to see enabled.
Going == outcome = Null /\ place' \in {0} \cup {n + 1 : n \in {place} \ {Null}}
Spec  == Init /\ [][Next]_vars /\ WF_place(Going)

-----------------------------------------------------------------------------
\* What the same problem comes to in one order, if a variable that fails and is not needed is left unsolved
InOrderOfId(c) == [i \in 1..Cardinality(DOMAIN c.vars) |-> CHOOSE v \in DOMAIN c.vars : v.id = i - 1]
RECURSIVE Unified(_, _, _)
Outcome(c, w, prev, o) ==
    IF w.error # Null THEN Problem(w.error)
    ELSE IF o = Null THEN Unified(c, w, Compared(w)) ELSE o
EndOfPass(c, w, prev)  == Outcome(c, w, prev, PassEnd(c, w, prev))
Unified(c, w, prev) ==
    LET visit(x, v) == LET y == Visited(c, x, v) IN IF y.error # Null /\ v \notin Required(c) THEN x ELSE y
        visited == FoldLeft(LAMBDA x, v : IF x.error # Null THEN x ELSE visit(x, v), w, InOrderOfId(c))
    IN  IF visited.error # Null THEN Problem(visited.error)
        ELSE EndOfPass(c, CHOOSE x \in AfterPass(c, visited) : TRUE, prev)
InOneOrder(c) == IF c.error # Null THEN Problem(c.error) ELSE Unified(c, Unifier(c.types), Compared(Unifier(c.types)))
Expected == [p \in DOMAIN Problems |-> InOneOrder(InferPipeline(QueryName, Problems[p].type, Problems[p].stages))]

\* The variable at which a pass failed is neither that of the result nor a parameter's
FailedUnneeded == u.error # Null /\ order[place] \notin Required(cx)

\* The order in which the HashMap of type variables hands them out decides nothing
\* but whether a variable that is not needed fails (type_solver::unify stops at
\* any error, README section 6): all orders that give an answer give the same one,
\* and an error at a needed variable is that of every order.
OrderMattersOnlyToUnneeded == outcome # Null => outcome = Expected[problem] \/ FailedUnneeded

\* The values that the declared types of the parameters admit
KnownObjectTypes(a) == ObjectTypes @@ a.types
ArgumentsOf(a) ==
    {f \in [DOMAIN a.params -> ArgumentPool] : \A p \in DOMAIN a.params : IsOf(f[p], a.params[p], KnownObjectTypes(a))}

\* With arguments of the inferred types, MongoDB does not refuse the pipeline, and
\* every document it answers with is of the inferred document type: the
\* configuration that the command writes is true of the data.
ResultDescribesOutput ==
    IsAnswer(outcome) =>
        \A docs \in (IF Problems[problem].type = Null THEN {<<DocV(<<>>)>>} ELSE Databases) : \A arguments \in ArgumentsOf(outcome) :
            LET out == Output(Problems[problem].stages, docs, arguments)
            IN  \A i \in DOMAIN out : IsOf(out[i], outcome.result, KnownObjectTypes(outcome))

\* Each parameter that is a string of its own in a stage has a type in the
\* configuration that is written, and nothing else has: an undeclared parameter
\* could never be given.  Those embedded in longer strings are not declared
\* (plain_string, README section 6).
ParametersDeclared ==
    IsAnswer(outcome) => DOMAIN outcome.params =
        UNION {ParametersOf(Problems[problem].stages[i]) : i \in DOMAIN Problems[problem].stages}

\* Inference ends, with an answer or with an error: each pass solves a variable,
\* or substitutes one, or is the last.
InferenceEnds == <>(outcome # Null)
=============================================================================
