---------------------------- MODULE MCIntrospection ----------------------------
EXTENDS Introspection, TLC

MCOrder == <<"authors", "posts">>
MCOnePosts == <<"posts">>

MCField(t)  == [type |-> t, desc |-> NoDescription]
MCInt       == MCField(Scalar("int"))
MCType(fs)  == [desc |-> NoDescription, fields |-> fs]
A == <<"a">>
N == <<"n">>
M == <<"m">>

\* field n holds a document with a document in it
MCNested == (<<>> :> MCType(A :> MCInt @@ N :> MCField(Object(N))))
            @@ (N :> MCType(A :> MCInt @@ M :> MCField(Object(N \o M))))
            @@ (N \o M :> MCType(A :> MCInt))
\* field a is gone, n is now a nullable array of scalars, and there is a field m
MCArrays == <<>> :> MCType(M :> MCField(Scalar("string"))
                           @@ N :> MCField(Nullable(ArrayOf(Scalar("int")))))

MCTwoSamples  == {MCNested, MCArrays}
MCOneSample   == {MCNested}
MCNoValidator == {}
MCValidators  == {<<>> :> [desc |-> "validated", fields |-> A :> MCField(Nullable(Scalar("string")))]}

\* a hand-written schema: other names for the object types, descriptions, a null where the
\* samples have none
MCHandWritten == [type |-> <<"Post">>, desc |-> "by hand",
    types |-> (<<"Post">> :> [desc |-> "a post",
                    fields |-> A :> [type |-> Nullable(Scalar("int")), desc |-> "a field"]
                               @@ N :> MCField(Object(<<"Writer">>))])
              @@ (<<"Writer">> :> MCType(A :> MCField(Scalar("string"))))]
MCUserSchemas(c) == {MCHandWritten}
MCNoUserSchemas(c) == {}
==============================================================================
