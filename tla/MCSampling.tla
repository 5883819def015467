------------------------------ MODULE MCSampling ------------------------------
EXTENDS Sampling

MCTypeName == <<"posts">>

MCField(n, v) == [name |-> n, value |-> v]
MCScalar(s)   == <<"scalar", s>>
MCDoc(fields) == <<"document", fields>>
MCArray(vs)   == <<"array", vs>>

MCId == MCField(IdField, MCScalar("objectId"))

\* the values of field a: scalars that unify, that do not, null, nested documents that
\* agree, disagree or are empty, arrays of each
MCValues ==
    {MCScalar("int"), MCScalar("double"), MCScalar("string"), MCScalar("null"),
     MCScalar("uuid"), MCScalar("binData"),
     MCDoc(<<>>),
     MCDoc(<<MCField(<<"b">>, MCScalar("int"))>>),
     MCDoc(<<MCField(<<"b">>, MCDoc(<<MCField(<<"c">>, MCScalar("null"))>>))>>),
     MCArray(<<>>),
     MCArray(<<MCScalar("int"), MCScalar("null")>>),
     MCArray(<<MCScalar("double"), MCScalar("int")>>),
     MCArray(<<MCScalar("null"), MCArray(<<MCScalar("int")>>), MCArray(<<>>)>>),
     MCArray(<<MCDoc(<<MCField(<<"b">>, MCScalar("int"))>>), MCDoc(<<>>)>>),
     MCArray(<<MCArray(<<MCDoc(<<MCField(<<"c">>, MCScalar("int"))>>)>>)>>)}

MCDocuments ==
    {<<MCId>>, <<MCField(<<"a">>, MCScalar("int"))>>}
        \cup {<<MCId, MCField(<<"a">>, v)>> : v \in MCValues}

\* what the documents are made of, which a schema can describe
MCParts(S) ==
    S \cup UNION {CASE v[1] = "array"    -> {v[2][i] : i \in DOMAIN v[2]}
                    [] v[1] = "document" -> {v[2][i].value : i \in DOMAIN v[2]}
                    [] v[1] = "scalar"   -> {} : v \in S}
MCHeld == MCParts(MCParts(MCParts(MCParts({MCDoc(doc) : doc \in MCDocuments}))))

ASSUME MCDescribable == Describable(MCHeld)

\* every type of at most three wrappers, the normalized ones
MCBases == {Scalar(s) : s \in {"null", "int", "double", "string", "uuid", "binData"}}
              \cup {Object(<<"posts", "a">>), ExtendedJSON}
MCWrapped(S) == S \cup {Nullable(t) : t \in S} \cup {ArrayOf(t) : t \in S}
MCCandidateTypes == {t \in MCWrapped(MCWrapped(MCWrapped(MCBases))) : NormalizeType(t) = t}
==============================================================================
