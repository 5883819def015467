---------------------------- MODULE MCConnector ----------------------------
(* Two collections whose schemas share the object type "address".           *)
EXTENDS Connector, TLC

CONSTANTS r1, r2

MCOrder   == <<"authors", "posts">>
MCSchemas == {"address" :> 1, ("address" :> 2 @@ "posts" :> 2)}

MCPostPlusAuthors == [main |-> "posts", targets |-> {"authors"}, unrelated |-> {}]
MCAuthorsPlusPost == [main |-> "authors", targets |-> {"posts"}, unrelated |-> {}]
MCAuthorsIfPosts  == [main |-> "authors", targets |-> {}, unrelated |-> {"posts"}]

MCShapes == {MCPostPlusAuthors, MCAuthorsPlusPost, MCAuthorsIfPosts}

Environment(m, uri, id, metadata) ==
    [mode |-> m, databaseUri |-> uri, id |-> id, metadata |-> metadata]

\* One that starts in each mode, and two that cannot start
MCEnvironments == {Environment("json", TRUE, FALSE, "none"),
                   Environment("postgres", FALSE, TRUE, "value"),
                   Environment("postgres", TRUE, TRUE, "unset"),
                   Environment("postgres", TRUE, FALSE, "value")}
==============================================================================
