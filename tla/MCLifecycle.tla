---------------------------- MODULE MCLifecycle ----------------------------
(* The services of the program; and three that need each other in a chain, in *)
(* a fork that meets again, or in a circle.                                    *)
EXTENDS Lifecycle

MCTried == {"Database", "AlertRepository", "AlertEngine"}
MCWiring(a, r, d) == [k \in MCTried |-> CASE k = "AlertEngine" -> a [] k = "AlertRepository" -> r
                                           [] k = "Database" -> d]
MCWirings == {MCWiring(<<"AlertRepository">>, <<"Database">>, <<>>),
              MCWiring(<<"Database", "AlertRepository">>, <<"Database">>, <<>>),
              MCWiring(<<"Database">>, <<"AlertEngine">>, <<"AlertRepository">>)}
=============================================================================
