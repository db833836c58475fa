------------------------------- MODULE MCPods -------------------------------
(* Instances of Pods for TLC: a main container and an ephemeral one, one       *)
(* goroutine that takes snapshots, images with a dotless and with a dotted     *)
(* registry, ids of the first and of a bare image, and the parts references    *)
(* are built from.                                                             *)
EXTENDS Pods

CONSTANTS app, debug, snapshot

MCContainers == {app, debug}
MCRunners == {snapshot}
MCListOf == [c \in MCContainers |-> IF c = app THEN "main" ELSE "ephemeral"]

Sha(word) == <<"sha256", ":", word>>
App == [NoImage EXCEPT !.path = <<"app">>]
Local == [App EXCEPT !.registry = <<"localhost">>]
MCImages == {Local, [registry |-> <<"ghcr", ".", "io">>, path |-> <<"org", "/", "app">>,
                     tag |-> <<"latest">>, digest |-> <<>>]}
MCImageIDs == {[prefix |-> <<>>, of |-> Pulled(App, Sha("abc"))],
               [prefix |-> <<>>, of |-> Pulled(Local, Sha("def"))]}

MCRegistries == {Hub, <<"ghcr", ".", "io">>, <<"localhost">>, <<"host", ":", "5000">>}
MCPaths == {<<"app">>, <<"org", "/", "app">>, <<"library", "/", "app">>, <<"app", ".", "js">>,
            <<"org", "/", "team", "/", "app">>, <<"org", "/", "app", ".", "js">>}
MCTags == {<<"latest">>, <<"1", ".", "2">>}
MCContentDigests == {Sha("abc"), Sha("def")}
MCTokens == {"/", ":", "@", ".", "docker-pullable://", "library"} \cup
            UNION {ToSet(s) : s \in MCRegistries \cup MCPaths \cup MCTags \cup MCContentDigests}
=============================================================================
