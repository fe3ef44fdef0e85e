------------------------------- MODULE Router -------------------------------
(***************************************************************************)
(* The routing table that main() builds (src/main.cpp) and Router::route() *)
(* (src/router.cpp): an exact match of method and path, else 405 with the  *)
(* methods the path has, else the fallback, which main() always sets.      *)
(***************************************************************************)

\* The calls of router.add() in main()
Routes == {<<"GET", "/healthz">>, <<"GET", "/api/stats">>, <<"GET", "/api/kv">>,
           <<"POST", "/api/kv">>, <<"DELETE", "/api/kv">>}

knownPaths == {route[2] : route \in Routes}

\* HEAD is served by the handler of GET.
Effective(method) == IF method = "HEAD" THEN "GET" ELSE method

\* What route() does with a request: its own handler, 405, or the static files.
Matched(method, path) == <<Effective(method), path>> \in Routes
NotAllowed(method, path) == ~Matched(method, path) /\ path \in knownPaths
Fallback(method, path) == path \notin knownPaths

\* Seeded fault: the header lists the routes as they are, without HEAD.
AllowedNoHead(path) == {route[1] : route \in {r \in Routes : r[2] = path}}

\* The Allow header of a 405
Allowed(path) ==
    LET methods == {route[1] : route \in {r \in Routes : r[2] = path}} IN
        methods \cup {m \in {"HEAD"} : "GET" \in methods}

=============================================================================
