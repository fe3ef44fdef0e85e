--------------------------- MODULE MCApplication ---------------------------
(***************************************************************************)
(* Instances of Application for TLC: one workload per service, so that     *)
(* their states add up instead of multiplying.                             *)
(***************************************************************************)
EXTENDS Application

CONSTANTS w1, w2, w3, index_html, style_css, demo_html

ThreeWorkers == {w1, w2, w3}
WorkerSymmetry == Permutations(ThreeWorkers)
SiteFiles == {index_html, style_css, demo_html}
SitePaths == {"/", "/index.html", "/style.css", "/demo.html", "/../outside"}
SiteResolve == [path \in SitePaths |->
    CASE path \in {"/", "/index.html"} -> index_html
      [] path = "/style.css" -> style_css
      [] path = "/demo.html" -> demo_html
      [] OTHER -> Escaped]
Bounds == <<1, 2, 9>>
Alphabet == {" ", "quote", "backslash", "newline", "control", "n", "u", "0", "1", "key", "value",
             "a", "b", "c", "x"}
Integer == "-1" :> -1 @@ "0" :> 0 @@ "1" :> 1 @@ "2" :> 2 @@ "3" :> 3

Ask(method, path) ==
    [method |-> method, path |-> path, query |-> <<>>, type |-> "form", json |-> <<>>, form |-> <<>>]

Sign(token) == [token |-> token, raw |-> <<>>]
Str(raw) == [token |-> "string", raw |-> raw]
Segment(name, value) == [name |-> name, value |-> value, equals |-> TRUE]
NoEquals == [name |-> Name.key, value |-> <<"b">>, equals |-> FALSE]

PostJson(tokens) == [Ask("POST", "/api/kv") EXCEPT !.type = "json", !.json = tokens]
PostForm(segments) == [Ask("POST", "/api/kv") EXCEPT !.form = segments]
WithKey(method, segments) == [Ask(method, "/api/kv") EXCEPT !.query = segments]

Object(key, value) ==
    <<Sign("{"), Str(Name.key), Sign(":"), Str(key), Sign(","),
      Str(Name.value), Sign(":"), Str(value), Sign("}")>>

\* A flat object with one token dropped or exchanged, or with something behind it; and every
\* body of at most two tokens
Tokens == {Sign("{"), Sign("}"), Sign(":"), Sign(","), Sign("other"), Str(Name.key), Str(<<"a">>)}
Sample == Object(<<"a">>, <<"x">>)
JsonBodies ==
    {RemoveAt(Sample, i) : i \in DOMAIN Sample}
    \cup {ReplaceAt(Sample, i, t) : i \in DOMAIN Sample, t \in Tokens}
    \cup {Append(Sample, t) : t \in Tokens}
    \cup UNION {[1..n -> Tokens] : n \in 0..2}
    \cup {Object(<<>>, <<"x">>), Object(<<"a", "a">>, <<"x">>), Object(<<"a">>, <<"x", "x", "x">>),
          Object(<<"a">>, <<"backslash", "quote", "backslash", "n">>),
          Object(<<"a">>, <<"backslash", "backslash", "n">>)}

Forms ==
    {<<>>, <<NoEquals>>, <<Segment(Name.value, <<"x">>)>>,
     <<Segment(Name.key, <<"+">>), Segment(Name.value, <<"%5C", "n">>)>>,
     <<Segment(Name.key, <<"%22">>), Segment(Name.value, <<"%01">>)>>,
     <<Segment(Name.key, <<"a">>), Segment(Name.value, <<"%0A", "%22", "%22">>)>>,
     <<Segment(Name.key, <<"a">>), NoEquals, Segment(Name.key, <<"b">>), Segment(Name.value, <<"x">>)>>}

Environ(variables) == [file |-> <<>>, environ |-> variables, args |-> <<>>]

Workload(requests, max) ==
    [requests |-> requests, refusals |-> {}, latencies |-> {1}, max |-> max,
     options |-> {Environ([MAX_THREADS |-> "3", CACHE_CAPACITY |-> "1"])},
     present |-> SiteFiles, editable |-> {}]

KvLoad ==
    Workload({PostJson(Object(<<"a">>, <<"x">>)), PostForm(<<Segment(Name.key, <<"a">>)>>),
              PostForm(<<Segment(Name.key, <<"b">>)>>), PostJson(Object(<<"c">>, <<>>)),
              Ask("GET", "/api/kv"), Ask("DELETE", "/api/kv"),
              WithKey("GET", <<Segment(Name.key, <<"a">>)>>),
              WithKey("DELETE", <<Segment(Name.value, <<"b">>), Segment(Name.key, <<"a">>)>>),
              WithKey("DELETE", <<Segment(Name.key, <<"b">>), Segment(Name.key, <<"a">>)>>)}, 4)

DecodeLoad == Workload({PostJson(tokens) : tokens \in JsonBodies} \cup {PostForm(f) : f \in Forms}, 1)

RouteLoad ==
    Workload({Ask(method, path) : method \in {"GET", "HEAD", "POST", "DELETE", "PATCH"},
                                  path \in knownPaths \cup {"/", "/../outside"}}, 1)

FileLoad(configured, max) ==
    [Workload({Ask("GET", "/index.html"), Ask("HEAD", "/style.css"), Ask("GET", "/demo.html")}, max)
        EXCEPT !.options = {Environ([MAX_THREADS |-> "3", CACHE_CAPACITY |-> configured])},
               !.editable = {index_html}]

StatsLoads ==
    [Workload({Ask("GET", "/healthz"), Ask("GET", "/api/stats")}, 4)
        EXCEPT !.refusals = {431}, !.latencies = {2, 3}]

Line(key, value) == [key |-> key, value |-> value, comment |-> FALSE]
EnvFiles ==
    {<<>>, <<Line("SERVER_PORT", "3"), Line("SERVER_PORT", "2")>>, <<Line("SERVER_PORT", "?")>>,
     <<Line("PORT", "1"), Line("SERVER_IP", "0.0.0.0"), [Line("IDLE_TIMEOUT", "1") EXCEPT !.comment = TRUE]>>,
     <<Line("MAX_THREADS", "-1"), Line("LOOP_MODE", "reactor"), Line("CACHE_CAPACITY", ""),
       Line("IDLE_TIMEOUT", "2")>>}
Environments ==
    {<<>>, [SERVER_PORT |-> "1"], [PORT |-> "3", SERVER_PORT |-> ""], [MAX_THREADS |-> "2", PORT |-> ""],
     [CACHE_CAPACITY |-> "2", LOOP_MODE |-> "fork", SERVER_IP |-> "0.0.0.0", IDLE_TIMEOUT |-> "3"]}
CommandLines ==
    {<<>>, <<"--threads", "0">>, <<"--port", "3", "--port", "2">>, <<"--mode", "reactor", "--port">>,
     <<"--verbose", "--port", "3", "--ip", "10.0.0.1">>, <<"--ip", "10.0.0.1", "--threads", "?">>}

OptionsLoad ==
    [Workload({Ask("GET", "/healthz")}, 2)
        EXCEPT !.options = [file : EnvFiles, environ : Environments, args : CommandLines]]

AllWorkloads ==
    [kv |-> KvLoad, decode |-> DecodeLoad, route |-> RouteLoad, stats |-> StatsLoads,
     options |-> OptionsLoad, unlimited |-> FileLoad("-1", 3), clamped |-> FileLoad("0", 3),
     two |-> FileLoad("2", 4)]

=============================================================================
