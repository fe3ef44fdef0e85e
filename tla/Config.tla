------------------------------- MODULE Config -------------------------------
(***************************************************************************)
(* The configuration that main() puts together (src/main.cpp): built-in    *)
(* defaults, the file .env, the environment of the process, the command    *)
(* line.  Options are a record of the three last layers: the lines of the  *)
(* file, a function from names to words, and the words of the command      *)
(* line.  A word is a model of a text; "" is the empty one.                *)
(***************************************************************************)
EXTENDS Integers, Sequences, SequencesExt

CONSTANT stoi    \* external: std::stoi on the words it accepts, which need not be all digits

\* The texts of the three layers
OptionTypes(o) ==
    /\ o.file \in Seq([key : STRING, value : STRING, comment : BOOLEAN])
    /\ o.environ \in [DOMAIN o.environ -> STRING]
    /\ o.args \in Seq(STRING)

ASSUME StoiAssumption == "" \notin DOMAIN stoi /\ \A word \in DOMAIN stoi : stoi[word] \in Int

VARIABLES options, config

configVars == <<options, config>>

\* The members of ServerConfig
Defaults == [ip |-> "127.0.0.1", port |-> 8080, threads |-> 4, cacheCapacity |-> 64,
             idleTimeoutSeconds |-> 15, mode |-> "pool"]

Names == {"SERVER_IP", "SERVER_PORT", "PORT", "MAX_THREADS", "CACHE_CAPACITY", "IDLE_TIMEOUT",
          "LOOP_MODE"}

\* env[name] = value
Assigned(env, name, value) ==
    [n \in DOMAIN env \cup {name} |-> IF n = name THEN value ELSE env[n]]

\* parseEnvFile(): comments and lines without a value are ignored, a later line wins.
Ignored(line) == line.comment \/ line.value = ""
parseEnvFile(lines) ==
    LET read[n \in 0..Len(lines)] ==
            IF n = 0 THEN <<>>
            ELSE IF Ignored(lines[n]) THEN read[n - 1]
                 ELSE Assigned(read[n - 1], lines[n].key, lines[n].value)
    IN read[Len(lines)]

\* Seeded fault: the file is applied over the environment of the process.
LayeredFileLast(o) ==
    parseEnvFile(o.file)
        @@ [name \in {n \in DOMAIN o.environ \cap Names : o.environ[n] # ""} |-> o.environ[name]]

\* Non-empty variables of the process replace the values of the file.
Layered(o) ==
    LET file    == parseEnvFile(o.file)
        process == {n \in DOMAIN o.environ \cap Names : o.environ[n] # ""}
    IN [name \in DOMAIN file \cup process |-> IF name \in process THEN o.environ[name] ELSE file[name]]

\* The flags are read in pairs; one that is unknown takes its value along, and a last one
\* without a value is ignored.
Pairs(args) == [i \in 1..Len(args) \div 2 |-> <<args[2 * i - 1], args[2 * i]>>]

\* envStrToInt() throws for these, which ends main().
Unreadable(o) ==
    \/ \E name \in {"SERVER_PORT", "PORT", "MAX_THREADS", "CACHE_CAPACITY", "IDLE_TIMEOUT"} :
        name \in DOMAIN Layered(o) /\ Layered(o)[name] \notin DOMAIN stoi
    \/ \E i \in DOMAIN Pairs(o.args) :
        Pairs(o.args)[i][1] \in {"--threads", "--port"} /\ Pairs(o.args)[i][2] \notin DOMAIN stoi

ApplyFlag(settings, pair) ==
    CASE pair[1] = "--mode"    -> [settings EXCEPT !.mode = pair[2]]
      [] pair[1] = "--threads" -> [settings EXCEPT !.threads = stoi[pair[2]]]
      [] pair[1] = "--port"    -> [settings EXCEPT !.port = stoi[pair[2]]]
      [] pair[1] = "--ip"      -> [settings EXCEPT !.ip = pair[2]]
      [] OTHER                 -> settings

\* The flags are applied from left to right.
WithFlags(settings, pairs) ==
    LET applied[n \in 0..Len(pairs)] ==
            IF n = 0 THEN settings ELSE ApplyFlag(applied[n - 1], pairs[n])
    IN applied[Len(pairs)]

FromEnv(env) ==
    LET Text(name, default) == IF name \in DOMAIN env THEN env[name] ELSE default
        Number(name, default) == IF name \in DOMAIN env THEN stoi[env[name]] ELSE default
    IN [ip |-> Text("SERVER_IP", Defaults.ip),
        port |-> Number("PORT", Number("SERVER_PORT", Defaults.port)),
        threads |-> Number("MAX_THREADS", Defaults.threads),
        cacheCapacity |-> Number("CACHE_CAPACITY", Defaults.cacheCapacity),
        idleTimeoutSeconds |-> Number("IDLE_TIMEOUT", Defaults.idleTimeoutSeconds),
        mode |-> Text("LOOP_MODE", Defaults.mode)]

\* What the loop is started with: at least one thread, and pool mode unless it is reactor
Normalized(settings) ==
    [settings EXCEPT !.threads = IF @ < 1 THEN 1 ELSE @,
                     !.mode = IF @ = "reactor" THEN @ ELSE "pool"]

Configured(o) == Normalized(WithFlags(FromEnv(Layered(o)), Pairs(o.args)))

ConfigInit(choices) ==
    /\ options \in choices
    /\ config = IF Unreadable(options) THEN Defaults ELSE Configured(options)

-----------------------------------------------------------------------------
(* Properties *)

\* The word the highest layer has for a setting: the last pair with its flag, the process,
\* the last line of the file
Flagged(flags) == {i \in 1..Len(options.args) - 1 : i % 2 = 1 /\ options.args[i] \in flags}
InProcess(name) == name \in DOMAIN options.environ /\ options.environ[name] # ""
FileLines(name) == {i \in DOMAIN options.file : options.file[i].key = name /\ ~Ignored(options.file[i])}
HighestWord(flags, name, default) ==
    CASE Flagged(flags) # {} -> options.args[Max(Flagged(flags)) + 1]
      [] Flagged(flags) = {} /\ InProcess(name) -> options.environ[name]
      [] Flagged(flags) = {} /\ ~InProcess(name) /\ FileLines(name) # {} ->
            options.file[Max(FileLines(name))].value
      [] OTHER -> default
HighestNumber(flags, name, default) ==
    LET word == HighestWord(flags, name, "") IN IF word = "" THEN default ELSE stoi[word]

\* Configuration precedence is "built-in defaults < .env file < process environment < CLI
\* flags" for every setting.  The port has two names; the order holds for it unless the
\* file says PORT and the process only SERVER_PORT, where the file wins.
HighestLayerWins ==
    ~Unreadable(options) =>
        /\ config.ip = HighestWord({"--ip"}, "SERVER_IP", Defaults.ip)
        /\ config.mode = IF HighestWord({"--mode"}, "LOOP_MODE", Defaults.mode) = "reactor"
                         THEN "reactor" ELSE "pool"
        /\ LET asked == HighestNumber({"--threads"}, "MAX_THREADS", Defaults.threads) IN
            config.threads = IF asked < 1 THEN 1 ELSE asked
        /\ config.cacheCapacity = HighestNumber({}, "CACHE_CAPACITY", Defaults.cacheCapacity)
        /\ config.idleTimeoutSeconds =
            HighestNumber({}, "IDLE_TIMEOUT", Defaults.idleTimeoutSeconds)
        /\ LET name == IF InProcess("PORT") \/ (FileLines("PORT") # {} /\ ~InProcess("SERVER_PORT"))
                       THEN "PORT" ELSE "SERVER_PORT" IN
            (FileLines("PORT") = {} \/ ~InProcess("SERVER_PORT") \/ InProcess("PORT")) =>
                config.port = HighestNumber({"--port"}, name, Defaults.port)

=============================================================================
