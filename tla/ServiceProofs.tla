--------------------------- MODULE ServiceProofs ---------------------------
(***************************************************************************)
(* Facts about the configuration, the file cache and the texts of the API  *)
(* by themselves, on which the theorems of ApplicationProofs rest.         *)
(***************************************************************************)
EXTENDS Config, FileCache, KvStore, NumberLemmas, FiniteSetTheorems, TLAPS

Settings(words) ==
    [ip : words, port : Int, threads : Int, cacheCapacity : Int, idleTimeoutSeconds : Int, mode : words]

\* The flags that name a number have one.
Readable(pairs) ==
    \A i \in DOMAIN pairs : pairs[i][1] \in {"--threads", "--port"} => pairs[i][2] \in DOMAIN stoi

\* What a flag changes
LEMMA ApplyFlagFields ==
    ASSUME NEW words, NEW s \in Settings(words), NEW flag, NEW word \in words,
           flag \in {"--threads", "--port"} => word \in DOMAIN stoi
    PROVE LET t == ApplyFlag(s, <<flag, word>>) IN
          /\ t \in Settings(words)
          /\ t.mode = (IF flag = "--mode" THEN word ELSE s.mode)
          /\ t.threads = (IF flag = "--threads" THEN stoi[word] ELSE s.threads)
          /\ t.port = (IF flag = "--port" THEN stoi[word] ELSE s.port)
          /\ t.ip = (IF flag = "--ip" THEN word ELSE s.ip)
          /\ t.cacheCapacity = s.cacheCapacity /\ t.idleTimeoutSeconds = s.idleTimeoutSeconds
  <1>1. <<flag, word>>[1] = flag /\ <<flag, word>>[2] = word
    OBVIOUS
  <1>2. CASE flag = "--mode"
    BY <1>1, <1>2 DEF ApplyFlag, Settings
  <1>3. CASE flag = "--threads"
    <2>1. stoi[word] \in Int
      BY <1>3, StoiAssumption
    <2> QED
      BY <1>1, <1>3, <2>1 DEF ApplyFlag, Settings
  <1>4. CASE flag = "--port"
    <2>1. stoi[word] \in Int
      BY <1>4, StoiAssumption
    <2> QED
      BY <1>1, <1>4, <2>1 DEF ApplyFlag, Settings
  <1>5. CASE flag = "--ip"
    BY <1>1, <1>5 DEF ApplyFlag, Settings
  <1>6. CASE flag \notin {"--mode", "--threads", "--port", "--ip"}
    BY <1>1, <1>6 DEF ApplyFlag
  <1> QED
    BY <1>2, <1>3, <1>4, <1>5, <1>6

\* The course of the settings while the flags are applied
FlagTable(words, settings, size, pairs, applied) ==
    /\ applied \in [0..size -> Settings(words)]
    /\ applied[0] = settings
    /\ \A i \in 1..size : applied[i] = ApplyFlag(applied[i - 1], pairs[i])
    /\ WithFlags(settings, pairs) = applied[size]

\* The loop over the flags computes such a table.
LEMMA WithFlagsTable ==
    ASSUME NEW words, NEW settings \in Settings(words), NEW size \in Nat, NEW pairs,
           pairs \in [1..size -> words \X words], Len(pairs) = size, Readable(pairs)
    PROVE \E applied : FlagTable(words, settings, size, pairs, applied)
  <1> DEFINE S == Settings(words)
             step == [i \in 1..size |-> [s \in S |-> ApplyFlag(s, pairs[i])]]
  <1>1. ASSUME NEW i \in 1..size, NEW s \in S PROVE ApplyFlag(s, pairs[i]) \in S
    <2>1. pairs[i] \in words \X words /\ i \in DOMAIN pairs
      OBVIOUS
    <2>2. pairs[i] = <<pairs[i][1], pairs[i][2]>> /\ pairs[i][2] \in words
      BY <2>1
    <2>3. pairs[i][1] \in {"--threads", "--port"} => pairs[i][2] \in DOMAIN stoi
      BY <2>1 DEF Readable
    <2>4. PICK flag, word : flag = pairs[i][1] /\ word = pairs[i][2]
      OBVIOUS
    <2>5. ApplyFlag(s, <<flag, word>>) \in S
      BY <2>2, <2>3, <2>4, ApplyFlagFields
    <2> QED
      BY <2>2, <2>4, <2>5
  <1>2. step \in [1..size -> [S -> S]]
    BY <1>1
  <1> HIDE DEF S
  <1>3. PICK p : StepTable(S, settings, step, size, p)
    <2> HIDE DEF step
    <2>1. settings \in S
      BY DEF S
    <2> QED
      BY <1>2, <2>1, IterationExists
  <1>4. /\ p \in [0..size -> S] /\ p[0] = settings
        /\ \A i \in 1..size : p[i] = ApplyFlag(p[i - 1], pairs[i])
    <2>1. p \in [0..size -> S] /\ p[0] = settings
      BY <1>3 DEF StepTable
    <2>2. ASSUME NEW i \in 1..size PROVE p[i] = ApplyFlag(p[i - 1], pairs[i])
      <3>1. p[i] = step[i][p[i - 1]] /\ p[i - 1] \in S
        BY <1>3, <2>1 DEF StepTable
      <3> QED
        BY <3>1
    <2> QED
      BY <2>1, <2>2
  <1> HIDE DEF step
  <1> DEFINE loop(f) == f = [n \in 0..size |-> IF n = 0 THEN settings ELSE ApplyFlag(f[n - 1], pairs[n])]
  <1>5. loop(p)
    <2>1. p = [n \in 0..size |-> p[n]]
      BY <1>4
    <2>2. \A n \in 0..size : p[n] = IF n = 0 THEN settings ELSE ApplyFlag(p[n - 1], pairs[n])
      BY <1>4
    <2> QED
      BY <2>1, <2>2
  <1>6. PICK f : loop(f) /\ WithFlags(settings, pairs) = f[size]
    <2>1. WithFlags(settings, pairs) = (CHOOSE f : loop(f))[size]
      BY DEF WithFlags
    <2> HIDE DEF loop
    <2>2. loop(CHOOSE f : loop(f))
      BY <1>5
    <2> QED
      BY <2>1, <2>2
  <1>7. f[size] = p[size]
    <2> DEFINE T == {n \in Nat : n <= size /\ f[n] # p[n]}
    <2>1. ASSUME T # {} PROVE FALSE
      <3>1. PICK n \in T : \A j \in T : n <= j
        BY <2>1, LeastNatural
      <3>2. n \in 0..size /\ f[n] = IF n = 0 THEN settings ELSE ApplyFlag(f[n - 1], pairs[n])
        BY <1>6, <3>1
      <3>3. CASE n = 0
        BY <1>4, <3>1, <3>2, <3>3
      <3>4. CASE n # 0
        <4>1. n - 1 \in Nat /\ n - 1 \notin T /\ n - 1 <= size
          BY <3>1, <3>4
        <4>2. f[n - 1] = p[n - 1]
          BY <4>1
        <4> QED
          BY <1>4, <3>1, <3>2, <3>4, <4>2
      <3> QED
        BY <3>3, <3>4
    <2>2. T = {} /\ size <= size
      BY <2>1
    <2> QED
      BY <2>2
  <1> QED
    BY <1>4, <1>6, <1>7 DEF S, FlagTable

\* The words of the command line in pairs
LEMMA PairsTypes ==
    ASSUME NEW args \in Seq(STRING)
    PROVE /\ Len(args) \div 2 \in Nat /\ Len(Pairs(args)) = Len(args) \div 2
          /\ Pairs(args) \in [1..Len(args) \div 2 -> STRING \X STRING]
          /\ \A i \in 1..Len(args) \div 2 :
                /\ Pairs(args)[i] = <<args[2 * i - 1], args[2 * i]>>
                /\ 2 * i - 1 \in 1..Len(args) - 1 /\ 2 * i \in 1..Len(args)
                /\ args[2 * i - 1] \in STRING /\ args[2 * i] \in STRING
  <1>1. PICK size : size = Len(args) \div 2
    OBVIOUS
  <1>2. Len(args) \in Nat /\ size \in Nat /\ 2 * size <= Len(args) /\ Len(args) <= 2 * size + 1
    BY <1>1
  <1>3. ASSUME NEW i \in 1..size
        PROVE /\ 2 * i - 1 \in 1..Len(args) - 1 /\ 2 * i \in 1..Len(args)
              /\ args[2 * i - 1] \in STRING /\ args[2 * i] \in STRING
    <2>1. 2 * i - 1 \in 1..Len(args) - 1 /\ 2 * i \in 1..Len(args) /\ 2 * i - 1 \in 1..Len(args)
      BY <1>2
    <2> QED
      BY <2>1
  <1>4. Pairs(args) = [i \in 1..size |-> <<args[2 * i - 1], args[2 * i]>>]
    BY <1>1 DEF Pairs
  <1>5. Len(Pairs(args)) = size
    BY <1>2, <1>4
  <1> QED
    BY <1>1, <1>2, <1>3, <1>4, <1>5

Hits(flag) == {i \in 1..Len(options.args) \div 2 : Pairs(options.args)[i][1] = flag}

\* The position of the last pair with a flag
LEMMA LastFlag ==
    ASSUME options.args \in Seq(STRING), NEW flag
    PROVE /\ Hits(flag) = {} <=> Flagged({flag}) = {}
          /\ Hits(flag) # {} => /\ Max(Hits(flag)) \in Hits(flag)
                                /\ Max(Flagged({flag})) = 2 * Max(Hits(flag)) - 1
                                /\ options.args[Max(Flagged({flag})) + 1]
                                    = Pairs(options.args)[Max(Hits(flag))][2]
  <1>1. PICK args, size : args = options.args /\ size = Len(args) \div 2
    OBVIOUS
  <1>2. /\ args \in Seq(STRING) /\ Len(args) \in Nat /\ size \in Nat
        /\ 2 * size <= Len(args) /\ Len(args) <= 2 * size + 1
    <2>1. args \in Seq(STRING)
      BY <1>1
    <2>2. Len(args) \in Nat
      BY <2>1
    <2> QED
      BY <1>1, <2>1, <2>2, Half
  <1>3. ASSUME NEW i \in 1..size PROVE Pairs(args)[i] = <<args[2 * i - 1], args[2 * i]>>
    BY <1>1, <1>2, PairsTypes
  <1>4. Hits(flag) = {i \in 1..size : args[2 * i - 1] = flag}
    <2>1. ASSUME NEW i \in 1..size PROVE Pairs(options.args)[i][1] = args[2 * i - 1]
      <3>1. Pairs(options.args)[i] = <<args[2 * i - 1], args[2 * i]>>
        BY <1>1, <1>3
      <3> QED
        BY <3>1
    <2>2. Hits(flag) = {i \in 1..size : Pairs(options.args)[i][1] = flag}
      BY <1>1 DEF Hits
    <2> QED
      BY <2>1, <2>2
  <1>5. Flagged({flag}) = {j \in 1..Len(args) - 1 : j % 2 = 1 /\ args[j] = flag}
    BY <1>1 DEF Flagged
  <1>6. ASSUME NEW i \in Hits(flag) PROVE 2 * i - 1 \in Flagged({flag})
    <2>1. i \in 1..size /\ args[2 * i - 1] = flag
      BY <1>4
    <2>2. 2 * i - 1 \in 1..Len(args) - 1 /\ (2 * i - 1) % 2 = 1
      BY <1>2, <2>1
    <2> QED
      BY <1>5, <2>1, <2>2
  <1>7. ASSUME NEW j \in Flagged({flag})
        PROVE (j + 1) \div 2 \in Hits(flag) /\ j = 2 * ((j + 1) \div 2) - 1
    <2>1. j \in 1..Len(args) - 1 /\ j % 2 = 1 /\ args[j] = flag
      BY <1>5
    <2>2. (j + 1) \div 2 \in 1..size /\ j = 2 * ((j + 1) \div 2) - 1
      BY <1>2, <2>1
    <2> QED
      BY <1>4, <2>1, <2>2
  <1>8. ASSUME Hits(flag) # {}
        PROVE /\ Max(Hits(flag)) \in Hits(flag)
              /\ Max(Flagged({flag})) = 2 * Max(Hits(flag)) - 1
              /\ options.args[Max(Flagged({flag})) + 1] = Pairs(options.args)[Max(Hits(flag))][2]
    <2>1. Hits(flag) \subseteq Nat /\ \A i \in Hits(flag) : i <= size
      BY <1>2, <1>4
    <2>2. Flagged({flag}) \subseteq Nat /\ \A j \in Flagged({flag}) : j <= Len(args)
      <3>1. ASSUME NEW j \in Flagged({flag}) PROVE j \in Nat /\ j <= Len(args)
        <4>1. j \in 1..Len(args) - 1
          BY <1>5
        <4> QED
          BY <1>2, <4>1
      <3> QED
        BY <3>1
    <2>3. PICK m, top : m = Max(Hits(flag)) /\ top = Max(Flagged({flag}))
      OBVIOUS
    <2>4. m \in Hits(flag) /\ \A i \in Hits(flag) : i <= m
      BY <1>2, <1>8, <2>1, <2>3, MaxOfBounded
    <2>5. Flagged({flag}) # {}
      BY <1>6, <1>8
    <2>6. top \in Flagged({flag}) /\ \A j \in Flagged({flag}) : j <= top
      BY <1>2, <2>2, <2>3, <2>5, MaxOfBounded
    <2>7. 2 * m - 1 <= top /\ m \in Nat /\ top \in Nat
      BY <1>6, <2>1, <2>2, <2>4, <2>6
    <2>8. (top + 1) \div 2 <= m /\ top = 2 * ((top + 1) \div 2) - 1
      BY <1>7, <2>4, <2>6
    <2>9. top = 2 * m - 1
      BY <2>7, <2>8
    <2>10. m \in 1..size /\ Pairs(args)[m][2] = args[2 * m] /\ top + 1 = 2 * m
      BY <1>3, <1>4, <2>4, <2>7, <2>9
    <2> QED
      BY <1>1, <2>3, <2>4, <2>9, <2>10
  <1> QED
    BY <1>6, <1>7, <1>8

\* The last pair with its flag decides over a setting, and no flag leaves it.
LEMMA FlagsWin ==
    ASSUME options.args \in Seq(STRING), Readable(Pairs(options.args)),
           NEW words, STRING \subseteq words, NEW settings \in Settings(words)
    PROVE LET final == WithFlags(settings, Pairs(options.args))
              Word(flag) == options.args[Max(Flagged({flag})) + 1] IN
          /\ final \in Settings(words)
          /\ final.ip = (IF Flagged({"--ip"}) # {} THEN Word("--ip") ELSE settings.ip)
          /\ final.mode = (IF Flagged({"--mode"}) # {} THEN Word("--mode") ELSE settings.mode)
          /\ final.threads = (IF Flagged({"--threads"}) # {} THEN stoi[Word("--threads")]
                              ELSE settings.threads)
          /\ final.port = (IF Flagged({"--port"}) # {} THEN stoi[Word("--port")] ELSE settings.port)
          /\ final.cacheCapacity = settings.cacheCapacity
          /\ final.idleTimeoutSeconds = settings.idleTimeoutSeconds
  <1>1. PICK pairs, size : pairs = Pairs(options.args) /\ size = Len(options.args) \div 2
    OBVIOUS
  <1>2. /\ size \in Nat /\ Len(pairs) = size /\ pairs \in [1..size -> STRING \X STRING]
    BY <1>1, PairsTypes
  <1>3. pairs \in [1..size -> words \X words] /\ Readable(pairs)
    BY <1>1, <1>2
  <1>4. PICK applied :
          /\ applied \in [0..size -> Settings(words)]
          /\ applied[0] = settings
          /\ \A i \in 1..size : applied[i] = ApplyFlag(applied[i - 1], pairs[i])
          /\ WithFlags(settings, pairs) = applied[size]
    <2>1. PICK applied : FlagTable(words, settings, size, pairs, applied)
      BY <1>2, <1>3, WithFlagsTable
    <2> QED
      BY <2>1 DEF FlagTable
  <1>5. ASSUME NEW i \in 1..size
        PROVE LET s == applied[i - 1]  t == applied[i]  flag == pairs[i][1]  word == pairs[i][2] IN
              /\ t.mode = (IF flag = "--mode" THEN word ELSE s.mode)
              /\ t.threads = (IF flag = "--threads" THEN stoi[word] ELSE s.threads)
              /\ t.port = (IF flag = "--port" THEN stoi[word] ELSE s.port)
              /\ t.ip = (IF flag = "--ip" THEN word ELSE s.ip)
              /\ t.cacheCapacity = s.cacheCapacity /\ t.idleTimeoutSeconds = s.idleTimeoutSeconds
    <2>1. PICK flag, word, s : flag = pairs[i][1] /\ word = pairs[i][2] /\ s = applied[i - 1]
      OBVIOUS
    <2>2. pairs[i] = <<flag, word>> /\ word \in words /\ i \in DOMAIN pairs
      BY <1>3, <2>1
    <2>3. flag \in {"--threads", "--port"} => word \in DOMAIN stoi
      BY <1>3, <2>1, <2>2 DEF Readable
    <2>4. s \in Settings(words)
      <3>1. i - 1 \in 0..size
        BY <1>2
      <3> QED
        BY <1>4, <2>1, <3>1
    <2>5. applied[i] = ApplyFlag(s, <<flag, word>>)
      BY <1>4, <2>1, <2>2
    <2> QED
      BY <2>1, <2>2, <2>3, <2>4, <2>5, ApplyFlagFields
  <1>6. ASSUME NEW v, NEW w, NEW flag,
               Course(size, v, w, Hits(flag))
        PROVE v[size] = IF Flagged({flag}) # {} THEN w[Max(Hits(flag))] ELSE v[0]
    <2>1. Hits(flag) \subseteq 1..size
      BY <1>1 DEF Hits
    <2>2. /\ Hits(flag) = {} => v[size] = v[0]
          /\ Hits(flag) # {} => v[size] = w[Max(Hits(flag))]
      BY <1>2, <1>6, <2>1, LastAssignment DEF Stays
    <2>3. Hits(flag) = {} <=> Flagged({flag}) = {}
      BY LastFlag
    <2> QED
      BY <2>2, <2>3
  <1>7. ASSUME NEW flag, Flagged({flag}) # {}
        PROVE /\ Max(Hits(flag)) \in 1..size
              /\ options.args[Max(Flagged({flag})) + 1] = pairs[Max(Hits(flag))][2]
    BY <1>1, <1>7, LastFlag DEF Hits
  <1> DEFINE Word(flag) == options.args[Max(Flagged({flag})) + 1]
  <1>8. applied[size].ip = IF Flagged({"--ip"}) # {} THEN Word("--ip") ELSE settings.ip
    <2> DEFINE v == [i \in 0..size |-> applied[i].ip]
               w == [i \in 1..size |-> pairs[i][2]]
    <2>1. Course(size, v, w, Hits("--ip"))
      <3>1. ASSUME NEW i \in 1..size PROVE v[i] = IF i \in Hits("--ip") THEN w[i] ELSE v[i - 1]
        <4>1. i \in 0..size /\ i - 1 \in 0..size
          BY <1>2
        <4>2. i \in Hits("--ip") <=> pairs[i][1] = "--ip"
          BY <1>1 DEF Hits
        <4> QED
          BY <1>5, <4>1, <4>2
      <3> QED
        BY <3>1 DEF Course
    <2>2. v[size] = applied[size].ip /\ v[0] = settings.ip
      BY <1>2, <1>4
    <2>3. ASSUME Flagged({"--ip"}) # {} PROVE w[Max(Hits("--ip"))] = Word("--ip")
      BY <1>7, <2>3
    <2> HIDE DEF v, w, Word
    <2>4. v[size] = IF Flagged({"--ip"}) # {} THEN w[Max(Hits("--ip"))] ELSE v[0]
      BY <1>6, <2>1
    <2> QED
      BY <2>2, <2>3, <2>4
  <1>9. applied[size].mode = IF Flagged({"--mode"}) # {} THEN Word("--mode") ELSE settings.mode
    <2> DEFINE v == [i \in 0..size |-> applied[i].mode]
               w == [i \in 1..size |-> pairs[i][2]]
    <2>1. Course(size, v, w, Hits("--mode"))
      <3>1. ASSUME NEW i \in 1..size PROVE v[i] = IF i \in Hits("--mode") THEN w[i] ELSE v[i - 1]
        <4>1. i \in 0..size /\ i - 1 \in 0..size
          BY <1>2
        <4>2. i \in Hits("--mode") <=> pairs[i][1] = "--mode"
          BY <1>1 DEF Hits
        <4> QED
          BY <1>5, <4>1, <4>2
      <3> QED
        BY <3>1 DEF Course
    <2>2. v[size] = applied[size].mode /\ v[0] = settings.mode
      BY <1>2, <1>4
    <2>3. ASSUME Flagged({"--mode"}) # {} PROVE w[Max(Hits("--mode"))] = Word("--mode")
      BY <1>7, <2>3
    <2> HIDE DEF v, w, Word
    <2>4. v[size] = IF Flagged({"--mode"}) # {} THEN w[Max(Hits("--mode"))] ELSE v[0]
      BY <1>6, <2>1
    <2> QED
      BY <2>2, <2>3, <2>4
  <1>10. applied[size].threads =
            IF Flagged({"--threads"}) # {} THEN stoi[Word("--threads")] ELSE settings.threads
    <2> DEFINE v == [i \in 0..size |-> applied[i].threads]
               w == [i \in 1..size |-> stoi[pairs[i][2]]]
    <2>1. Course(size, v, w, Hits("--threads"))
      <3>1. ASSUME NEW i \in 1..size PROVE v[i] = IF i \in Hits("--threads") THEN w[i] ELSE v[i - 1]
        <4>1. i \in 0..size /\ i - 1 \in 0..size
          BY <1>2
        <4>2. i \in Hits("--threads") <=> pairs[i][1] = "--threads"
          BY <1>1 DEF Hits
        <4> QED
          BY <1>5, <4>1, <4>2
      <3> QED
        BY <3>1 DEF Course
    <2>2. v[size] = applied[size].threads /\ v[0] = settings.threads
      BY <1>2, <1>4
    <2>3. ASSUME Flagged({"--threads"}) # {} PROVE w[Max(Hits("--threads"))] = stoi[Word("--threads")]
      BY <1>7, <2>3
    <2> HIDE DEF v, w, Word
    <2>4. v[size] = IF Flagged({"--threads"}) # {} THEN w[Max(Hits("--threads"))] ELSE v[0]
      BY <1>6, <2>1
    <2> QED
      BY <2>2, <2>3, <2>4
  <1>11. applied[size].port = IF Flagged({"--port"}) # {} THEN stoi[Word("--port")] ELSE settings.port
    <2> DEFINE v == [i \in 0..size |-> applied[i].port]
               w == [i \in 1..size |-> stoi[pairs[i][2]]]
    <2>1. Course(size, v, w, Hits("--port"))
      <3>1. ASSUME NEW i \in 1..size PROVE v[i] = IF i \in Hits("--port") THEN w[i] ELSE v[i - 1]
        <4>1. i \in 0..size /\ i - 1 \in 0..size
          BY <1>2
        <4>2. i \in Hits("--port") <=> pairs[i][1] = "--port"
          BY <1>1 DEF Hits
        <4> QED
          BY <1>5, <4>1, <4>2
      <3> QED
        BY <3>1 DEF Course
    <2>2. v[size] = applied[size].port /\ v[0] = settings.port
      BY <1>2, <1>4
    <2>3. ASSUME Flagged({"--port"}) # {} PROVE w[Max(Hits("--port"))] = stoi[Word("--port")]
      BY <1>7, <2>3
    <2> HIDE DEF v, w, Word
    <2>4. v[size] = IF Flagged({"--port"}) # {} THEN w[Max(Hits("--port"))] ELSE v[0]
      BY <1>6, <2>1
    <2> QED
      BY <2>2, <2>3, <2>4
  <1>12. /\ applied[size].cacheCapacity = settings.cacheCapacity
         /\ applied[size].idleTimeoutSeconds = settings.idleTimeoutSeconds
    <2> DEFINE v == [i \in 0..size |-> applied[i].cacheCapacity]
               u == [i \in 0..size |-> applied[i].idleTimeoutSeconds]
               none == [i \in 1..size |-> 0]
    <2>1. Course(size, v, none, {}) /\ Course(size, u, none, {})
      BY <1>2, <1>5 DEF Course
    <2>2. /\ v[size] = applied[size].cacheCapacity /\ v[0] = settings.cacheCapacity
          /\ u[size] = applied[size].idleTimeoutSeconds /\ u[0] = settings.idleTimeoutSeconds
      BY <1>2, <1>4
    <2> HIDE DEF v, u, none
    <2>3. v[size] = v[0] /\ u[size] = u[0]
      BY <1>2, <2>1, LastAssignment DEF Stays
    <2> QED
      BY <2>2, <2>3
  <1>13. applied[size] \in Settings(words)
    BY <1>2, <1>4
  <1> QED
    BY <1>1, <1>4, <1>8, <1>9, <1>10, <1>11, <1>12, <1>13

-----------------------------------------------------------------------------
(* The file .env and the environment of the process *)

Texts == STRING \ {""}
Envs == UNION {[names -> Texts] : names \in SUBSET STRING}
Lines == [key : STRING, value : STRING, comment : BOOLEAN]

\* A line that is not ignored assigns its value to its key and leaves the rest.
ReadLine(env, line) == IF Ignored(line) THEN env ELSE Assigned(env, line.key, line.value)

LEMMA ReadLineType ==
    ASSUME NEW env \in Envs, NEW line \in Lines
    PROVE ReadLine(env, line) \in Envs
  <1>1. CASE Ignored(line)
    BY <1>1 DEF ReadLine
  <1>2. CASE ~Ignored(line)
    <2>1. line.key \in STRING /\ line.value \in Texts
      BY <1>2 DEF Ignored, Lines, Texts
    <2>2. PICK names \in SUBSET STRING : env \in [names -> Texts]
      BY DEF Envs
    <2>3. Assigned(env, line.key, line.value) \in [names \cup {line.key} -> Texts]
      BY <2>1, <2>2 DEF Assigned
    <2>4. names \cup {line.key} \in SUBSET STRING
      BY <2>1, <2>2
    <2> QED
      BY <1>2, <2>3, <2>4 DEF ReadLine, Envs
  <1> QED
    BY <1>1, <1>2

\* The course of the variables while the file is read
FileTable(lines, read) ==
    /\ read \in [0..Len(lines) -> Envs]
    /\ read[0] = <<>>
    /\ \A i \in 1..Len(lines) : read[i] = ReadLine(read[i - 1], lines[i])
    /\ parseEnvFile(lines) = read[Len(lines)]

\* parseEnvFile() computes such a table.
LEMMA ParseTable ==
    ASSUME NEW lines \in Seq(Lines)
    PROVE \E read : FileTable(lines, read)
  <1>1. PICK size : size = Len(lines)
    OBVIOUS
  <1>2. size \in Nat /\ \A i \in 1..size : lines[i] \in Lines
    BY <1>1
  <1> DEFINE step == [i \in 1..size |-> [env \in Envs |-> ReadLine(env, lines[i])]]
  <1>3. step \in [1..size -> [Envs -> Envs]]
    BY <1>2, ReadLineType
  <1>4. <<>> \in Envs
    <2>1. <<>> \in [{} -> Texts]
      OBVIOUS
    <2>2. {} \in SUBSET STRING
      OBVIOUS
    <2> QED
      BY <2>1, <2>2 DEF Envs
  <1>5. PICK p : StepTable(Envs, <<>>, step, size, p)
    <2> HIDE DEF step
    <2> QED
      BY <1>2, <1>3, <1>4, IterationExists
  <1>6. /\ p \in [0..size -> Envs] /\ p[0] = <<>>
        /\ \A i \in 1..size : p[i] = ReadLine(p[i - 1], lines[i])
    <2>1. p \in [0..size -> Envs] /\ p[0] = <<>>
      BY <1>5 DEF StepTable
    <2>2. ASSUME NEW i \in 1..size PROVE p[i] = ReadLine(p[i - 1], lines[i])
      <3>1. i - 1 \in 0..size
        BY <1>2
      <3>2. p[i] = step[i][p[i - 1]] /\ p[i - 1] \in Envs
        BY <1>5, <2>1, <3>1 DEF StepTable
      <3> QED
        BY <3>2
    <2> QED
      BY <2>1, <2>2
  <1> HIDE DEF step
  <1> DEFINE loop(f) == f = [n \in 0..size |-> IF n = 0 THEN <<>> ELSE ReadLine(f[n - 1], lines[n])]
  <1>7. loop(p)
    <2>1. p = [n \in 0..size |-> p[n]]
      BY <1>6
    <2>2. \A n \in 0..size : p[n] = IF n = 0 THEN <<>> ELSE ReadLine(p[n - 1], lines[n])
      BY <1>6
    <2> QED
      BY <2>1, <2>2
  <1>8. PICK f : loop(f) /\ parseEnvFile(lines) = f[size]
    <2>1. parseEnvFile(lines) = (CHOOSE f : loop(f))[size]
      BY <1>1 DEF parseEnvFile, ReadLine
    <2> HIDE DEF loop
    <2>2. loop(CHOOSE f : loop(f))
      BY <1>7
    <2> QED
      BY <2>1, <2>2
  <1>9. f[size] = p[size]
    <2> DEFINE T == {n \in Nat : n <= size /\ f[n] # p[n]}
    <2>1. ASSUME T # {} PROVE FALSE
      <3>1. PICK n \in T : \A j \in T : n <= j
        BY <2>1, LeastNatural
      <3>2. n \in 0..size /\ f[n] = IF n = 0 THEN <<>> ELSE ReadLine(f[n - 1], lines[n])
        BY <1>2, <1>8, <3>1
      <3>3. CASE n = 0
        BY <1>6, <3>1, <3>2, <3>3
      <3>4. CASE n # 0
        <4>1. n - 1 \in Nat /\ n - 1 \notin T /\ n - 1 <= size
          BY <1>2, <3>1, <3>4
        <4>2. f[n - 1] = p[n - 1]
          BY <4>1
        <4> QED
          BY <1>6, <3>1, <3>2, <3>4, <4>2
      <3> QED
        BY <3>3, <3>4
    <2>2. T = {} /\ size <= size
      BY <1>2, <2>1
    <2> QED
      BY <1>2, <2>2
  <1> QED
    BY <1>1, <1>6, <1>8, <1>9 DEF FileTable

\* The last line for a name decides what the file says about it.
LEMMA FileWins ==
    ASSUME options.file \in Seq(Lines), NEW name
    PROVE LET env == parseEnvFile(options.file) IN
          /\ name \in DOMAIN env <=> FileLines(name) # {}
          /\ name \in DOMAIN env => /\ env[name] = options.file[Max(FileLines(name))].value
                                    /\ env[name] \in Texts
  <1>1. PICK lines, size : lines = options.file /\ size = Len(lines)
    OBVIOUS
  <1>2. lines \in Seq(Lines) /\ size \in Nat /\ DOMAIN lines = 1..size /\ lines = options.file
    <2>1. lines \in Seq(Lines)
      BY <1>1
    <2> QED
      BY <1>1, <2>1
  <1>3. PICK read : FileTable(lines, read)
    BY <1>2, ParseTable
  <1>4. /\ read \in [0..size -> Envs] /\ read[0] = <<>> /\ parseEnvFile(lines) = read[size]
        /\ \A i \in 1..size : read[i] = ReadLine(read[i - 1], lines[i])
    BY <1>1, <1>3 DEF FileTable
  <1> DEFINE v == [i \in 0..size |-> IF name \in DOMAIN read[i] THEN read[i][name] ELSE ""]
             w == [i \in 1..size |-> lines[i].value]
  <1>5. FileLines(name) = {i \in 1..size : lines[i].key = name /\ ~Ignored(lines[i])}
    BY <1>2 DEF FileLines
  <1>6. ASSUME NEW i \in 1..size PROVE v[i] = IF i \in FileLines(name) THEN w[i] ELSE v[i - 1]
    <2>1. i \in 0..size /\ i - 1 \in 0..size
      BY <1>2
    <2>2. i \in FileLines(name) <=> lines[i].key = name /\ ~Ignored(lines[i])
      BY <1>5
    <2>3. read[i] = ReadLine(read[i - 1], lines[i])
      BY <1>4
    <2>4. PICK env, line : env = read[i - 1] /\ line = lines[i]
      OBVIOUS
    <2>5. CASE Ignored(line)
      BY <2>1, <2>2, <2>3, <2>4, <2>5 DEF ReadLine
    <2>6. CASE ~Ignored(line)
      <3>1. /\ read[i] = [n \in DOMAIN env \cup {line.key} |-> IF n = line.key THEN line.value ELSE env[n]]
        BY <2>3, <2>4, <2>6 DEF ReadLine, Assigned
      <3>2. CASE line.key = name
        <4>1. name \in DOMAIN read[i] /\ read[i][name] = line.value
          BY <3>1, <3>2
        <4> QED
          BY <2>1, <2>2, <2>4, <2>6, <3>2, <4>1
      <3>3. CASE line.key # name
        <4>1. /\ name \in DOMAIN read[i] <=> name \in DOMAIN env
              /\ name \in DOMAIN env => read[i][name] = env[name]
          BY <3>1, <3>3
        <4> QED
          BY <2>1, <2>2, <2>4, <3>3, <4>1
      <3> QED
        BY <3>2, <3>3
    <2> QED
      BY <2>5, <2>6
  <1>7. /\ v[0] = ""
        /\ v[size] = IF name \in DOMAIN read[size] THEN read[size][name] ELSE ""
    <2>1. 0 \in 0..size /\ size \in 0..size
      BY <1>2
    <2>2. name \notin DOMAIN <<>>
      OBVIOUS
    <2>3. name \notin DOMAIN read[0]
      BY <1>4, <2>2
    <2> QED
      BY <2>1, <2>3
  <1>8. name \in DOMAIN read[size] => read[size][name] \in Texts
    <2>1. read[size] \in Envs
      BY <1>2, <1>4
    <2>2. PICK names \in SUBSET STRING : read[size] \in [names -> Texts]
      BY <2>1 DEF Envs
    <2> QED
      BY <2>2
  <1>9. Course(size, v, w, FileLines(name)) /\ FileLines(name) \subseteq 1..size
    BY <1>5, <1>6 DEF Course
  <1>10. \A i \in FileLines(name) : w[i] = options.file[i].value /\ w[i] # ""
    BY <1>2, <1>5 DEF Ignored
  <1> HIDE DEF v, w
  <1>11. /\ FileLines(name) = {} => v[size] = v[0]
         /\ FileLines(name) # {} => Max(FileLines(name)) \in FileLines(name)
                                    /\ v[size] = w[Max(FileLines(name))]
    BY <1>2, <1>9, LastAssignment DEF Stays
  <1>12. PICK last : last = Max(FileLines(name))
    OBVIOUS
  <1>13. FileLines(name) # {} => v[size] = options.file[last].value /\ v[size] # ""
    BY <1>10, <1>11, <1>12
  <1>14. FileLines(name) = {} => v[size] = ""
    BY <1>7, <1>11
  <1>15. "" \notin Texts
    BY DEF Texts
  <1>16. parseEnvFile(options.file) = read[size]
    BY <1>2, <1>4
  <1> QED
    BY <1>7, <1>8, <1>12, <1>13, <1>14, <1>15, <1>16

\* What the file and the process say about a setting together
Said(name) == InProcess(name) \/ FileLines(name) # {}
SaidWord(name) ==
    IF InProcess(name) THEN options.environ[name] ELSE options.file[Max(FileLines(name))].value

LEMMA LayeredWord ==
    ASSUME OptionTypes(options), NEW name \in Names
    PROVE /\ name \in DOMAIN Layered(options) <=> Said(name)
          /\ Said(name) => Layered(options)[name] = SaidWord(name) /\ SaidWord(name) \in Texts
  <1>1. PICK file : file = parseEnvFile(options.file)
    OBVIOUS
  <1>2. PICK process : process = {n \in DOMAIN options.environ \cap Names : options.environ[n] # ""}
    OBVIOUS
  <1>3. Layered(options) =
            [n \in DOMAIN file \cup process |-> IF n \in process THEN options.environ[n] ELSE file[n]]
    BY <1>1, <1>2 DEF Layered
  <1>4. name \in process <=> InProcess(name)
    BY <1>2 DEF InProcess
  <1>5. /\ name \in DOMAIN file <=> FileLines(name) # {}
        /\ name \in DOMAIN file => file[name] = options.file[Max(FileLines(name))].value
                                   /\ file[name] \in Texts
    <2>1. options.file \in Seq(Lines)
      BY DEF OptionTypes, Lines
    <2> QED
      BY <1>1, <2>1, FileWins
  <1>6. InProcess(name) => options.environ[name] \in Texts
    BY DEF InProcess, OptionTypes, Texts
  <1>7. CASE InProcess(name)
    BY <1>3, <1>4, <1>6, <1>7 DEF Said, SaidWord
  <1>8. CASE ~InProcess(name)
    BY <1>3, <1>4, <1>5, <1>8 DEF Said, SaidWord
  <1> QED
    BY <1>7, <1>8

NumberNames == {"SERVER_PORT", "PORT", "MAX_THREADS", "CACHE_CAPACITY", "IDLE_TIMEOUT"}

\* Numbers can be read if main() goes on.
LEMMA SaidNumber ==
    ASSUME OptionTypes(options), ~Unreadable(options), NEW name \in NumberNames, Said(name)
    PROVE SaidWord(name) \in DOMAIN stoi /\ stoi[SaidWord(name)] \in Int /\ SaidWord(name) # ""
  <1>1. name \in Names
    BY DEF NumberNames, Names
  <1>2. name \in DOMAIN Layered(options) /\ Layered(options)[name] = SaidWord(name)
    BY <1>1, LayeredWord
  <1>3. Layered(options)[name] \in DOMAIN stoi
    BY <1>2 DEF Unreadable, NumberNames
  <1> QED
    BY <1>2, <1>3, StoiAssumption

\* The texts a setting can have, the built-in ones included
Words == STRING \cup {Defaults.ip, Defaults.mode}

\* The settings before the flags are applied
LEMMA FromEnvFields ==
    ASSUME OptionTypes(options), ~Unreadable(options)
    PROVE LET settings == FromEnv(Layered(options))
              Text(name, default) == IF Said(name) THEN SaidWord(name) ELSE default
              Number(name, default) == IF Said(name) THEN stoi[SaidWord(name)] ELSE default IN
          /\ settings \in Settings(Words)
          /\ settings.ip = Text("SERVER_IP", Defaults.ip)
          /\ settings.mode = Text("LOOP_MODE", Defaults.mode)
          /\ settings.port = Number("PORT", Number("SERVER_PORT", Defaults.port))
          /\ settings.threads = Number("MAX_THREADS", Defaults.threads)
          /\ settings.cacheCapacity = Number("CACHE_CAPACITY", Defaults.cacheCapacity)
          /\ settings.idleTimeoutSeconds = Number("IDLE_TIMEOUT", Defaults.idleTimeoutSeconds)
  <1> DEFINE env == Layered(options)
             Text(name, default) == IF Said(name) THEN SaidWord(name) ELSE default
             Number(name, default) == IF Said(name) THEN stoi[SaidWord(name)] ELSE default
  <1>1. ASSUME NEW name \in Names, NEW default
        PROVE /\ (IF name \in DOMAIN env THEN env[name] ELSE default) = Text(name, default)
              /\ (IF name \in DOMAIN env THEN stoi[env[name]] ELSE default) = Number(name, default)
    BY LayeredWord
  <1>2. ASSUME NEW name \in Names, NEW default \in Words PROVE Text(name, default) \in Words
    BY LayeredWord DEF Texts, Words
  <1>3. ASSUME NEW name \in NumberNames, NEW default \in Int PROVE Number(name, default) \in Int
    BY SaidNumber
  <1>4. {"SERVER_IP", "LOOP_MODE"} \cup NumberNames \subseteq Names
    BY DEF NumberNames, Names
  <1>5. {"SERVER_PORT", "PORT", "MAX_THREADS", "CACHE_CAPACITY", "IDLE_TIMEOUT"} = NumberNames
    BY DEF NumberNames
  <1> HIDE DEF env, Text, Number
  <1>6. FromEnv(env) =
           [ip |-> Text("SERVER_IP", Defaults.ip),
            port |-> Number("PORT", Number("SERVER_PORT", Defaults.port)),
            threads |-> Number("MAX_THREADS", Defaults.threads),
            cacheCapacity |-> Number("CACHE_CAPACITY", Defaults.cacheCapacity),
            idleTimeoutSeconds |-> Number("IDLE_TIMEOUT", Defaults.idleTimeoutSeconds),
            mode |-> Text("LOOP_MODE", Defaults.mode)]
    BY <1>1, <1>4, <1>5 DEF FromEnv
  <1>7. /\ Defaults.ip \in Words /\ Defaults.mode \in Words
        /\ Defaults.port \in Int /\ Defaults.threads \in Int /\ Defaults.cacheCapacity \in Int
        /\ Defaults.idleTimeoutSeconds \in Int
    BY DEF Defaults, Words
  <1>8. /\ Text("SERVER_IP", Defaults.ip) \in Words /\ Text("LOOP_MODE", Defaults.mode) \in Words
        /\ Number("PORT", Number("SERVER_PORT", Defaults.port)) \in Int
        /\ Number("MAX_THREADS", Defaults.threads) \in Int
        /\ Number("CACHE_CAPACITY", Defaults.cacheCapacity) \in Int
        /\ Number("IDLE_TIMEOUT", Defaults.idleTimeoutSeconds) \in Int
    BY <1>2, <1>3, <1>4, <1>5, <1>7
  <1>9. FromEnv(env) \in Settings(Words)
    BY <1>6, <1>8 DEF Settings
  <1> QED
    BY <1>6, <1>9 DEF env, Text, Number

\* The word of the highest layer, flag first
LEMMA HighestWordIs ==
    ASSUME NEW flags, NEW name, NEW default
    PROVE HighestWord(flags, name, default) =
            IF Flagged(flags) # {} THEN options.args[Max(Flagged(flags)) + 1]
            ELSE IF Said(name) THEN SaidWord(name) ELSE default
  <1>1. CASE Flagged(flags) # {}
    BY <1>1 DEF HighestWord
  <1>2. CASE Flagged(flags) = {} /\ InProcess(name)
    BY <1>2 DEF HighestWord, Said, SaidWord
  <1>3. CASE Flagged(flags) = {} /\ ~InProcess(name) /\ FileLines(name) # {}
    BY <1>3 DEF HighestWord, Said, SaidWord
  <1>4. CASE Flagged(flags) = {} /\ ~InProcess(name) /\ FileLines(name) = {}
    BY <1>4 DEF HighestWord, Said, SaidWord
  <1> QED
    BY <1>1, <1>2, <1>3, <1>4

\* A flag that names a number has one.
LEMMA FlagNumber ==
    ASSUME OptionTypes(options), ~Unreadable(options), NEW flag \in {"--threads", "--port"},
           Flagged({flag}) # {}
    PROVE /\ options.args[Max(Flagged({flag})) + 1] \in DOMAIN stoi
          /\ options.args[Max(Flagged({flag})) + 1] # ""
  <1>1. options.args \in Seq(STRING)
    BY DEF OptionTypes
  <1>2. PICK m : m = Max(Hits(flag))
    OBVIOUS
  <1>3. /\ m \in Hits(flag)
        /\ options.args[Max(Flagged({flag})) + 1] = Pairs(options.args)[m][2]
    BY <1>1, <1>2, LastFlag
  <1>4. m \in DOMAIN Pairs(options.args) /\ Pairs(options.args)[m][1] = flag
    BY <1>1, <1>3, PairsTypes DEF Hits
  <1>5. Pairs(options.args)[m][2] \in DOMAIN stoi
    BY <1>4 DEF Unreadable
  <1> QED
    BY <1>3, <1>5, StoiAssumption

\* The number of the highest layer
LEMMA HighestNumberIs ==
    ASSUME OptionTypes(options), ~Unreadable(options), NEW name \in NumberNames, NEW default,
           NEW flags, Flagged(flags) # {} => flags \in {{"--threads"}, {"--port"}}
    PROVE HighestNumber(flags, name, default) =
            IF Flagged(flags) # {} THEN stoi[options.args[Max(Flagged(flags)) + 1]]
            ELSE IF Said(name) THEN stoi[SaidWord(name)] ELSE default
  <1>1. PICK word : word = HighestWord(flags, name, "")
    OBVIOUS
  <1>2. HighestNumber(flags, name, default) = IF word = "" THEN default ELSE stoi[word]
    BY <1>1 DEF HighestNumber
  <1>3. CASE Flagged(flags) # {}
    <2>1. PICK flag \in {"--threads", "--port"} : flags = {flag}
      BY <1>3
    <2>2. options.args[Max(Flagged(flags)) + 1] # ""
      BY <1>3, <2>1, FlagNumber
    <2> QED
      BY <1>1, <1>2, <1>3, <2>2, HighestWordIs
  <1>4. CASE Flagged(flags) = {} /\ Said(name)
    <2>1. SaidWord(name) # ""
      BY <1>4, SaidNumber
    <2> QED
      BY <1>1, <1>2, <1>4, <2>1, HighestWordIs
  <1>5. CASE Flagged(flags) = {} /\ ~Said(name)
    BY <1>1, <1>2, <1>5, HighestWordIs
  <1> QED
    BY <1>3, <1>4, <1>5

\* What main() clamps, and what it leaves
LEMMA NormalizedFields ==
    ASSUME NEW s \in Settings(Words)
    PROVE /\ Normalized(s).threads = (IF s.threads < 1 THEN 1 ELSE s.threads)
          /\ Normalized(s).mode = (IF s.mode = "reactor" THEN "reactor" ELSE "pool")
          /\ Normalized(s).ip = s.ip /\ Normalized(s).port = s.port
          /\ Normalized(s).cacheCapacity = s.cacheCapacity
          /\ Normalized(s).idleTimeoutSeconds = s.idleTimeoutSeconds
  BY DEF Normalized, Settings

\* The configuration that main() starts with: its types, and that the highest layer wins
LEMMA ConfigRight ==
    ASSUME NEW choices, \A o \in choices : OptionTypes(o), ConfigInit(choices)
    PROVE /\ options \in choices
          /\ config.threads \in Nat \ {0} /\ config.mode \in {"pool", "reactor"}
          /\ config.cacheCapacity \in Int
          /\ HighestLayerWins
  <1>1. options \in choices /\ OptionTypes(options)
    BY DEF ConfigInit
  <1>2. CASE Unreadable(options)
    <2>1. config = Defaults
      BY <1>2 DEF ConfigInit
    <2> QED
      BY <1>1, <1>2, <2>1 DEF Defaults, HighestLayerWins
  <1>3. CASE ~Unreadable(options)
    <2>1. PICK settings : settings = FromEnv(Layered(options))
      OBVIOUS
    <2>2. PICK final : final = WithFlags(settings, Pairs(options.args))
      OBVIOUS
    <2>3. config = Normalized(final)
      BY <1>3, <2>1, <2>2 DEF ConfigInit, Configured
    <2>4. options.args \in Seq(STRING) /\ Readable(Pairs(options.args))
      BY <1>1, <1>3 DEF OptionTypes, Readable, Unreadable
    <2>5. /\ settings \in Settings(Words)
          /\ settings.ip = IF Said("SERVER_IP") THEN SaidWord("SERVER_IP") ELSE Defaults.ip
          /\ settings.mode = IF Said("LOOP_MODE") THEN SaidWord("LOOP_MODE") ELSE Defaults.mode
          /\ settings.port = (IF Said("PORT") THEN stoi[SaidWord("PORT")]
                              ELSE IF Said("SERVER_PORT") THEN stoi[SaidWord("SERVER_PORT")]
                              ELSE Defaults.port)
          /\ settings.threads = (IF Said("MAX_THREADS") THEN stoi[SaidWord("MAX_THREADS")]
                                 ELSE Defaults.threads)
          /\ settings.cacheCapacity = (IF Said("CACHE_CAPACITY") THEN stoi[SaidWord("CACHE_CAPACITY")]
                                       ELSE Defaults.cacheCapacity)
          /\ settings.idleTimeoutSeconds = (IF Said("IDLE_TIMEOUT") THEN stoi[SaidWord("IDLE_TIMEOUT")]
                                            ELSE Defaults.idleTimeoutSeconds)
      BY <1>1, <1>3, <2>1, FromEnvFields
    <2> DEFINE Word(flag) == options.args[Max(Flagged({flag})) + 1]
    <2>6. /\ final \in Settings(Words)
          /\ final.ip = (IF Flagged({"--ip"}) # {} THEN Word("--ip") ELSE settings.ip)
          /\ final.mode = (IF Flagged({"--mode"}) # {} THEN Word("--mode") ELSE settings.mode)
          /\ final.threads = (IF Flagged({"--threads"}) # {} THEN stoi[Word("--threads")]
                              ELSE settings.threads)
          /\ final.port = (IF Flagged({"--port"}) # {} THEN stoi[Word("--port")] ELSE settings.port)
          /\ final.cacheCapacity = settings.cacheCapacity
          /\ final.idleTimeoutSeconds = settings.idleTimeoutSeconds
      BY <2>2, <2>4, <2>5, FlagsWin DEF Words
    <2>7. /\ config.threads = (IF final.threads < 1 THEN 1 ELSE final.threads)
          /\ config.mode = (IF final.mode = "reactor" THEN "reactor" ELSE "pool")
          /\ config.ip = final.ip /\ config.port = final.port
          /\ config.cacheCapacity = final.cacheCapacity
          /\ config.idleTimeoutSeconds = final.idleTimeoutSeconds
      BY <2>3, <2>6, NormalizedFields
    <2>8. final.threads \in Int /\ final.cacheCapacity \in Int
      BY <2>6 DEF Settings
    <2>9. config.threads \in Nat \ {0} /\ config.mode \in {"pool", "reactor"} /\ config.cacheCapacity \in Int
      BY <2>7, <2>8
    <2>10. Flagged({}) = {}
      BY DEF Flagged
    <2>11. ASSUME NEW name \in NumberNames, NEW default
           PROVE /\ HighestNumber({}, name, default) = IF Said(name) THEN stoi[SaidWord(name)] ELSE default
                 /\ \A flag \in {"--threads", "--port"} :
                      HighestNumber({flag}, name, default) =
                        IF Flagged({flag}) # {} THEN stoi[Word(flag)]
                        ELSE IF Said(name) THEN stoi[SaidWord(name)] ELSE default
      BY <1>1, <1>3, <2>10, HighestNumberIs
    <2>12. {"SERVER_PORT", "PORT", "MAX_THREADS", "CACHE_CAPACITY", "IDLE_TIMEOUT"} \subseteq NumberNames
      BY DEF NumberNames
    <2>13. config.ip = HighestWord({"--ip"}, "SERVER_IP", Defaults.ip)
      BY <2>5, <2>6, <2>7, HighestWordIs
    <2>14. final.mode = HighestWord({"--mode"}, "LOOP_MODE", Defaults.mode)
      BY <2>5, <2>6, HighestWordIs
    <2>15. final.threads = HighestNumber({"--threads"}, "MAX_THREADS", Defaults.threads)
      BY <2>5, <2>6, <2>11, <2>12
    <2>16. /\ config.cacheCapacity = HighestNumber({}, "CACHE_CAPACITY", Defaults.cacheCapacity)
           /\ config.idleTimeoutSeconds = HighestNumber({}, "IDLE_TIMEOUT", Defaults.idleTimeoutSeconds)
      BY <2>5, <2>6, <2>7, <2>11, <2>12
    <2>17. ASSUME NEW name,
                  name = IF InProcess("PORT") \/ (FileLines("PORT") # {} /\ ~InProcess("SERVER_PORT"))
                         THEN "PORT" ELSE "SERVER_PORT",
                  FileLines("PORT") = {} \/ ~InProcess("SERVER_PORT") \/ InProcess("PORT")
           PROVE config.port = HighestNumber({"--port"}, name, Defaults.port)
      <3>1. name \in NumberNames /\ name = IF Said("PORT") THEN "PORT" ELSE "SERVER_PORT"
        BY <2>12, <2>17 DEF Said
      <3>2. settings.port = IF Said(name) THEN stoi[SaidWord(name)] ELSE Defaults.port
        BY <2>5, <3>1
      <3>3. HighestNumber({"--port"}, name, Defaults.port) =
                IF Flagged({"--port"}) # {} THEN stoi[Word("--port")]
                ELSE IF Said(name) THEN stoi[SaidWord(name)] ELSE Defaults.port
        BY <2>11, <3>1
      <3> QED
        BY <2>6, <2>7, <3>2, <3>3
    <2>18. HighestLayerWins
      BY <2>7, <2>13, <2>14, <2>15, <2>16, <2>17 DEF HighestLayerWins
    <2> QED
      BY <1>1, <2>9, <2>18
  <1> QED
    BY <1>2, <1>3

-----------------------------------------------------------------------------
(* The file cache *)

\* c is a followed by b.
Joined(a, b, c) ==
    /\ Len(c) = Len(a) + Len(b)
    /\ \A j \in 1..Len(a) : c[j] = a[j]
    /\ \A j \in Len(a) + 1..Len(a) + Len(b) : c[j] = b[j - Len(a)]

\* Concatenation, position by position
LEMMA ConcatParts ==
    ASSUME NEW T, NEW a \in Seq(T), NEW b \in Seq(T)
    PROVE a \o b \in Seq(T) /\ Joined(a, b, a \o b)
  BY DEF Joined

\* t is s without its position p, and with x in front.
Moved(s, p, x, t) ==
    /\ Len(t) = Len(s) /\ t[1] = x
    /\ \A j \in 2..p : t[j] = s[j - 1]
    /\ \A j \in p + 1..Len(s) : t[j] = s[j]

\* Splicing a node to the front of a list
LEMMA MoveToFront ==
    ASSUME NEW T, NEW s \in Seq(T), NEW x \in T, NEW p \in 1..Len(s), NEW t, t = <<x>> \o RemoveAt(s, p)
    PROVE t \in Seq(T) /\ Moved(s, p, x, t)
  <1>1. PICK a, b : a = SubSeq(s, 1, p - 1) /\ b = SubSeq(s, p + 1, Len(s))
    OBVIOUS
  <1>2. t = <<x>> \o (a \o b)
    BY <1>1 DEF RemoveAt
  <1>3. a \in Seq(T) /\ Len(a) = p - 1 /\ \A j \in 1..p - 1 : a[j] = s[j]
    BY <1>1
  <1>4. b \in Seq(T) /\ Len(b) = Len(s) - p /\ \A j \in 1..Len(s) - p : b[j] = s[p + j]
    BY <1>1
  <1>5. PICK c : c = a \o b
    OBVIOUS
  <1>6. /\ c \in Seq(T) /\ Len(c) = Len(s) - 1
        /\ \A j \in 1..p - 1 : c[j] = s[j]
        /\ \A j \in p..Len(s) - 1 : c[j] = s[j + 1]
    <2>0. a \in Seq(T) /\ b \in Seq(T)
      BY <1>3, <1>4
    <2>1. c \in Seq(T) /\ Joined(a, b, c)
      BY <1>5, <2>0, ConcatParts, Zenon
    <2>2. ASSUME NEW j \in p..Len(s) - 1 PROVE c[j] = s[j + 1]
      <3>1. j \in Len(a) + 1..Len(a) + Len(b) /\ j - Len(a) \in 1..Len(s) - p
        BY <1>3, <1>4
      <3>2. b[j - Len(a)] = s[p + (j - Len(a))] /\ p + (j - Len(a)) = j + 1
        BY <1>3, <1>4, <3>1
      <3> QED
        BY <2>1, <3>1, <3>2 DEF Joined
    <2>3. ASSUME NEW j \in 1..p - 1 PROVE c[j] = s[j]
      <3>1. j \in 1..Len(a) /\ a[j] = s[j]
        BY <1>3
      <3> QED
        BY <2>1, <3>1 DEF Joined
    <2>4. Len(c) = Len(s) - 1
      <3>1. Len(c) = Len(a) + Len(b)
        BY <2>1 DEF Joined
      <3>2. PICK n \in Nat : n = Len(s)
        OBVIOUS
      <3> QED
        BY <1>3, <1>4, <3>1, <3>2
    <2> QED
      BY <2>1, <2>2, <2>3, <2>4
  <1>7. /\ t \in Seq(T) /\ Len(t) = Len(s) /\ t[1] = x /\ \A j \in 2..Len(s) : t[j] = c[j - 1]
    <2>1. PICK one : one = <<x>>
      OBVIOUS
    <2>2. one \in Seq(T) /\ Len(one) = 1 /\ one[1] = x
      BY <2>1
    <2>3. t = one \o c
      BY <1>2, <1>5, <2>1
    <2>0. one \in Seq(T) /\ c \in Seq(T)
      BY <1>6, <2>2
    <2>4. t \in Seq(T) /\ Joined(one, c, t)
      BY <2>0, <2>3, ConcatParts, Zenon
    <2>5. Len(s) \in Nat
      OBVIOUS
    <2>6. ASSUME NEW j \in 2..Len(s) PROVE t[j] = c[j - 1]
      BY <1>6, <2>2, <2>4, <2>5 DEF Joined
    <2>7. Len(t) = Len(s) /\ t[1] = x
      <3>1. 1 \in 1..Len(one) /\ Len(c) = Len(s) - 1
        BY <1>6, <2>2
      <3>2. Len(t) = Len(one) + Len(c) /\ t[1] = one[1]
        BY <2>4, <3>1 DEF Joined
      <3> QED
        BY <2>2, <2>5, <3>1, <3>2
    <2> QED
      BY <2>4, <2>6, <2>7
  <1>8. PICK n \in Nat : n = Len(s)
    OBVIOUS
  <1>9. ASSUME NEW j \in 2..p PROVE t[j] = s[j - 1]
    <2>1. j \in 2..n /\ j - 1 \in 1..p - 1
      BY <1>8, <1>9
    <2> QED
      BY <1>6, <1>7, <1>8, <2>1
  <1>10. ASSUME NEW j \in p + 1..Len(s) PROVE t[j] = s[j]
    <2>1. j \in 2..n /\ j - 1 \in p..n - 1 /\ (j - 1) + 1 = j
      BY <1>8, <1>10
    <2> QED
      BY <1>6, <1>7, <1>8, <2>1
  <1> QED
    BY <1>7, <1>9, <1>10 DEF Moved

\* t is s with x in front.
Pushed(s, x, t) ==
    Len(t) = Len(s) + 1 /\ t[1] = x /\ \A j \in 2..Len(s) + 1 : t[j] = s[j - 1]

LEMMA PushFront ==
    ASSUME NEW T, NEW s \in Seq(T), NEW x \in T, NEW t, t = <<x>> \o s
    PROVE t \in Seq(T) /\ Pushed(s, x, t)
  <1>1. PICK one : one = <<x>>
    OBVIOUS
  <1>2. one \in Seq(T) /\ Len(one) = 1 /\ one[1] = x /\ t = one \o s
    BY <1>1
  <1>3. t \in Seq(T) /\ Joined(one, s, t)
    BY <1>2, ConcatParts, Zenon
  <1>4. Len(s) \in Nat
    OBVIOUS
  <1>5. Len(t) = Len(s) + 1
    BY <1>2, <1>3, <1>4 DEF Joined
  <1>6. t[1] = x
    BY <1>2, <1>3 DEF Joined
  <1>7. ASSUME NEW j \in 2..Len(s) + 1 PROVE t[j] = s[j - 1]
    <2>1. j \in Len(one) + 1..Len(one) + Len(s) /\ j - Len(one) = j - 1
      BY <1>2, <1>4, <1>7
    <2> QED
      BY <1>3, <2>1 DEF Joined
  <1> QED
    BY <1>3, <1>5, <1>6, <1>7 DEF Pushed

\* No key is in a list twice.
Distinct(s) == \A i, j \in 1..Len(s) : s[i] = s[j] => i = j

\* What is in the first m places of a list
Leading(s, m) == {s[i] : i \in 1..m}

\* Moving an element of a list to its front permutes the list, and every beginning of it
\* that the element was in.
LEMMA MovedPermutes ==
    ASSUME NEW T, NEW s \in Seq(T), NEW t \in Seq(T), NEW p \in 1..Len(s), Moved(s, p, s[p], t)
    PROVE /\ Distinct(s) => Distinct(t)
          /\ \A m \in p..Len(s) : Leading(t, m) = Leading(s, m)
  <1> DEFINE from == [j \in 1..Len(s) |-> IF j = 1 THEN p ELSE IF j <= p THEN j - 1 ELSE j]
             to   == [i \in 1..Len(s) |-> IF i = p THEN 1 ELSE IF i < p THEN i + 1 ELSE i]
  <1>1. Len(s) \in Nat /\ Len(t) = Len(s)
    BY DEF Moved
  <1>2. ASSUME NEW j \in 1..Len(s) PROVE from[j] \in 1..Len(s) /\ to[j] \in 1..Len(s) /\ t[j] = s[from[j]]
    BY <1>1, <1>2 DEF Moved
  <1>3. ASSUME NEW i \in 1..Len(s), NEW j \in 1..Len(s), from[i] = from[j] PROVE i = j
    BY <1>1, <1>3
  <1>4. ASSUME NEW i \in 1..Len(s) PROVE from[to[i]] = i
    BY <1>1, <1>4
  <1>5. ASSUME NEW m \in p..Len(s), NEW i \in 1..m PROVE from[i] \in 1..m /\ to[i] \in 1..m /\ i \in 1..Len(s)
    BY <1>1, <1>5
  <1> HIDE DEF from, to
  <1>6. Distinct(s) => Distinct(t)
    BY <1>1, <1>2, <1>3, SMTT(30) DEF Distinct
  <1>7. ASSUME NEW m \in p..Len(s) PROVE Leading(t, m) = Leading(s, m)
    <2>1. ASSUME NEW i \in 1..m PROVE t[i] \in {s[j] : j \in 1..m}
      BY <1>2, <1>5, <2>1
    <2>2. ASSUME NEW i \in 1..m PROVE s[i] \in {t[j] : j \in 1..m}
      <3>1. to[i] \in 1..m /\ to[i] \in 1..Len(s) /\ from[to[i]] = i
        BY <1>4, <1>5
      <3>2. t[to[i]] = s[i]
        BY <1>2, <3>1
      <3> QED
        BY <3>1, <3>2
    <2> QED
      BY <2>1, <2>2 DEF Leading
  <1> QED
    BY <1>6, <1>7

\* A new key in front
LEMMA PushedDistinct ==
    ASSUME NEW T, NEW s \in Seq(T), NEW t \in Seq(T), NEW x, Pushed(s, x, t), Distinct(s),
           \A i \in 1..Len(s) : s[i] # x
    PROVE Distinct(t)
  <1>1. Len(s) \in Nat /\ Len(t) = Len(s) + 1
    BY DEF Pushed
  <1> SUFFICES ASSUME NEW i \in 1..Len(t), NEW j \in 1..Len(t), t[i] = t[j] PROVE i = j
    BY DEF Distinct
  <1>2. ASSUME NEW k \in 1..Len(t), k # 1 PROVE t[k] = s[k - 1] /\ k - 1 \in 1..Len(s) /\ t[k] # x
    BY <1>1, <1>2 DEF Pushed
  <1>3. t[1] = x
    BY DEF Pushed
  <1>4. CASE i = 1 \/ j = 1
    BY <1>2, <1>3, <1>4
  <1>5. CASE i # 1 /\ j # 1
    <2>1. s[i - 1] = s[j - 1] /\ i - 1 \in 1..Len(s) /\ j - 1 \in 1..Len(s)
      BY <1>2, <1>5
    <2>2. i - 1 = j - 1
      BY <2>1 DEF Distinct
    <2> QED
      BY <1>1, <2>2
  <1> QED
    BY <1>4, <1>5

Entry == [key : Files, value : Content]

\* The list is the beginning of the history of keys, and as long as it may be.
Lru(cap, list, keys, history) ==
    /\ cap \in Nat \ {0}
    /\ list \in Seq(Entry) /\ history \in Seq(Files)
    /\ Distinct(history)
    /\ Len(list) <= Len(history) /\ Len(list) <= cap
    /\ Len(list) = cap \/ Len(list) = Len(history)
    /\ \A i \in 1..Len(list) : list[i].key = history[i]
    /\ keys = Leading(history, Len(list))
    /\ IsFiniteSet(keys) /\ Cardinality(keys) = Len(list)

CacheInv == Lru(capacity, entries, index, used)

\* A step puts no other entry into the list than e.
Only(e) ==
    \A j \in 1..Len(entries') : entries'[j] = e \/ \E i \in 1..Len(entries) : entries'[j] = entries[i]

\* A key that is used comes to the front of the history.
LEMMA UseMeans ==
    ASSUME NEW key \in Files, used \in Seq(Files), Distinct(used), Use(key)
    PROVE /\ used' \in Seq(Files) /\ Distinct(used')
          /\ \/ \E p \in 1..Len(used) : used[p] = key /\ Moved(used, p, key, used')
             \/ (\A i \in 1..Len(used) : used[i] # key) /\ Pushed(used, key, used')
  <1> DEFINE places == {i \in DOMAIN used : used[i] = key}
  <1>1. used' = <<key>> \o (IF places = {} THEN used ELSE RemoveAt(used, CHOOSE i \in places : TRUE))
    BY DEF Use
  <1>2. DOMAIN used = 1..Len(used)
    OBVIOUS
  <1>3. CASE places = {}
    <2>1. used' = <<key>> \o used /\ \A i \in 1..Len(used) : used[i] # key
      BY <1>1, <1>2, <1>3
    <2>2. used' \in Seq(Files) /\ Pushed(used, key, used')
      BY <2>1, PushFront
    <2> QED
      BY <2>1, <2>2, PushedDistinct
  <1>4. CASE places # {}
    <2>1. PICK p : p = CHOOSE i \in places : TRUE
      OBVIOUS
    <2>2. p \in places
      BY <1>4, <2>1
    <2>3. p \in 1..Len(used) /\ used[p] = key
      BY <1>2, <2>2
    <2>4. used' = <<key>> \o RemoveAt(used, p)
      BY <1>1, <1>4, <2>1
    <2>5. used' \in Seq(Files) /\ Moved(used, p, key, used')
      BY <2>3, <2>4, MoveToFront
    <2> QED
      BY <2>3, <2>5, MovedPermutes
  <1> QED
    BY <1>3, <1>4

\* get() of a cached key, and put() of one: the entry comes to the front.
LEMMA CacheMoves ==
    ASSUME CacheInv, NEW key \in index, NEW e \in Entry, e.key = key,
           entries' = <<e>> \o RemoveAt(entries, Position(key)), Use(key),
           UNCHANGED <<capacity, index>>
    PROVE CacheInv' /\ Only(e)
  <1>1. /\ capacity \in Nat \ {0} /\ entries \in Seq(Entry) /\ used \in Seq(Files) /\ Distinct(used)
        /\ Len(entries) \in Nat /\ Len(used) \in Nat /\ Len(entries) <= Len(used)
        /\ \A i \in 1..Len(entries) : entries[i].key = used[i]
        /\ index = Leading(used, Len(entries))
    <2>1. /\ capacity \in Nat \ {0} /\ entries \in Seq(Entry) /\ used \in Seq(Files) /\ Distinct(used)
          /\ Len(entries) <= Len(used)
          /\ \A i \in 1..Len(entries) : entries[i].key = used[i]
          /\ index = Leading(used, Len(entries))
      BY Zenon DEF CacheInv, Lru
    <2>2. Len(entries) \in Nat /\ Len(used) \in Nat
      BY <2>1
    <2> QED
      BY <2>1, <2>2, Zenon
  <1>2. PICK p : p = Position(key)
    OBVIOUS
  <1>3. p \in 1..Len(entries) /\ entries[p].key = key
    <2>1. \E i \in DOMAIN entries : entries[i].key = key
      <3>1. PICK i \in 1..Len(entries) : key = used[i]
        BY <1>1 DEF Leading
      <3>2. entries[i].key = key /\ i \in DOMAIN entries
        BY <1>1, <3>1
      <3> QED
        BY <3>2
    <2>2. p \in DOMAIN entries /\ entries[p].key = key
      BY <1>2, <2>1 DEF Position
    <2> QED
      BY <1>1, <2>2
  <1>4. p \in 1..Len(used) /\ used[p] = key /\ key \in Files
    BY <1>1, <1>3
  <1>5. entries' \in Seq(Entry) /\ Moved(entries, p, e, entries')
    BY <1>1, <1>2, <1>3, MoveToFront
  <1>6. used' \in Seq(Files) /\ Distinct(used') /\ Moved(used, p, key, used')
    <2>1. ASSUME NEW q \in 1..Len(used), used[q] = key PROVE q = p
      BY <1>1, <1>4, <2>1 DEF Distinct
    <2>2. used' \in Seq(Files) /\ Distinct(used') /\ \E q \in 1..Len(used) : used[q] = key /\ Moved(used, q, key, used')
      BY <1>1, <1>4, UseMeans
    <2> QED
      BY <2>1, <2>2
  <1>7. Len(entries') = Len(entries) /\ Len(used') = Len(used)
    BY <1>5, <1>6 DEF Moved
  <1>8. ASSUME NEW i \in 1..Len(entries) PROVE entries'[i].key = used'[i]
    <2>1. CASE i = 1
      BY <1>5, <1>6, <2>1 DEF Moved
    <2>2. CASE i # 1 /\ i <= p
      <3>1. i \in 2..p /\ i - 1 \in 1..Len(entries)
        BY <1>1, <1>3, <2>2
      <3> QED
        BY <1>1, <1>5, <1>6, <3>1 DEF Moved
    <2>3. CASE ~(i <= p)
      <3>1. i \in p + 1..Len(entries) /\ i \in p + 1..Len(used)
        BY <1>1, <1>3, <2>3
      <3> QED
        BY <1>1, <1>5, <1>6, <3>1 DEF Moved
    <2> QED
      BY <2>1, <2>2, <2>3
  <1>9. Leading(used', Len(entries)) = Leading(used, Len(entries))
    <2>1. PICK m : m = Len(entries)
      OBVIOUS
    <2>2. m \in p..Len(used) /\ Moved(used, p, used[p], used')
      BY <1>1, <1>3, <1>4, <1>6, <2>1
    <2>3. \A k \in p..Len(used) : Leading(used', k) = Leading(used, k)
      BY <1>1, <1>4, <1>6, <2>2, MovedPermutes, Zenon
    <2> QED
      BY <2>1, <2>2, <2>3
  <1>10. index' = Leading(used', Len(entries'))
    BY <1>1, <1>7, <1>9
  <1>11. Lru(capacity', entries', index', used')
    BY <1>1, <1>5, <1>6, <1>7, <1>8, <1>10 DEF CacheInv, Lru
  <1>12. ASSUME NEW j \in 1..Len(entries) PROVE entries'[j] = e \/ \E i \in 1..Len(entries) : entries'[j] = entries[i]
    <2>1. CASE j = 1
      BY <1>5, <2>1 DEF Moved
    <2>2. CASE j # 1 /\ j <= p
      <3>1. j \in 2..p /\ j - 1 \in 1..Len(entries)
        BY <1>1, <1>3, <2>2
      <3> QED
        BY <1>5, <3>1 DEF Moved
    <2>3. CASE ~(j <= p)
      <3>1. j \in p + 1..Len(entries)
        BY <1>1, <1>3, <2>3
      <3> QED
        BY <1>5, <3>1 DEF Moved
    <2> QED
      BY <2>1, <2>2, <2>3
  <1> QED
    BY <1>7, <1>11, <1>12 DEF CacheInv, Only

\* put() of a new key: it comes to the front, and the last entry goes when there are too many.
LEMMA CacheAdds ==
    ASSUME CacheInv, NEW key \in Files, NEW value \in Content, CacheAdd(key, value), Use(key),
           UNCHANGED capacity
    PROVE CacheInv' /\ Only([key |-> key, value |-> value])
  <1>1. /\ capacity \in Nat \ {0} /\ entries \in Seq(Entry) /\ used \in Seq(Files) /\ Distinct(used)
        /\ \A i \in 1..Len(entries) : entries[i].key = used[i]
        /\ index = Leading(used, Len(entries)) /\ IsFiniteSet(index)
    BY Zenon DEF CacheInv, Lru
  <1>2. PICK n, size : n = Len(entries) /\ size = Len(used)
    OBVIOUS
  <1>3. n \in Nat /\ size \in Nat /\ n <= size /\ n <= capacity /\ (n = capacity \/ n = size)
    BY <1>1, <1>2 DEF CacheInv, Lru
  <1>4. Cardinality(index) = n /\ index = Leading(used, n) /\ (\A i \in 1..n : entries[i].key = used[i])
    BY <1>1, <1>2 DEF CacheInv, Lru
  <1>5. PICK e : e = [key |-> key, value |-> value]
    OBVIOUS
  <1>6. e \in Entry /\ e.key = key
    BY <1>5 DEF Entry
  <1>7. PICK grown : grown = <<e>> \o entries
    OBVIOUS
  <1>8. grown \in Seq(Entry) /\ Pushed(entries, e, grown)
    BY <1>1, <1>6, <1>7, PushFront
  <1>9. Len(grown) = n + 1 /\ grown[1] = e /\ \A j \in 2..n + 1 : grown[j] = entries[j - 1]
    BY <1>2, <1>8 DEF Pushed
  <1>10. key \notin index
    BY DEF CacheAdd
  <1>11. \A i \in 1..n : used[i] # key
    BY <1>4, <1>10 DEF Leading
  <1>12. /\ IsFiniteSet(index \cup {key}) /\ Cardinality(index \cup {key}) = n + 1
    BY <1>1, <1>4, <1>10, FS_AddElement
  <1>13. /\ entries' = (IF n + 1 > capacity THEN Front(grown) ELSE grown)
         /\ index' = IF n + 1 > capacity THEN (index \cup {key}) \ {Last(grown).key} ELSE index \cup {key}
    BY <1>5, <1>7, <1>12 DEF CacheAdd
  <1>14. /\ used' \in Seq(Files) /\ Distinct(used')
         /\ \/ \E p \in 1..Len(used) : used[p] = key /\ Moved(used, p, key, used')
            \/ (\A i \in 1..Len(used) : used[i] # key) /\ Pushed(used, key, used')
    BY <1>1, UseMeans
  <1>15. /\ Len(used') \in Nat /\ Len(used') >= size /\ used'[1] = key
         /\ \A j \in 2..n : used'[j] = used[j - 1]
         /\ n = size => Len(used') = n + 1 /\ \A j \in 2..n + 1 : used'[j] = used[j - 1]
    <2>1. ASSUME NEW p \in 1..Len(used), used[p] = key, Moved(used, p, key, used')
          PROVE /\ n < p /\ n # size /\ Len(used') = size /\ used'[1] = key
                /\ \A j \in 2..n : used'[j] = used[j - 1]
      <3>1. p \in Nat /\ ~(p \in 1..n) /\ p <= size
        BY <1>2, <1>3, <1>11, <2>1
      <3>2. n < p
        BY <1>3, <2>1, <3>1
      <3>3. \A j \in 2..n : j \in 2..p
        BY <1>3, <3>1, <3>2
      <3> QED
        BY <1>2, <1>3, <2>1, <3>1, <3>2, <3>3 DEF Moved
    <2>2. ASSUME Pushed(used, key, used')
          PROVE /\ Len(used') = size + 1 /\ used'[1] = key
                /\ \A j \in 2..size + 1 : used'[j] = used[j - 1]
      BY <1>2, <2>2 DEF Pushed
    <2>3. \A j \in 2..n : j \in 2..size + 1
      BY <1>3
    <2>4. CASE Pushed(used, key, used')
      BY <1>3, <2>2, <2>3, <2>4
    <2>5. CASE ~Pushed(used, key, used')
      <3>1. /\ n # size /\ Len(used') = size /\ used'[1] = key
            /\ \A j \in 2..n : used'[j] = used[j - 1]
        BY <1>14, <2>1, <2>5
      <3> QED
        BY <1>3, <3>1
    <2> QED
      BY <2>4, <2>5
  <1>16. ASSUME NEW j \in 1..n + 1 PROVE grown[j] = e \/ \E i \in 1..Len(entries) : grown[j] = entries[i]
    <2>1. CASE j = 1
      BY <1>9, <2>1
    <2>2. CASE j # 1
      <3>1. j \in 2..n + 1 /\ j - 1 \in 1..Len(entries)
        BY <1>2, <1>3, <2>2
      <3> QED
        BY <1>9, <3>1
    <2> QED
      BY <2>1, <2>2
  <1>17. CASE ~(n + 1 > capacity)
    <2>1. n = size /\ n + 1 <= capacity
      BY <1>1, <1>3, <1>17
    <2>2. entries' = grown /\ index' = index \cup {key} /\ Len(entries') = n + 1 /\ Len(used') = n + 1
      BY <1>9, <1>13, <1>15, <1>17, <2>1
    <2>3. ASSUME NEW i \in 1..n + 1 PROVE entries'[i].key = used'[i]
      <3>1. CASE i = 1
        BY <1>6, <1>9, <1>15, <2>2, <3>1
      <3>2. CASE i # 1
        <4>1. i \in 2..n + 1 /\ i - 1 \in 1..n
          BY <1>3, <3>2
        <4> QED
          BY <1>4, <1>9, <1>15, <2>1, <2>2, <4>1
      <3> QED
        BY <3>1, <3>2
    <2>4. index' = Leading(used', n + 1)
      <3>1. ASSUME NEW i \in 1..n PROVE used[i] \in Leading(used', n + 1)
        <4>1. i + 1 \in 2..n + 1 /\ i + 1 \in 1..n + 1 /\ (i + 1) - 1 = i
          BY <1>3
        <4>2. used'[i + 1] = used[i]
          BY <1>15, <2>1, <4>1
        <4> QED
          BY <4>1, <4>2 DEF Leading
      <3>2. key \in Leading(used', n + 1)
        <4>1. 1 \in 1..n + 1
          BY <1>3
        <4> QED
          BY <1>15, <4>1 DEF Leading
      <3>3. ASSUME NEW i \in 1..n + 1 PROVE used'[i] \in index \cup {key}
        <4>1. CASE i = 1
          BY <1>15, <4>1
        <4>2. CASE i # 1
          <5>1. i \in 2..n + 1 /\ i - 1 \in 1..n
            BY <1>3, <4>2
          <5> QED
            BY <1>4, <1>15, <2>1, <5>1 DEF Leading
        <4> QED
          BY <4>1, <4>2
      <3>4. index \cup {key} \subseteq Leading(used', n + 1)
        BY <1>4, <3>1, <3>2 DEF Leading
      <3>5. Leading(used', n + 1) \subseteq index \cup {key}
        BY <3>3 DEF Leading
      <3> QED
        BY <2>2, <3>4, <3>5
    <2>5. Lru(capacity', entries', index', used')
      BY <1>1, <1>3, <1>8, <1>12, <1>14, <2>1, <2>2, <2>3, <2>4 DEF Lru
    <2>6. Only(e)
      BY <1>16, <2>2 DEF Only
    <2> QED
      BY <1>5, <2>5, <2>6 DEF CacheInv
  <1>18. CASE n + 1 > capacity
    <2>1. n = capacity /\ n > 0
      BY <1>1, <1>3, <1>18
    <2>2. entries' = SubSeq(grown, 1, (n + 1) - 1)
      BY <1>9, <1>13, <1>18 DEF Front
    <2>3. entries' = SubSeq(grown, 1, n)
      BY <1>3, <2>2
    <2>4. entries' \in Seq(Entry) /\ Len(entries') = n /\ \A i \in 1..n : entries'[i] = grown[i]
      BY <1>3, <1>8, <1>9, <2>3
    <2>5. Last(grown).key = used[n] /\ n \in 1..n
      <3>1. n + 1 \in 2..n + 1 /\ (n + 1) - 1 = n /\ n \in 1..n
        BY <1>3, <2>1
      <3>2. grown[n + 1] = entries[n]
        BY <1>9, <3>1
      <3> QED
        BY <1>4, <1>9, <3>1, <3>2 DEF Last
    <2>6. index' = (index \cup {key}) \ {used[n]} /\ used[n] \in index
      BY <1>4, <1>13, <1>18, <2>5 DEF Leading
    <2>7. IsFiniteSet(index') /\ Cardinality(index') = n
      <3>1. used[n] \in index \cup {key}
        BY <2>6
      <3>2. IsFiniteSet(index') /\ Cardinality(index') = (n + 1) - 1
        BY <1>12, <2>6, <3>1, FS_RemoveElement
      <3> QED
        BY <1>3, <3>2
    <2>8. ASSUME NEW i \in 1..n PROVE entries'[i].key = used'[i]
      <3>1. CASE i = 1
        BY <1>6, <1>9, <1>15, <2>4, <3>1
      <3>2. CASE i # 1
        <4>1. i \in 2..n /\ i \in 2..n + 1 /\ i - 1 \in 1..n
          BY <1>3, <3>2
        <4> QED
          BY <1>4, <1>9, <1>15, <2>4, <4>1
      <3> QED
        BY <3>1, <3>2
    <2>9. index' = Leading(used', n)
      <3>1. ASSUME NEW x \in index, x # used[n] PROVE x \in Leading(used', n)
        <4>1. PICK i \in 1..n : x = used[i]
          BY <1>4, <3>1 DEF Leading
        <4>2. i # n
          BY <3>1, <4>1
        <4>3. i + 1 \in 2..n /\ i + 1 \in 1..n /\ (i + 1) - 1 = i
          BY <1>3, <4>1, <4>2
        <4>4. used'[i + 1] = used[i]
          BY <1>15, <4>3
        <4> QED
          BY <4>1, <4>3, <4>4 DEF Leading
      <3>2. key \in Leading(used', n)
        <4>1. 1 \in 1..n
          BY <1>3, <2>1
        <4> QED
          BY <1>15, <4>1 DEF Leading
      <3>3. ASSUME NEW i \in 1..n PROVE used'[i] \in (index \cup {key}) \ {used[n]}
        <4>1. CASE i = 1
          BY <1>11, <1>15, <2>5, <4>1
        <4>2. CASE i # 1
          <5>1. i \in 2..n /\ i - 1 \in 1..n /\ i - 1 # n
            BY <1>3, <4>2
          <5>2. used'[i] = used[i - 1] /\ used[i - 1] \in index
            BY <1>4, <1>15, <5>1 DEF Leading
          <5>3. i - 1 \in 1..Len(used) /\ n \in 1..Len(used)
            BY <1>2, <1>3, <2>5, <5>1
          <5>4. used[i - 1] # used[n]
            BY <1>1, <5>1, <5>3 DEF Distinct
          <5> QED
            BY <5>2, <5>4
        <4> QED
          BY <4>1, <4>2
      <3>4. (index \cup {key}) \ {used[n]} \subseteq Leading(used', n)
        BY <3>1, <3>2
      <3>5. Leading(used', n) \subseteq (index \cup {key}) \ {used[n]}
        BY <3>3 DEF Leading
      <3> QED
        BY <2>6, <3>4, <3>5
    <2>10. n <= Len(used')
      BY <1>3, <1>15
    <2>11. Lru(capacity', entries', index', used')
      BY <1>1, <1>3, <1>14, <2>1, <2>4, <2>7, <2>8, <2>9, <2>10 DEF Lru
    <2>12. Only(e)
      <3>1. \A j \in 1..n : j \in 1..n + 1
        BY <1>3
      <3> QED
        BY <1>16, <2>4, <3>1 DEF Only
    <2> QED
      BY <1>5, <2>11, <2>12 DEF CacheInv
  <1> QED
    BY <1>17, <1>18

\* A cached value is where the index says it is.
LEMMA CachedEntry ==
    ASSUME CacheInv, NEW key \in index
    PROVE /\ Position(key) \in 1..Len(entries) /\ entries[Position(key)] \in Entry
          /\ entries[Position(key)].key = key /\ key \in Files
  <1>1. /\ entries \in Seq(Entry) /\ index = Leading(used, Len(entries))
        /\ \A i \in 1..Len(entries) : entries[i].key = used[i]
    BY Zenon DEF CacheInv, Lru
  <1>2. PICK i \in 1..Len(entries) : key = used[i]
    BY <1>1 DEF Leading
  <1>3. i \in DOMAIN entries /\ entries[i].key = key
    BY <1>1, <1>2
  <1>4. PICK p : p = Position(key)
    OBVIOUS
  <1>5. p \in DOMAIN entries /\ entries[p].key = key
    BY <1>3, <1>4 DEF Position
  <1>6. p \in 1..Len(entries) /\ entries[p] \in Entry
    BY <1>1, <1>5
  <1> QED
    BY <1>4, <1>5, <1>6 DEF Entry

\* get() keeps the cache in order.
LEMMA CacheHitKeeps ==
    ASSUME CacheInv, NEW key, CacheHit(key)
    PROVE /\ CacheInv' /\ Only(entries[Position(key)])
          /\ Position(key) \in 1..Len(entries)
  <1>1. key \in index
    BY DEF CacheHit
  <1>2. PICK e : e = entries[Position(key)]
    OBVIOUS
  <1>3. e \in Entry /\ e.key = key /\ Position(key) \in 1..Len(entries)
    BY <1>1, <1>2, CachedEntry
  <1>4. entries' = <<e>> \o RemoveAt(entries, Position(key)) /\ Use(key) /\ UNCHANGED <<capacity, index>>
    BY <1>2 DEF CacheHit
  <1>5. CacheInv' /\ Only(e)
    BY <1>1, <1>3, <1>4, CacheMoves
  <1> QED
    BY <1>2, <1>3, <1>5

\* put() keeps the cache in order.
LEMMA CachePutKeeps ==
    ASSUME CacheInv, NEW key \in Files, NEW value \in Content, CachePut(key, value)
    PROVE CacheInv' /\ Only([key |-> key, value |-> value])
  <1>1. CASE CacheAdd(key, value)
    BY <1>1, CacheAdds DEF CachePut
  <1>2. CASE CacheReplace(key, value)
    <2>1. PICK e : e = [key |-> key, value |-> value]
      OBVIOUS
    <2>2. e \in Entry /\ e.key = key /\ key \in index
      BY <1>2, <2>1 DEF Entry, CacheReplace
    <2>3. entries' = <<e>> \o RemoveAt(entries, Position(key)) /\ Use(key) /\ UNCHANGED <<capacity, index>>
      BY <1>2, <2>1 DEF CachePut, CacheReplace
    <2>4. CacheInv' /\ Only(e)
      BY <2>2, <2>3, CacheMoves
    <2> QED
      BY <2>1, <2>4
  <1> QED
    BY <1>1, <1>2 DEF CachePut

\* The cache starts empty, and with a capacity of at least 1 whatever was configured.
LEMMA CacheInvInit ==
    ASSUME NEW configured \in Int, NEW present, CacheInit(configured, present)
    PROVE CacheInv
  <1>1. PICK size, limit : limit = 2^SizeBits /\ size = configured % limit
    OBVIOUS
  <1>2. limit \in Nat \ {0}
    BY <1>1, SizeBitsAssumption
  <1>3. size \in Nat
    BY <1>1, <1>2
  <1>4. capacity \in Nat \ {0}
    BY <1>1, <1>3 DEF CacheInit, Capacity
  <1>5. entries = <<>> /\ index = {} /\ used = <<>>
    BY DEF CacheInit
  <1>6. Leading(used, Len(entries)) = {} /\ Distinct(used)
    BY <1>5 DEF Leading, Distinct
  <1>7. IsFiniteSet(index) /\ Cardinality(index) = Len(entries)
    BY <1>5, FS_EmptySet
  <1>8. /\ entries \in Seq(Entry) /\ used \in Seq(Files) /\ Len(entries) <= Len(used)
        /\ Len(entries) <= capacity /\ Len(entries) = Len(used)
        /\ \A i \in 1..Len(entries) : entries[i].key = used[i]
    BY <1>4, <1>5
  <1> QED
    BY <1>4, <1>5, <1>6, <1>7, <1>8 DEF CacheInv, Lru

\* Such a cache is what LRU promises.
LEMMA CacheInvMeans ==
    ASSUME CacheInv
    PROVE CacheIsLru
  <1>1. /\ capacity \in Nat \ {0} /\ entries \in Seq(Entry) /\ used \in Seq(Files)
        /\ \A i \in 1..Len(entries) : entries[i].key = used[i]
        /\ index = Leading(used, Len(entries)) /\ Cardinality(index) = Len(entries)
    BY Zenon DEF CacheInv, Lru
  <1>2. PICK n, size : n = Len(entries) /\ size = Len(used)
    OBVIOUS
  <1>3. n \in Nat /\ size \in Nat /\ n <= size /\ n <= capacity /\ (n = capacity \/ n = size)
    BY <1>1, <1>2 DEF CacheInv, Lru
  <1>4. DOMAIN entries = 1..n
    BY <1>1, <1>2
  <1>5. IndexMatchesList
    <2>1. {entries[i].key : i \in DOMAIN entries} = Leading(used, n)
      BY <1>1, <1>2, <1>4 DEF Leading
    <2> QED
      BY <1>1, <1>2, <2>1 DEF IndexMatchesList
  <1>6. Min({capacity, size}) = n
    BY <1>1, <1>3, MinOfTwo
  <1>7. HoldsMostRecent
    <2>1. PICK kept : kept = SubSeq(used, 1, n)
      OBVIOUS
    <2>2. kept = [i \in 1..n |-> used[i]]
      BY <1>1, <1>2, <1>3, <2>1
    <2>3. [i \in DOMAIN entries |-> entries[i].key] = [i \in 1..n |-> used[i]]
      BY <1>1, <1>2, <1>4
    <2> QED
      BY <1>2, <1>6, <2>1, <2>2, <2>3 DEF HoldsMostRecent
  <1> QED
    BY <1>5, <1>7 DEF CacheIsLru

-----------------------------------------------------------------------------
(* The texts of the key-value API *)

ApiTexts == Seq(Characters)

\* A character is printed as itself, or as a backslash and what readString() turns back.
LEMMA EscapeShape ==
    ASSUME NEW c \in Characters
    PROVE /\ Escape(c) \in ApiTexts
          /\ c # "control" => \/ c # "backslash" /\ Escape(c) = <<c>>
                              \/ \E x \in Characters : Escape(c) = <<"backslash", x>> /\ Unescape(x) = c
  <1>1. /\ "quote" \in Characters /\ "backslash" \in Characters /\ "n" \in Characters
        /\ "u" \in Characters /\ "0" \in Characters /\ "1" \in Characters
    BY CharactersAssumption
  <1>0. \A a, b \in Characters : <<a, b>> \in ApiTexts
    BY DEF ApiTexts
  <1>2. CASE c = "quote"
    <2>1. Escape(c) = <<"backslash", "quote">> /\ Unescape("quote") = c
      BY <1>2 DEF Escape, Unescape
    <2> QED
      BY <1>0, <1>1, <1>2, <2>1
  <1>3. CASE c = "backslash"
    <2>1. Escape(c) = <<"backslash", "backslash">> /\ Unescape("backslash") = c
      BY <1>3 DEF Escape, Unescape
    <2> QED
      BY <1>0, <1>1, <1>3, <2>1
  <1>4. CASE c = "newline"
    <2>1. Escape(c) = <<"backslash", "n">> /\ Unescape("n") = c
      BY <1>4 DEF Escape, Unescape
    <2> QED
      BY <1>0, <1>1, <1>4, <2>1
  <1>5. CASE c = "control"
    <2>1. Escape(c) = <<"backslash", "u", "0", "0", "1">>
      BY <1>5 DEF Escape
    <2>2. \A a, b, d, e \in Characters : <<a, b, d, d, e>> \in ApiTexts
      BY DEF ApiTexts
    <2> QED
      BY <1>1, <1>5, <2>1, <2>2
  <1>6. CASE c \notin {"quote", "backslash", "newline", "control"}
    <2>1. Escape(c) = <<c>>
      BY <1>6 DEF Escape
    <2> QED
      BY <1>6, <2>1 DEF ApiTexts
  <1> QED
    BY <1>2, <1>3, <1>4, <1>5, <1>6

\* The course of what jsonEscape() prints
EscapeTable(text, out) ==
    /\ out \in [0..Len(text) -> ApiTexts]
    /\ out[0] = <<>>
    /\ \A i \in 1..Len(text) : out[i] = out[i - 1] \o Escape(text[i])
    /\ jsonEscape(text) = out[Len(text)]

LEMMA EscapeComputed ==
    ASSUME NEW text \in ApiTexts
    PROVE \E out : EscapeTable(text, out)
  <1>1. PICK size : size = Len(text)
    OBVIOUS
  <1>2. size \in Nat /\ \A i \in 1..size : text[i] \in Characters
    BY <1>1 DEF ApiTexts
  <1> DEFINE step == [i \in 1..size |-> [s \in ApiTexts |-> s \o Escape(text[i])]]
  <1>3. step \in [1..size -> [ApiTexts -> ApiTexts]]
    <2>1. ASSUME NEW i \in 1..size, NEW s \in ApiTexts PROVE s \o Escape(text[i]) \in ApiTexts
      <3>1. Escape(text[i]) \in ApiTexts
        BY <1>2, EscapeShape
      <3> QED
        BY <2>1, <3>1 DEF ApiTexts
    <2> QED
      BY <2>1
  <1>4. <<>> \in ApiTexts
    BY DEF ApiTexts
  <1>5. PICK p : StepTable(ApiTexts, <<>>, step, size, p)
    <2> HIDE DEF step
    <2> QED
      BY <1>2, <1>3, <1>4, IterationExists
  <1> DEFINE loop(f) == f = [i \in 0..size |-> IF i = 0 THEN <<>> ELSE f[i - 1] \o Escape(text[i])]
  <1>6. loop(p)
    <2>1. p = [i \in 0..size |-> p[i]] /\ p[0] = <<>>
      BY <1>5 DEF StepTable
    <2>2. ASSUME NEW i \in 1..size PROVE p[i] = p[i - 1] \o Escape(text[i])
      <3>1. i - 1 \in 0..size
        BY <1>2
      <3>2. p[i] = step[i][p[i - 1]] /\ p[i - 1] \in ApiTexts
        BY <1>5, <3>1 DEF StepTable
      <3> QED
        BY <3>2
    <2>3. \A i \in 0..size : p[i] = IF i = 0 THEN <<>> ELSE p[i - 1] \o Escape(text[i])
      BY <1>2, <2>1, <2>2
    <2> QED
      BY <2>1, <2>3
  <1>7. PICK f : loop(f) /\ jsonEscape(text) = f[size]
    <2>1. jsonEscape(text) = (CHOOSE f : loop(f))[size]
      BY <1>1 DEF jsonEscape
    <2> HIDE DEF loop
    <2>2. loop(CHOOSE f : loop(f))
      BY <1>6
    <2> QED
      BY <2>1, <2>2
  <1>8. /\ f = [i \in 0..size |-> f[i]] /\ f[0] = <<>>
        /\ \A i \in 1..size : f[i] = f[i - 1] \o Escape(text[i])
    BY <1>2, <1>7
  <1>9. Stepwise(ApiTexts, step, size, f)
    BY <1>8 DEF Stepwise
  <1>10. \A i \in 0..size : f[i] \in ApiTexts
    <2> HIDE DEF step, loop
    <2>1. f[0] = <<>>
      BY <1>8
    <2>2. \A i \in 0..size : f[i] = p[i] /\ f[i] \in ApiTexts
      BY <1>2, <1>5, <1>9, <2>1, IterationFollows
    <2> QED
      BY <2>2
  <1> QED
    BY <1>1, <1>7, <1>8, <1>10 DEF EscapeTable

ReadStates == [escape : BOOLEAN, out : ApiTexts]

LEMMA ReadCharacterType ==
    ASSUME NEW read \in ReadStates, NEW c \in Characters, NEW more
    PROVE ReadCharacter(read, c, more) \in ReadStates
  <1>1. read.out \in ApiTexts
    BY DEF ReadStates
  <1>2. Unescape(c) \in Characters
    BY CharactersAssumption DEF Unescape
  <1>3. Append(read.out, c) \in ApiTexts /\ Append(read.out, Unescape(c)) \in ApiTexts
    BY <1>1, <1>2 DEF ApiTexts
  <1>4. \A b \in BOOLEAN, s \in ApiTexts : [escape |-> b, out |-> s] \in ReadStates
    BY DEF ReadStates
  <1>5. ReadCharacter(read, c, more) \in {[escape |-> FALSE, out |-> Append(read.out, Unescape(c))],
                                          [escape |-> TRUE, out |-> read.out],
                                          [escape |-> FALSE, out |-> Append(read.out, c)]}
    BY DEF ReadCharacter
  <1> QED
    BY <1>1, <1>3, <1>4, <1>5

ReadNext(read, raw, i) == ReadCharacter(read, raw[i], i < Len(raw))

\* The course of what readString() has read
ReadTable(raw, read) ==
    /\ read \in [0..Len(raw) -> ReadStates]
    /\ read[0] = [escape |-> FALSE, out |-> <<>>]
    /\ \A i \in 1..Len(raw) : read[i] = ReadNext(read[i - 1], raw, i)
    /\ readString(raw) = read[Len(raw)].out

LEMMA ReadComputed ==
    ASSUME NEW raw \in ApiTexts
    PROVE \E read : ReadTable(raw, read)
  <1>1. PICK size : size = Len(raw)
    OBVIOUS
  <1>2. size \in Nat /\ \A i \in 1..size : raw[i] \in Characters
    BY <1>1 DEF ApiTexts
  <1>3. PICK start : start = [escape |-> FALSE, out |-> <<>>]
    OBVIOUS
  <1> DEFINE step == [i \in 1..size |-> [s \in ReadStates |-> ReadNext(s, raw, i)]]
  <1>4. step \in [1..size -> [ReadStates -> ReadStates]]
    BY <1>1, <1>2, ReadCharacterType DEF ReadNext
  <1>5. start \in ReadStates
    BY <1>3 DEF ReadStates, ApiTexts
  <1>6. PICK p : StepTable(ReadStates, start, step, size, p)
    <2> HIDE DEF step
    <2> QED
      BY <1>2, <1>4, <1>5, IterationExists
  <1> DEFINE loop(f) == f = [i \in 0..size |-> IF i = 0 THEN start
                                               ELSE ReadNext(f[i - 1], raw, i)]
  <1>7. loop(p)
    <2>1. p = [i \in 0..size |-> p[i]] /\ p[0] = start
      BY <1>6 DEF StepTable
    <2>2. ASSUME NEW i \in 1..size PROVE p[i] = ReadNext(p[i - 1], raw, i)
      <3>1. i - 1 \in 0..size
        BY <1>2
      <3>2. p[i] = step[i][p[i - 1]] /\ p[i - 1] \in ReadStates
        BY <1>6, <3>1 DEF StepTable
      <3> QED
        BY <3>2
    <2>3. ASSUME NEW i \in 0..size
          PROVE p[i] = IF i = 0 THEN start ELSE ReadNext(p[i - 1], raw, i)
      <3>1. i # 0 => i \in 1..size
        BY <1>2
      <3>2. i # 0 => p[i] = ReadNext(p[i - 1], raw, i)
        BY <2>2, <3>1
      <3> QED
        BY <2>1, <3>2
    <2> QED
      BY <2>1, <2>3
  <1>8. PICK f : loop(f) /\ readString(raw) = f[size].out
    <2>1. readString(raw) = (CHOOSE f : loop(f))[size].out
      BY <1>1, <1>3 DEF readString, ReadNext
    <2> HIDE DEF loop
    <2>2. loop(CHOOSE f : loop(f))
      BY <1>7
    <2> QED
      BY <2>1, <2>2
  <1>9. /\ f = [i \in 0..size |-> f[i]] /\ f[0] = start
        /\ \A i \in 1..size : f[i] = ReadNext(f[i - 1], raw, i)
    BY <1>2, <1>8
  <1>10. Stepwise(ReadStates, step, size, f)
    BY <1>9 DEF Stepwise
  <1>11. \A i \in 0..size : f[i] \in ReadStates
    <2> HIDE DEF step, loop
    <2>1. f[0] = start
      BY <1>9
    <2>2. \A i \in 0..size : f[i] = p[i] /\ f[i] \in ReadStates
      BY <1>2, <1>6, <1>10, <2>1, IterationFollows
    <2> QED
      BY <2>2
  <1> QED
    BY <1>1, <1>3, <1>8, <1>9, <1>11 DEF ReadTable

\* readString() yields a text.
LEMMA ReadStringType ==
    ASSUME NEW raw \in ApiTexts
    PROVE readString(raw) \in ApiTexts
  <1>1. PICK read : ReadTable(raw, read)
    BY ReadComputed
  <1>2. read[Len(raw)] \in ReadStates
    BY <1>1 DEF ReadTable, ApiTexts
  <1> QED
    BY <1>1, <1>2 DEF ReadTable, ReadStates

\* The first n characters of a text
First(text, n) == [i \in 1..n |-> text[i]]

\* One character more
LEMMA FirstStep ==
    ASSUME NEW text \in ApiTexts, NEW n \in 1..Len(text)
    PROVE First(text, n) = Append(First(text, n - 1), text[n])
  <1>1. Len(text) \in Nat /\ \A i \in 1..Len(text) : text[i] \in Characters
    BY DEF ApiTexts
  <1>2. n \in Nat /\ n - 1 \in Nat
    BY <1>1
  <1>3. First(text, n - 1) \in [1..n - 1 -> Characters] /\ First(text, n - 1) \in Seq(Characters)
    BY <1>1, <1>2 DEF First
  <1>4. PICK s : s = First(text, n - 1)
    OBVIOUS
  <1>5. Len(s) = n - 1 /\ s \in Seq(Characters) /\ \A i \in 1..n - 1 : s[i] = text[i]
    BY <1>2, <1>3, <1>4 DEF First
  <1>6. /\ DOMAIN Append(s, text[n]) = 1..n
        /\ Append(s, text[n]) = [i \in 1..n |-> Append(s, text[n])[i]]
        /\ \A i \in 1..n : Append(s, text[n])[i] = IF i = n THEN text[n] ELSE s[i]
    BY <1>1, <1>2, <1>5
  <1>7. \A i \in 1..n : Append(s, text[n])[i] = text[i]
    BY <1>1, <1>2, <1>5, <1>6
  <1> QED
    BY <1>4, <1>6, <1>7 DEF First

\* What has been printed stays at the beginning of what is printed.
LEMMA EscapedGrows ==
    ASSUME NEW text \in ApiTexts, NEW out, EscapeTable(text, out), NEW n \in 0..Len(text)
    PROVE \A m \in n..Len(text) :
            /\ Len(out[n]) <= Len(out[m])
            /\ \A k \in 1..Len(out[n]) : out[m][k] = out[n][k]
  <1>1. PICK size : size = Len(text)
    OBVIOUS
  <1>2. size \in Nat /\ n \in 0..size /\ \A i \in 1..size : text[i] \in Characters
    BY <1>1 DEF ApiTexts
  <1>3. PICK s : s = out[n]
    OBVIOUS
  <1>4. s \in ApiTexts /\ Len(s) \in Nat
    BY <1>1, <1>2, <1>3 DEF EscapeTable, ApiTexts
  <1> DEFINE Begins(t) == Len(s) <= Len(t) /\ \A k \in 1..Len(s) : t[k] = s[k]
             T == {m \in Nat : n <= m /\ m <= size /\ ~Begins(out[m])}
  <1>5. ASSUME T # {} PROVE FALSE
    <2>1. PICK m \in T : \A j \in T : m <= j
      BY <1>5, LeastNatural
    <2>2. m # n
      BY <1>3, <1>4, <2>1
    <2>3. m - 1 \in Nat /\ n <= m - 1 /\ m - 1 <= size /\ m \in 1..size /\ m - 1 \in 0..size
      BY <1>2, <2>1, <2>2
    <2>4. m - 1 \notin T
      BY <2>1, <2>3
    <2>5. PICK t, e : t = out[m - 1] /\ e = Escape(text[m])
      OBVIOUS
    <2>6. Begins(t) /\ t \in ApiTexts /\ e \in ApiTexts /\ out[m] = t \o e
      BY <1>1, <1>2, <2>3, <2>4, <2>5, EscapeShape DEF EscapeTable
    <2>7. /\ Len(t) \in Nat /\ Len(t \o e) \in Nat /\ Len(t) <= Len(t \o e)
          /\ \A k \in 1..Len(t) : (t \o e)[k] = t[k]
      BY <2>6 DEF ApiTexts
    <2>8. Begins(t \o e)
      BY <1>4, <2>6, <2>7
    <2> QED
      BY <2>1, <2>6, <2>8
  <1>6. ASSUME NEW m \in n..size PROVE Begins(out[m])
    <2>1. m \in Nat /\ n <= m /\ m <= size /\ m \notin T
      BY <1>2, <1>5
    <2> QED
      BY <2>1
  <1> QED
    BY <1>1, <1>3, <1>6

HasRead(s) == [escape |-> FALSE, out |-> s]

\* The print of c stands in raw after position at.
Prints(raw, at, c) ==
    /\ at + Len(Escape(c)) <= Len(raw)
    /\ \A k \in 1..Len(Escape(c)) : raw[at + k] = Escape(c)[k]

\* readString() takes the print of a character as that character, wherever it begins.
LEMMA ReadsCharacter ==
    ASSUME NEW raw \in ApiTexts, NEW read, ReadTable(raw, read), NEW at \in Nat, NEW s \in ApiTexts,
           read[at] = HasRead(s),
           NEW c \in Characters, c # "control", Prints(raw, at, c)
    PROVE read[at + Len(Escape(c))] = HasRead(Append(s, c))
  <1>1. PICK size : size = Len(raw)
    OBVIOUS
  <1>2. size \in Nat /\ \A i \in 1..size : read[i] = ReadNext(read[i - 1], raw, i)
    BY <1>1 DEF ApiTexts, ReadTable
  <1>0. /\ at + Len(Escape(c)) <= Len(raw)
        /\ \A k \in 1..Len(Escape(c)) : raw[at + k] = Escape(c)[k]
    BY DEF Prints
  <1>3. CASE c # "backslash" /\ Escape(c) = <<c>>
    <2>1. Len(Escape(c)) = 1 /\ raw[at + 1] = c
      BY <1>0, <1>3
    <2>2. at + 1 \in 1..size /\ (at + 1) - 1 = at
      BY <1>0, <1>1, <1>2, <2>1
    <2>3. read[at + 1] = ReadNext(read[at], raw, at + 1)
      BY <1>2, <2>2
    <2>4. ReadNext(HasRead(s), raw, at + 1) = HasRead(Append(s, c))
      BY <1>3, <2>1 DEF ReadNext, ReadCharacter, HasRead
    <2> QED
      BY <2>1, <2>3, <2>4
  <1>4. ASSUME NEW x \in Characters, Escape(c) = <<"backslash", x>>, Unescape(x) = c
        PROVE read[at + Len(Escape(c))] = HasRead(Append(s, c))
    <2>1. Len(Escape(c)) = 2 /\ raw[at + 1] = "backslash" /\ raw[at + 2] = x
      BY <1>0, <1>4
    <2>2. /\ at + 1 \in 1..size /\ (at + 1) - 1 = at /\ at + 1 < size
          /\ at + 2 \in 1..size /\ (at + 2) - 1 = at + 1
      BY <1>0, <1>1, <1>2, <2>1
    <2>3. read[at + 1] = ReadNext(read[at], raw, at + 1) /\ read[at + 2] = ReadNext(read[at + 1], raw, at + 2)
      BY <1>2, <2>2
    <2>4. ReadNext(HasRead(s), raw, at + 1) = [escape |-> TRUE, out |-> s]
      BY <1>1, <2>1, <2>2 DEF ReadNext, ReadCharacter, HasRead
    <2>5. ReadNext([escape |-> TRUE, out |-> s], raw, at + 2) = HasRead(Append(s, c))
      BY <1>4, <2>1 DEF ReadNext, ReadCharacter, HasRead
    <2> QED
      BY <2>1, <2>3, <2>4, <2>5
  <1> QED
    BY <1>3, <1>4, EscapeShape

\* Where the print of the first i characters ends, just these have been read.
Reads(read, out, text, i) == read[Len(out[i])] = HasRead(First(text, i))

\* What jsonEscape() prints, readString() reads back.
LEMMA ReadsBack ==
    ASSUME NEW text \in ApiTexts, \A i \in DOMAIN text : text[i] # "control"
    PROVE readString(jsonEscape(text)) = text
  <1>1. PICK size : size = Len(text)
    OBVIOUS
  <1>2. /\ size \in Nat /\ text = First(text, size) /\ First(text, 0) = <<>>
        /\ \A i \in 1..size : text[i] \in Characters /\ text[i] # "control"
    BY <1>1 DEF ApiTexts, First
  <1>3. PICK out : EscapeTable(text, out)
    BY EscapeComputed
  <1>4. PICK raw : raw = jsonEscape(text)
    OBVIOUS
  <1>5. /\ raw \in ApiTexts /\ raw = out[size] /\ out[0] = <<>>
        /\ \A i \in 0..size : out[i] \in ApiTexts /\ Len(out[i]) \in Nat
        /\ \A i \in 1..size : out[i] = out[i - 1] \o Escape(text[i])
    <2>1. /\ raw = out[size] /\ out[0] = <<>> /\ out \in [0..size -> ApiTexts]
          /\ \A i \in 1..size : out[i] = out[i - 1] \o Escape(text[i])
      BY <1>1, <1>3, <1>4 DEF EscapeTable
    <2>2. \A i \in 0..size : out[i] \in ApiTexts
      BY <2>1
    <2>3. \A w \in ApiTexts : Len(w) \in Nat
      BY DEF ApiTexts
    <2>4. raw \in ApiTexts
      BY <1>2, <2>1, <2>2
    <2> QED
      BY <2>1, <2>2, <2>3, <2>4
  <1>6. PICK read : ReadTable(raw, read)
    BY <1>5, ReadComputed
  <1> DEFINE T == {i \in Nat : i <= size /\ ~Reads(read, out, text, i)}
  <1>7. ASSUME T # {} PROVE FALSE
    <2>1. PICK i \in T : \A j \in T : i <= j
      BY <1>7, LeastNatural
    <2>2. i # 0
      <3>1. Len(<<>>) = 0
        OBVIOUS
      <3>2. Reads(read, out, text, 0)
        BY <1>2, <1>5, <1>6, <3>1 DEF ReadTable, Reads, HasRead
      <3> QED
        BY <2>1, <3>2
    <2>3. i - 1 \in Nat /\ i - 1 <= size /\ i \in 1..size /\ i - 1 \in 0..size /\ i \in 0..size
      BY <1>2, <2>1, <2>2
    <2>4. Reads(read, out, text, i - 1)
      <3>1. i - 1 \notin T
        BY <2>1, <2>3
      <3> QED
        BY <2>3, <3>1
    <2>5. PICK t, e, c : t = out[i - 1] /\ e = Escape(c) /\ c = text[i]
      OBVIOUS
    <2>6. t \in ApiTexts /\ e \in ApiTexts /\ c \in Characters /\ c # "control" /\ out[i] = t \o e
      BY <1>2, <1>5, <2>3, <2>5, EscapeShape
    <2>7. /\ Len(t) \in Nat /\ Len(e) \in Nat /\ Len(out[i]) = Len(t) + Len(e)
          /\ \A k \in 1..Len(e) : out[i][Len(t) + k] = e[k]
      BY <2>6 DEF ApiTexts
    <2>8. Len(out[i]) <= Len(raw) /\ \A k \in 1..Len(out[i]) : raw[k] = out[i][k]
      <3>1. size \in i..Len(text) /\ i \in 0..Len(text)
        BY <1>1, <1>2, <2>3
      <3> QED
        BY <1>3, <1>5, <3>1, EscapedGrows
    <2>9. \A k \in 1..Len(e) : raw[Len(t) + k] = e[k]
      BY <2>7, <2>8
    <2>10. PICK s : s = First(text, i - 1)
      OBVIOUS
    <2>11. s \in ApiTexts
      <3>1. \A k \in 1..i - 1 : text[k] \in Characters
        BY <1>2, <2>3
      <3>2. s \in [1..i - 1 -> Characters]
        BY <2>10, <3>1 DEF First
      <3> QED
        BY <2>3, <3>2 DEF ApiTexts
    <2>12. read[Len(t) + Len(Escape(c))] = HasRead(Append(s, c))
      <3>1. read[Len(t)] = HasRead(s)
        BY <2>4, <2>5, <2>10 DEF Reads
      <3>2. Len(t) + Len(Escape(c)) <= Len(raw) /\ Len(t) \in Nat
        BY <2>5, <2>7, <2>8
      <3>3. Prints(raw, Len(t), c)
        BY <2>5, <2>9, <3>2 DEF Prints
      <3> QED
        <4>1. PICK at : at = Len(t)
          OBVIOUS
        <4>2. at \in Nat /\ read[at] = HasRead(s) /\ Prints(raw, at, c)
          BY <3>1, <3>2, <3>3, <4>1
        <4>3. raw \in ApiTexts /\ c \in Characters /\ c # "control"
          BY <1>5, <2>6
        <4>4. read[at + Len(Escape(c))] = HasRead(Append(s, c))
          BY <1>6, <2>11, <4>2, <4>3, ReadsCharacter
        <4> QED
          BY <4>1, <4>4
    <2>13. First(text, i) = Append(s, c)
      BY <1>1, <2>3, <2>5, <2>10, FirstStep
    <2> QED
      BY <2>1, <2>5, <2>7, <2>12, <2>13 DEF Reads
  <1>8. Reads(read, out, text, size)
    BY <1>2, <1>7
  <1>9. readString(raw) = First(text, size)
    BY <1>5, <1>6, <1>8 DEF ReadTable, Reads, HasRead
  <1> QED
    BY <1>2, <1>4, <1>9

\* One character more is printed behind what was printed.
LEMMA EscapeAppend ==
    ASSUME NEW text \in ApiTexts, NEW c \in Characters
    PROVE /\ jsonEscape(text) \in ApiTexts /\ Append(text, c) \in ApiTexts
          /\ jsonEscape(Append(text, c)) = jsonEscape(text) \o Escape(c)
  <1>1. PICK size, more : size = Len(text) /\ more = Append(text, c)
    OBVIOUS
  <1>2. /\ size \in Nat /\ more \in ApiTexts /\ Len(more) = size + 1 /\ more[size + 1] = c
        /\ \A i \in 1..size : more[i] = text[i]
    BY <1>1 DEF ApiTexts
  <1>3. PICK out : EscapeTable(text, out)
    BY EscapeComputed
  <1>4. PICK out2 : EscapeTable(more, out2)
    BY <1>2, EscapeComputed
  <1>5. /\ out[0] = <<>> /\ \A i \in 1..size : out[i] = out[i - 1] \o Escape(text[i])
        /\ jsonEscape(text) = out[size] /\ out[size] \in ApiTexts
    <2>1. /\ out[0] = <<>> /\ \A i \in 1..size : out[i] = out[i - 1] \o Escape(text[i])
          /\ jsonEscape(text) = out[size] /\ out \in [0..size -> ApiTexts]
      BY <1>1, <1>3 DEF EscapeTable
    <2>2. size \in 0..size
      BY <1>2
    <2> QED
      BY <2>1, <2>2
  <1>6. /\ out2[0] = <<>> /\ \A i \in 1..size + 1 : out2[i] = out2[i - 1] \o Escape(more[i])
        /\ jsonEscape(more) = out2[size + 1]
    BY <1>2, <1>4 DEF EscapeTable
  <1> DEFINE T == {i \in Nat : i <= size /\ out[i] # out2[i]}
  <1>7. ASSUME T # {} PROVE FALSE
    <2>1. PICK i \in T : \A j \in T : i <= j
      BY <1>7, LeastNatural
    <2>2. i # 0
      BY <1>5, <1>6, <2>1
    <2>3. i \in 1..size /\ i \in 1..size + 1 /\ i - 1 \in Nat /\ i - 1 <= size
      BY <1>2, <2>1, <2>2
    <2>4. i - 1 \notin T
      BY <2>1, <2>3
    <2>5. out[i - 1] = out2[i - 1]
      BY <2>3, <2>4
    <2>6. out[i] = out[i - 1] \o Escape(text[i]) /\ out2[i] = out2[i - 1] \o Escape(more[i])
      BY <1>5, <1>6, <2>3
    <2>7. out[i] = out2[i]
      BY <1>2, <2>3, <2>5, <2>6
    <2> QED
      BY <2>1, <2>7
  <1>8. out[size] = out2[size]
    BY <1>2, <1>7
  <1>9. size + 1 \in 1..size + 1 /\ (size + 1) - 1 = size
    BY <1>2
  <1>10. out2[size + 1] = out2[(size + 1) - 1] \o Escape(more[size + 1])
    BY <1>6, <1>9
  <1> QED
    BY <1>1, <1>2, <1>5, <1>6, <1>8, <1>9, <1>10

\* Nothing is printed as nothing.
LEMMA EscapeEmpty == <<>> \in ApiTexts /\ jsonEscape(<<>>) = <<>> /\ readString(<<>>) = <<>>
  <1>1. <<>> \in ApiTexts /\ Len(<<>>) = 0 /\ DOMAIN <<>> = {}
    BY DEF ApiTexts
  <1>2. PICK out : EscapeTable(<<>>, out)
    BY <1>1, EscapeComputed
  <1>3. jsonEscape(<<>>) = <<>>
    BY <1>1, <1>2 DEF EscapeTable
  <1>4. readString(jsonEscape(<<>>)) = <<>>
    BY <1>1, ReadsBack
  <1> QED
    BY <1>1, <1>3, <1>4

\* A text of one character that needs no escape is printed and read as it is.
LEMMA PlainText ==
    ASSUME NEW c \in Characters, c \notin {"quote", "backslash", "newline", "control"}
    PROVE <<c>> \in ApiTexts /\ jsonEscape(<<c>>) = <<c>> /\ readString(<<c>>) = <<c>>
  <1>1. PICK text : text = <<c>>
    OBVIOUS
  <1>2. text \in ApiTexts /\ text = Append(<<>>, c) /\ <<>> \o <<c>> = <<c>>
    BY <1>1 DEF ApiTexts
  <1>3. Escape(c) = <<c>>
    BY DEF Escape
  <1>4. jsonEscape(text) = text
    BY <1>1, <1>2, <1>3, EscapeEmpty, EscapeAppend
  <1>5. \A i \in DOMAIN text : text[i] # "control"
    BY <1>1
  <1>6. readString(jsonEscape(text)) = text
    BY <1>2, <1>5, ReadsBack
  <1> QED
    BY <1>1, <1>2, <1>4, <1>6

\* Two characters more, one after the other
LEMMA AppendTwo ==
    ASSUME NEW s \in ApiTexts, NEW a \in Characters, NEW b \in Characters
    PROVE s \o <<a, b>> = Append(Append(s, a), b)
  <1>1. s \in Seq(Characters) /\ <<a, b>> \in Seq(Characters)
    BY DEF ApiTexts
  <1> QED
    BY <1>1

\* Standard(raw), with the places of the backslashes that begin an escape
Escapes(raw, escapes) ==
    \A i \in 1..Len(raw) :
        /\ i \in escapes <=> raw[i] = "backslash" /\ i - 1 \notin escapes
        /\ i \in escapes => i + 1 \in 1..Len(raw) /\ raw[i + 1] \in {"quote", "backslash", "n"}
        /\ raw[i] = "quote" => i - 1 \in escapes
        /\ raw[i] \notin {"newline", "control"}

InEscape(s) == [escape |-> TRUE, out |-> s]

\* Where readString() stands after i characters: what it has read is printed as what it has
\* passed, up to the backslash of an escape it is in.
Echoes(raw, read, escapes, i) ==
    \E t \in ApiTexts :
        \/ i \in escapes /\ read[i] = InEscape(t) /\ jsonEscape(t) = First(raw, i - 1)
        \/ i \notin escapes /\ read[i] = HasRead(t) /\ jsonEscape(t) = First(raw, i)

\* One character of a string in standard writing keeps that.
LEMMA EchoesStep ==
    ASSUME NEW raw \in ApiTexts, NEW read, ReadTable(raw, read), NEW escapes, Escapes(raw, escapes),
           0 \notin escapes, NEW i \in 1..Len(raw), Echoes(raw, read, escapes, i - 1)
    PROVE Echoes(raw, read, escapes, i)
  <1>1. PICK size : size = Len(raw)
    OBVIOUS
  <1>2. /\ size \in Nat /\ i \in Nat /\ i - 1 \in Nat /\ i <= size /\ i \in 1..size
        /\ \A k \in 1..size : raw[k] \in Characters
    BY <1>1 DEF ApiTexts
  <1>3. read[i] = ReadCharacter(read[i - 1], raw[i], i < size)
    BY <1>1, <1>2 DEF ReadTable, ReadNext
  <1>4. /\ i \in escapes <=> raw[i] = "backslash" /\ i - 1 \notin escapes
        /\ i \in escapes => i + 1 \in 1..size
        /\ raw[i] = "quote" => i - 1 \in escapes
        /\ raw[i] \notin {"newline", "control"}
    BY <1>1, <1>2 DEF Escapes
  <1>5. PICK t \in ApiTexts :
          \/ i - 1 \in escapes /\ read[i - 1] = InEscape(t) /\ jsonEscape(t) = First(raw, i - 2)
          \/ i - 1 \notin escapes /\ read[i - 1] = HasRead(t) /\ jsonEscape(t) = First(raw, i - 1)
    <2>1. (i - 1) - 1 = i - 2
      BY <1>2
    <2> QED
      BY <2>1 DEF Echoes
  <1>6. CASE i - 1 \notin escapes /\ i \in escapes
    <2>1. read[i - 1] = HasRead(t) /\ jsonEscape(t) = First(raw, i - 1)
      BY <1>5, <1>6
    <2>2. i < size /\ raw[i] = "backslash"
      BY <1>2, <1>4, <1>6
    <2>3. ReadCharacter(HasRead(t), raw[i], i < size) = InEscape(t)
      BY <2>2 DEF ReadCharacter, HasRead, InEscape
    <2> QED
      BY <1>3, <1>6, <2>1, <2>3 DEF Echoes
  <1>7. CASE i - 1 \notin escapes /\ i \notin escapes
    <2>1. read[i - 1] = HasRead(t) /\ jsonEscape(t) = First(raw, i - 1)
      BY <1>5, <1>7
    <2>2. PICK c : c = raw[i]
      OBVIOUS
    <2>3. c \in Characters /\ c \notin {"quote", "backslash", "newline", "control"}
      BY <1>2, <1>4, <1>7, <2>2
    <2>4. ReadCharacter(HasRead(t), raw[i], i < size) = HasRead(Append(t, c))
      BY <2>2, <2>3 DEF ReadCharacter, HasRead
    <2>5. Escape(c) = <<c>>
      BY <2>3 DEF Escape
    <2>6. jsonEscape(Append(t, c)) = jsonEscape(t) \o <<c>> /\ Append(t, c) \in ApiTexts
          /\ jsonEscape(t) \in ApiTexts
      BY <2>3, <2>5, EscapeAppend
    <2>7. jsonEscape(t) \o <<c>> = Append(jsonEscape(t), c)
      BY <2>3, <2>6 DEF ApiTexts
    <2>8. First(raw, i) = Append(First(raw, i - 1), c)
      BY <2>2, FirstStep
    <2> QED
      BY <1>3, <1>7, <2>1, <2>4, <2>6, <2>7, <2>8 DEF Echoes
  <1>8. CASE i - 1 \in escapes
    <2>1. read[i - 1] = InEscape(t) /\ jsonEscape(t) = First(raw, i - 2)
      BY <1>5, <1>8
    <2>2. i - 1 \in 1..size /\ i \notin escapes
      BY <1>2, <1>4, <1>8
    <2>3. /\ raw[i - 1] = "backslash" /\ raw[(i - 1) + 1] \in {"quote", "backslash", "n"}
      BY <1>1, <1>8, <2>2 DEF Escapes
    <2>4. PICK x, c : x = raw[i] /\ c = Unescape(x)
      OBVIOUS
    <2>5. x \in {"quote", "backslash", "n"}
      BY <1>2, <2>3, <2>4
    <2>6. Escape(c) = <<"backslash", x>> /\ c \in Characters
      BY <2>4, <2>5, CharactersAssumption DEF Escape, Unescape
    <2>7. ReadCharacter(InEscape(t), raw[i], i < size) = HasRead(Append(t, c))
      BY <2>4 DEF ReadCharacter, HasRead, InEscape
    <2>8. /\ jsonEscape(Append(t, c)) = jsonEscape(t) \o <<"backslash", x>>
          /\ Append(t, c) \in ApiTexts /\ jsonEscape(t) \in ApiTexts
      BY <2>6, EscapeAppend
    <2>9. x \in Characters /\ "backslash" \in Characters
      BY <1>2, <2>4, CharactersAssumption
    <2>10. jsonEscape(t) \o <<"backslash", x>> = Append(Append(jsonEscape(t), "backslash"), x)
      BY <2>8, <2>9, AppendTwo
    <2>11. First(raw, i) = Append(First(raw, i - 1), x)
      BY <2>4, FirstStep
    <2>12. First(raw, i - 1) = Append(First(raw, i - 2), "backslash")
      <3>1. (i - 1) - 1 = i - 2 /\ i - 1 \in 1..Len(raw)
        BY <1>1, <1>2, <2>2
      <3> QED
        BY <2>3, <3>1, FirstStep
    <2> QED
      BY <1>3, <2>1, <2>2, <2>7, <2>8, <2>10, <2>11, <2>12 DEF Echoes
  <1> QED
    BY <1>6, <1>7, <1>8

\* A string in standard writing is printed as it was written.
LEMMA StandardEchoed ==
    ASSUME NEW raw \in ApiTexts, Standard(raw)
    PROVE jsonEscape(readString(raw)) = raw
  <1>1. PICK size : size = Len(raw)
    OBVIOUS
  <1>2. size \in Nat /\ raw = First(raw, size) /\ First(raw, 0) = <<>> /\ DOMAIN raw = 1..size
    BY <1>1 DEF ApiTexts, First
  <1>3. PICK escapes \in SUBSET (1..size) : Escapes(raw, escapes)
    BY <1>1, <1>2 DEF Standard, Escapes
  <1>4. 0 \notin escapes /\ size \notin escapes
    <2>1. 0 \notin 1..size
      BY <1>2
    <2>2. ASSUME size \in escapes PROVE FALSE
      <3>1. size \in 1..size
        BY <1>3, <2>2
      <3>2. size + 1 \in 1..size
        BY <1>1, <1>3, <2>2, <3>1 DEF Escapes
      <3> QED
        BY <1>2, <3>2
    <2> QED
      BY <1>3, <2>1, <2>2
  <1>5. PICK read : ReadTable(raw, read)
    BY ReadComputed
  <1> DEFINE T == {i \in Nat : i <= size /\ ~Echoes(raw, read, escapes, i)}
  <1>6. ASSUME T # {} PROVE FALSE
    <2>1. PICK i \in T : \A j \in T : i <= j
      BY <1>6, LeastNatural
    <2>2. i # 0
      <3>1. read[0] = HasRead(<<>>)
        BY <1>5 DEF ReadTable, HasRead
      <3>2. Echoes(raw, read, escapes, 0)
        BY <1>2, <1>4, <3>1, EscapeEmpty DEF Echoes
      <3> QED
        BY <2>1, <3>2
    <2>3. i \in 1..size /\ i - 1 \in Nat /\ i - 1 <= size
      BY <1>2, <2>1, <2>2
    <2>4. i - 1 \notin T
      BY <2>1, <2>3
    <2>5. Echoes(raw, read, escapes, i - 1)
      BY <2>3, <2>4
    <2>6. Echoes(raw, read, escapes, i)
      BY <1>1, <1>3, <1>4, <1>5, <2>3, <2>5, EchoesStep
    <2> QED
      BY <2>1, <2>6
  <1>7. Echoes(raw, read, escapes, size)
    BY <1>2, <1>6
  <1>8. PICK t \in ApiTexts : read[size] = HasRead(t) /\ jsonEscape(t) = First(raw, size)
    BY <1>4, <1>7 DEF Echoes
  <1>9. readString(raw) = t
    BY <1>1, <1>5, <1>8 DEF ReadTable, HasRead
  <1> QED
    BY <1>2, <1>8, <1>9

\* The functions from texts to texts that bodies are decoded to
Maps == UNION {[names -> ApiTexts] : names \in SUBSET ApiTexts}

LEMMA EmptyMapType == <<>> \in Maps
  <1>1. <<>> \in [{} -> ApiTexts]
    OBVIOUS
  <1>2. {} \in SUBSET ApiTexts
    OBVIOUS
  <1> QED
    BY <1>1, <1>2 DEF Maps

LEMMA MappedType ==
    ASSUME NEW map \in Maps, NEW key \in ApiTexts, NEW value \in ApiTexts
    PROVE Mapped(map, key, value) \in Maps
  <1>1. PICK names \in SUBSET ApiTexts : map \in [names -> ApiTexts]
    BY DEF Maps
  <1>2. Mapped(map, key, value) \in [names \cup {key} -> ApiTexts]
    BY <1>1 DEF Mapped
  <1>3. names \cup {key} \in SUBSET ApiTexts
    BY <1>1
  <1> QED
    BY <1>2, <1>3 DEF Maps

\* A field is a text, the empty one where there is none; the last assignment decides.
LEMMA FieldType ==
    ASSUME NEW map \in Maps, NEW name
    PROVE Field(map, name) \in ApiTexts
  <1>1. PICK names \in SUBSET ApiTexts : map \in [names -> ApiTexts]
    BY DEF Maps
  <1>2. <<>> \in ApiTexts
    BY DEF ApiTexts
  <1> QED
    BY <1>1, <1>2 DEF Field

LEMMA FieldMapped ==
    ASSUME NEW map, NEW key, NEW value, NEW name
    PROVE Field(Mapped(map, key, value), name) = IF key = name THEN value ELSE Field(map, name)
  BY DEF Field, Mapped

\* urlDecode() yields a text.
LEMMA UrlDecodeType ==
    ASSUME NEW raw \in Seq(Units)
    PROVE urlDecode(raw) \in ApiTexts
  <1>1. ASSUME NEW unit \in Units PROVE DecodeUnit(unit) \in Characters
    <2>1. DOMAIN PercentEscapes \subseteq Characters /\ " " \in Characters
      BY CharactersAssumption DEF PercentEscapes
    <2>2. CASE unit = "+"
      BY <2>1, <2>2 DEF DecodeUnit
    <2>3. CASE unit # "+" /\ \E c \in DOMAIN PercentEscapes : PercentEscapes[c] = unit
      <3>1. DecodeUnit(unit) = CHOOSE c \in DOMAIN PercentEscapes : PercentEscapes[c] = unit
        BY <2>3 DEF DecodeUnit
      <3>2. (CHOOSE c \in DOMAIN PercentEscapes : PercentEscapes[c] = unit) \in DOMAIN PercentEscapes
        BY <2>3
      <3> QED
        BY <2>1, <3>1, <3>2
    <2>4. CASE unit # "+" /\ ~ \E c \in DOMAIN PercentEscapes : PercentEscapes[c] = unit
      <3>1. unit \in Characters
        BY <1>1, <2>4 DEF Units
      <3> QED
        BY <2>4, <3>1 DEF DecodeUnit
    <2> QED
      BY <2>2, <2>3, <2>4
  <1>2. PICK size : size = Len(raw)
    OBVIOUS
  <1>3. size \in Nat /\ DOMAIN raw = 1..size /\ \A i \in 1..size : raw[i] \in Units
    BY <1>2
  <1>4. urlDecode(raw) \in [1..size -> Characters]
    BY <1>1, <1>3 DEF urlDecode
  <1> QED
    BY <1>3, <1>4 DEF ApiTexts

Segments == [name : Seq(Units), value : Seq(Units), equals : BOOLEAN]

\* parseFormEncoded() yields texts.
LEMMA FormType ==
    ASSUME NEW segments \in Seq(Segments)
    PROVE parseFormEncoded(segments).fields \in Maps
  <1>1. PICK size : size = Len(segments)
    OBVIOUS
  <1>2. size \in Nat /\ \A i \in 1..size : segments[i] \in Segments
    BY <1>1
  <1> DEFINE step == [i \in 1..size |-> [map \in Maps |-> ReadSegment(map, segments[i])]]
  <1>3. step \in [1..size -> [Maps -> Maps]]
    <2>1. ASSUME NEW s \in Segments, NEW map \in Maps PROVE ReadSegment(map, s) \in Maps
      <3>1. urlDecode(s.name) \in ApiTexts /\ urlDecode(s.value) \in ApiTexts
        BY UrlDecodeType DEF Segments
      <3>2. Mapped(map, urlDecode(s.name), urlDecode(s.value)) \in Maps
        BY <3>1, MappedType
      <3> QED
        BY <3>2 DEF ReadSegment
    <2> QED
      BY <1>2, <2>1
  <1>4. PICK p : StepTable(Maps, <<>>, step, size, p)
    <2> HIDE DEF step
    <2> QED
      BY <1>2, <1>3, EmptyMapType, IterationExists
  <1> DEFINE loop(f) == f = [n \in 0..size |-> IF n = 0 THEN <<>> ELSE ReadSegment(f[n - 1], segments[n])]
  <1>5. loop(p)
    <2>1. p = [i \in 0..size |-> p[i]] /\ p[0] = <<>>
      BY <1>4 DEF StepTable
    <2>2. ASSUME NEW i \in 1..size PROVE p[i] = ReadSegment(p[i - 1], segments[i])
      <3>1. i - 1 \in 0..size
        BY <1>2
      <3>2. p[i] = step[i][p[i - 1]] /\ p[i - 1] \in Maps
        BY <1>4, <3>1 DEF StepTable
      <3> QED
        BY <3>2
    <2>3. ASSUME NEW n \in 0..size
          PROVE p[n] = IF n = 0 THEN <<>> ELSE ReadSegment(p[n - 1], segments[n])
      <3>1. n # 0 => n \in 1..size
        BY <1>2
      <3>2. n # 0 => p[n] = ReadSegment(p[n - 1], segments[n])
        BY <2>2, <3>1
      <3> QED
        BY <2>1, <3>2
    <2> QED
      BY <2>1, <2>3
  <1>6. PICK f : loop(f) /\ parseFormEncoded(segments).fields = f[size]
    <2>1. parseFormEncoded(segments).fields = (CHOOSE f : loop(f))[size]
      BY <1>1 DEF parseFormEncoded
    <2> HIDE DEF loop
    <2>2. loop(CHOOSE f : loop(f))
      BY <1>5
    <2> QED
      BY <2>1, <2>2
  <1>7. f[0] = <<>> /\ \A i \in 1..size : f[i] = ReadSegment(f[i - 1], segments[i])
    BY <1>2, <1>6
  <1>8. Stepwise(Maps, step, size, f)
    BY <1>7 DEF Stepwise
  <1>9. f[size] \in Maps
    <2> HIDE DEF step, loop
    <2>1. f[0] = <<>>
      BY <1>7
    <2>2. \A i \in 0..size : f[i] = p[i] /\ f[i] \in Maps
      BY <1>2, <1>4, <1>8, <2>1, IterationFollows
    <2> QED
      BY <1>2, <2>2
  <1> QED
    BY <1>6, <1>9

Tokens == [token : STRING, raw : ApiTexts]
Readings == [at : {"field", "end", "refused"}, fields : Maps]

\* A turn of the loop of parseFlatJson() reads texts.
LEMMA ReadFieldType ==
    ASSUME NEW tokens \in Seq(Tokens), NEW read \in Readings, NEW n \in Nat
    PROVE ReadField(read, tokens, n) \in Readings
  <1>1. Refused \in Readings
    BY EmptyMapType DEF Refused, Readings
  <1>2. ASSUME IsField(tokens, n) PROVE WithField(read.fields, tokens, n) \in Maps
    <2>1. \A i : Token(tokens, i) = "string" => i \in DOMAIN tokens
      BY DEF Token
    <2>2. 4 * n - 2 \in DOMAIN tokens /\ 4 * n \in DOMAIN tokens
      BY <1>2, <2>1 DEF IsField
    <2>3. tokens[4 * n - 2].raw \in ApiTexts /\ tokens[4 * n].raw \in ApiTexts
      <3>1. \A i \in DOMAIN tokens : tokens[i] \in Tokens
        OBVIOUS
      <3>2. \A t \in Tokens : t.raw \in ApiTexts
        BY DEF Tokens
      <3> QED
        BY <2>2, <3>1, <3>2
    <2>4. readString(tokens[4 * n - 2].raw) \in ApiTexts /\ readString(tokens[4 * n].raw) \in ApiTexts
      BY <2>3, ReadStringType
    <2>5. read.fields \in Maps
      BY DEF Readings
    <2> QED
      BY <2>4, <2>5, MappedType DEF WithField
  <1>3. ASSUME IsField(tokens, n), NEW at \in {"field", "end"}
        PROVE [at |-> at, fields |-> WithField(read.fields, tokens, n)] \in Readings
    BY <1>2, <1>3 DEF Readings
  <1>4. CASE read.at # "field"
    BY <1>4 DEF ReadField
  <1>5. CASE read.at = "field" /\ IsField(tokens, n) /\ Token(tokens, 4 * n + 1) \in {",", "}"}
    BY <1>3, <1>5 DEF ReadField
  <1>6. CASE read.at = "field" /\ ~(IsField(tokens, n) /\ Token(tokens, 4 * n + 1) \in {",", "}"})
    BY <1>1, <1>6 DEF ReadField
  <1> QED
    BY <1>4, <1>5, <1>6

\* The course of the loop
JsonTable(tokens, read) ==
    /\ read \in [0..Len(tokens) -> Readings]
    /\ read[0] = ReadBracket(tokens)
    /\ \A i \in 1..Len(tokens) : read[i] = ReadField(read[i - 1], tokens, i)
    /\ parseFlatJson(tokens).ok <=> read[Len(tokens)].at = "end"
    /\ parseFlatJson(tokens).fields = read[Len(tokens)].fields

LEMMA JsonComputed ==
    ASSUME NEW tokens \in Seq(Tokens)
    PROVE \E read : JsonTable(tokens, read)
  <1>1. PICK size : size = Len(tokens)
    OBVIOUS
  <1>2. size \in Nat
    BY <1>1
  <1>3. PICK start : start = ReadBracket(tokens)
    OBVIOUS
  <1> DEFINE step == [i \in 1..size |-> [s \in Readings |-> ReadField(s, tokens, i)]]
  <1>4. step \in [1..size -> [Readings -> Readings]]
    BY <1>2, ReadFieldType
  <1>5. start \in Readings
    BY <1>3, EmptyMapType DEF ReadBracket, Refused, Readings
  <1>6. PICK p : StepTable(Readings, start, step, size, p)
    <2> HIDE DEF step
    <2> QED
      BY <1>2, <1>4, <1>5, IterationExists
  <1> DEFINE loop(f) == f = [n \in 0..size |-> IF n = 0 THEN start ELSE ReadField(f[n - 1], tokens, n)]
  <1>7. loop(p)
    <2>1. p = [i \in 0..size |-> p[i]] /\ p[0] = start
      BY <1>6 DEF StepTable
    <2>2. ASSUME NEW i \in 1..size PROVE p[i] = ReadField(p[i - 1], tokens, i)
      <3>1. i - 1 \in 0..size
        BY <1>2
      <3>2. p[i] = step[i][p[i - 1]] /\ p[i - 1] \in Readings
        BY <1>6, <3>1 DEF StepTable
      <3> QED
        BY <3>2
    <2>3. ASSUME NEW n \in 0..size
          PROVE p[n] = IF n = 0 THEN start ELSE ReadField(p[n - 1], tokens, n)
      <3>1. n # 0 => n \in 1..size
        BY <1>2
      <3>2. n # 0 => p[n] = ReadField(p[n - 1], tokens, n)
        BY <2>2, <3>1
      <3> QED
        BY <2>1, <3>2
    <2> QED
      BY <2>1, <2>3
  <1>8. PICK f : loop(f) /\ parseFlatJson(tokens) = [ok |-> f[size].at = "end", fields |-> f[size].fields]
    <2> DEFINE g == CHOOSE f : loop(f)
    <2>1. parseFlatJson(tokens) = [ok |-> g[size].at = "end", fields |-> g[size].fields]
      BY <1>1, <1>3 DEF parseFlatJson
    <2>2. loop(g)
      <3> HIDE DEF loop
      <3> QED
        BY <1>7
    <2> HIDE DEF loop, g
    <2> QED
      BY <2>1, <2>2
  <1>9. /\ parseFlatJson(tokens).ok <=> f[size].at = "end"
        /\ parseFlatJson(tokens).fields = f[size].fields
    <2> HIDE DEF loop
    <2>1. PICK last : last = f[size]
      OBVIOUS
    <2>2. parseFlatJson(tokens) = [ok |-> last.at = "end", fields |-> last.fields]
      BY <1>8, <2>1
    <2>3. parseFlatJson(tokens).fields = last.fields
      BY <2>2
    <2>4. parseFlatJson(tokens).ok <=> last.at = "end"
      <3>1. CASE last.at = "end"
        <4>1. parseFlatJson(tokens) = [ok |-> TRUE, fields |-> last.fields]
          BY <2>2, <3>1
        <4> QED
          BY <3>1, <4>1
      <3>2. CASE last.at # "end"
        <4>1. parseFlatJson(tokens) = [ok |-> FALSE, fields |-> last.fields]
          BY <2>2, <3>2
        <4> QED
          BY <3>2, <4>1
      <3> QED
        BY <3>1, <3>2
    <2> QED
      BY <2>1, <2>3, <2>4
  <1>10. /\ f = [i \in 0..size |-> f[i]] /\ f[0] = start
         /\ \A i \in 1..size : f[i] = ReadField(f[i - 1], tokens, i)
    BY <1>2, <1>8
  <1>11. Stepwise(Readings, step, size, f)
    BY <1>10 DEF Stepwise
  <1>12. \A i \in 0..size : f[i] \in Readings
    <2> HIDE DEF step, loop
    <2>1. f[0] = start
      BY <1>10
    <2>2. \A i \in 0..size : f[i] = p[i] /\ f[i] \in Readings
      BY <1>2, <1>6, <1>11, <2>1, IterationFollows
    <2> QED
      BY <2>2
  <1> QED
    BY <1>1, <1>3, <1>9, <1>10, <1>12 DEF JsonTable

\* The tokens begin with n fields that a comma follows; and with n fields and the closing
\* bracket.
Commas(tokens, n) ==
    /\ Token(tokens, 1) = "{" /\ Token(tokens, 2) # "}"
    /\ \A j \in 1..n : IsField(tokens, j) /\ Token(tokens, 4 * j + 1) = ","
Closed(tokens, n) ==
    IF n = 0 THEN Token(tokens, 1) = "{" /\ Token(tokens, 2) = "}"
    ELSE Commas(tokens, n - 1) /\ IsField(tokens, n) /\ Token(tokens, 4 * n + 1) = "}"

\* What a turn makes of where the loop is
LEMMA ReadFieldAt ==
    ASSUME NEW read, NEW tokens, NEW n
    PROVE LET next == ReadField(read, tokens, n) IN
          /\ read.at # "field" => next = read
          /\ next.at = "field" <=>
                read.at = "field" /\ IsField(tokens, n) /\ Token(tokens, 4 * n + 1) = ","
          /\ (read.at = "field" /\ next.at = "end") =>
                IsField(tokens, n) /\ Token(tokens, 4 * n + 1) = "}"
          /\ (read.at = "field" /\ IsField(tokens, n) /\ Token(tokens, 4 * n + 1) \in {",", "}"}) =>
                /\ next.at = IF Token(tokens, 4 * n + 1) = "}" THEN "end" ELSE "field"
                /\ next.fields = WithField(read.fields, tokens, n)
  <1> DEFINE next == ReadField(read, tokens, n)
  <1>1. CASE read.at # "field"
    BY <1>1 DEF ReadField
  <1>2. CASE read.at = "field" /\ IsField(tokens, n) /\ Token(tokens, 4 * n + 1) \in {",", "}"}
    <2>1. next = [at |-> IF Token(tokens, 4 * n + 1) = "}" THEN "end" ELSE "field",
                  fields |-> WithField(read.fields, tokens, n)]
      BY <1>2 DEF ReadField
    <2> HIDE DEF next
    <2>2. /\ next.at = IF Token(tokens, 4 * n + 1) = "}" THEN "end" ELSE "field"
          /\ next.fields = WithField(read.fields, tokens, n)
      BY <2>1
    <2> QED
      BY <1>2, <2>2 DEF next
  <1>3. CASE read.at = "field" /\ ~(IsField(tokens, n) /\ Token(tokens, 4 * n + 1) \in {",", "}"})
    <2>1. next = Refused
      BY <1>3 DEF ReadField
    <2>2. next.at = "refused"
      BY <2>1 DEF Refused
    <2> HIDE DEF next
    <2> QED
      BY <1>3, <2>2 DEF next
  <1> QED
    BY <1>1, <1>2, <1>3

\* The loop goes on just as long as there are fields with commas.
LEMMA ReadsOn ==
    ASSUME NEW tokens \in Seq(Tokens), NEW read, JsonTable(tokens, read), NEW n \in 0..Len(tokens)
    PROVE read[n].at = "field" <=> Commas(tokens, n)
  <1>1. PICK size : size = Len(tokens)
    OBVIOUS
  <1>2. size \in Nat /\ \A i \in 1..size : read[i] = ReadField(read[i - 1], tokens, i)
    BY <1>1 DEF JsonTable
  <1> DEFINE T == {m \in Nat : m <= size /\ ~(read[m].at = "field" <=> Commas(tokens, m))}
  <1>3. ASSUME T # {} PROVE FALSE
    <2>1. PICK m \in T : \A j \in T : m <= j
      BY <1>3, LeastNatural
    <2>2. m # 0
      <3>1. read[0].at = "field" <=> Token(tokens, 1) = "{" /\ Token(tokens, 2) # "}"
        <4>1. read[0] = ReadBracket(tokens)
          BY DEF JsonTable
        <4>2. ReadBracket(tokens).at = "field" <=> Token(tokens, 1) = "{" /\ Token(tokens, 2) # "}"
          BY DEF ReadBracket, Refused
        <4> QED
          BY <4>1, <4>2
      <3>2. Commas(tokens, 0) <=> Token(tokens, 1) = "{" /\ Token(tokens, 2) # "}"
        <4>1. 1..0 = {}
          OBVIOUS
        <4> QED
          BY <4>1, Zenon DEF Commas
      <3> QED
        BY <2>1, <3>1, <3>2
    <2>3. m - 1 \in Nat /\ m - 1 <= size /\ m \in 1..size
      BY <1>2, <2>1, <2>2
    <2>4. m - 1 \notin T
      BY <2>1, <2>3
    <2>5. read[m - 1].at = "field" <=> Commas(tokens, m - 1)
      BY <2>3, <2>4
    <2>6. read[m].at = "field" <=>
            read[m - 1].at = "field" /\ IsField(tokens, m) /\ Token(tokens, 4 * m + 1) = ","
      <3>1. PICK before, after : before = read[m - 1] /\ after = read[m]
        OBVIOUS
      <3>2. after = ReadField(before, tokens, m)
        BY <1>2, <2>3, <3>1
      <3>3. after.at = "field" <=>
              before.at = "field" /\ IsField(tokens, m) /\ Token(tokens, 4 * m + 1) = ","
        BY <3>2, ReadFieldAt
      <3> QED
        BY <3>1, <3>3
    <2>7. 1..m = 1..(m - 1) \cup {m}
      BY <2>3
    <2>8. Commas(tokens, m) <=>
            Commas(tokens, m - 1) /\ IsField(tokens, m) /\ Token(tokens, 4 * m + 1) = ","
      BY <2>7 DEF Commas
    <2> QED
      BY <2>1, <2>5, <2>6, <2>8
  <1>4. n \in Nat /\ n <= size /\ n \notin T
    BY <1>1, <1>2, <1>3
  <1> QED
    BY <1>4

\* Once it has left the loop, nothing changes.
LEMMA ReadStays ==
    ASSUME NEW tokens \in Seq(Tokens), NEW read, JsonTable(tokens, read), NEW m \in 0..Len(tokens),
           read[m].at # "field", NEW n \in m..Len(tokens)
    PROVE read[n] = read[m]
  <1>1. PICK size : size = Len(tokens)
    OBVIOUS
  <1>2. size \in Nat /\ m \in Nat /\ \A i \in 1..size : read[i] = ReadField(read[i - 1], tokens, i)
    BY <1>1 DEF JsonTable
  <1> DEFINE T == {k \in Nat : m <= k /\ k <= size /\ read[k] # read[m]}
  <1>3. ASSUME T # {} PROVE FALSE
    <2>1. PICK k \in T : \A j \in T : k <= j
      BY <1>3, LeastNatural
    <2>2. k # m
      BY <2>1
    <2>3. k - 1 \in Nat /\ m <= k - 1 /\ k - 1 <= size /\ k \in 1..size
      BY <1>2, <2>1, <2>2
    <2>4. k - 1 \notin T
      BY <2>1, <2>3
    <2>5. read[k - 1] = read[m]
      BY <2>3, <2>4
    <2>6. read[k] = read[k - 1]
      <3>1. PICK before, after : before = read[k - 1] /\ after = read[k]
        OBVIOUS
      <3>2. after = ReadField(before, tokens, k) /\ before.at # "field"
        BY <1>2, <2>3, <2>5, <3>1
      <3>3. after = before
        BY <3>2, ReadFieldAt
      <3> QED
        BY <3>1, <3>3
    <2> QED
      BY <2>1, <2>5, <2>6
  <1>4. n \in Nat /\ m <= n /\ n <= size /\ n \notin T
    BY <1>1, <1>2, <1>3
  <1> QED
    BY <1>4

\* The loop ends well at the n-th field just when the closing bracket follows it.
LEMMA ReadsClosed ==
    ASSUME NEW tokens \in Seq(Tokens), NEW read, JsonTable(tokens, read), NEW n \in 0..Len(tokens)
    PROVE /\ Closed(tokens, n) => read[n].at = "end"
          /\ read[n].at = "end" => \E m \in 0..n : Closed(tokens, m)
  <1>1. PICK size : size = Len(tokens)
    OBVIOUS
  <1>2. /\ size \in Nat /\ n \in 0..size /\ \A i \in 1..size : read[i] = ReadField(read[i - 1], tokens, i)
        /\ \A i \in 0..size : read[i] \in Readings
    BY <1>1 DEF JsonTable
  <1>3. Closed(tokens, 0) <=> read[0].at = "end"
    <2>1. read[0] = ReadBracket(tokens)
      BY DEF JsonTable
    <2>2. ReadBracket(tokens).at = "end" <=> Token(tokens, 1) = "{" /\ Token(tokens, 2) = "}"
      BY DEF ReadBracket, Refused
    <2> QED
      BY <2>1, <2>2 DEF Closed
  <1>4. ASSUME NEW m \in 1..size, read[m - 1].at # "end"
        PROVE Closed(tokens, m) <=> read[m].at = "end"
    <2>1. PICK before, after : before = read[m - 1] /\ after = read[m]
      OBVIOUS
    <2>2. m - 1 \in 0..size /\ m # 0
      BY <1>2
    <2>3. after = ReadField(before, tokens, m) /\ before \in Readings
      BY <1>2, <2>1, <2>2
    <2>4. before.at = "field" <=> Commas(tokens, m - 1)
      BY <1>1, <2>1, <2>2, ReadsOn
    <2>5. before.at # "field" => after.at # "end"
      <3>1. before.at # "field" => after = before
        BY <2>3, ReadFieldAt
      <3> QED
        BY <1>4, <2>1, <3>1
    <2>6. (before.at = "field" /\ after.at = "end") => IsField(tokens, m) /\ Token(tokens, 4 * m + 1) = "}"
      BY <2>3, ReadFieldAt
    <2>7. (before.at = "field" /\ IsField(tokens, m) /\ Token(tokens, 4 * m + 1) = "}") => after.at = "end"
      BY <2>3, ReadFieldAt
    <2> QED
      BY <2>1, <2>2, <2>4, <2>5, <2>6, <2>7 DEF Closed
  <1>5. ASSUME Closed(tokens, n) PROVE read[n].at = "end"
    <2>1. CASE n = 0
      BY <1>3, <1>5, <2>1
    <2>2. CASE n # 0
      <3>1. n \in 1..size /\ n - 1 \in 0..size
        BY <1>2, <2>2
      <3>2. read[n - 1].at = "field"
        BY <1>1, <1>5, <2>2, <3>1, ReadsOn DEF Closed
      <3> QED
        BY <1>4, <1>5, <3>1, <3>2
    <2> QED
      BY <2>1, <2>2
  <1>6. ASSUME read[n].at = "end" PROVE \E m \in 0..n : Closed(tokens, m)
    <2> DEFINE T == {m \in Nat : m <= n /\ read[m].at = "end"}
    <2>1. n \in T
      BY <1>2, <1>6
    <2>2. PICK m \in T : \A j \in T : m <= j
      BY <2>1, LeastNatural
    <2>3. CASE m = 0
      BY <1>2, <1>3, <2>2, <2>3
    <2>4. CASE m # 0
      <3>1. m \in 1..size /\ m - 1 \in Nat /\ m - 1 <= n /\ m \in 0..n
        BY <1>2, <2>2, <2>4
      <3>2. m - 1 \notin T
        BY <2>2, <3>1
      <3>3. read[m - 1].at # "end"
        BY <3>1, <3>2
      <3>4. Closed(tokens, m)
        BY <1>4, <2>2, <3>1, <3>3
      <3> QED
        BY <3>1, <3>4
    <2> QED
      BY <2>3, <2>4
  <1> QED
    BY <1>5, <1>6

\* FlatObject says the same as Closed, in terms of the tokens alone.
LEMMA FlatIsClosed ==
    ASSUME NEW tokens \in Seq(Tokens), NEW n \in Nat
    PROVE FlatObject(tokens, n) <=> Closed(tokens, n)
  <1>1. PICK size : size = Len(tokens)
    OBVIOUS
  <1>2. size \in Nat /\ DOMAIN tokens = 1..size
    BY <1>1
  <1>3. ASSUME NEW i, NEW kind, kind # "end"
        PROVE Token(tokens, i) = kind <=> i \in 1..size /\ tokens[i].token = kind
    BY <1>2, <1>3 DEF Token
  <1>4. "{" # "end" /\ "}" # "end" /\ "," # "end" /\ ":" # "end" /\ "string" # "end" /\ "string" # "}"
    OBVIOUS
  <1>5. CASE n = 0
    <2>1. FlatObject(tokens, n) <=> size >= 2 /\ tokens[1].token = "{" /\ tokens[2].token = "}"
      <3>1. 1..0 = {} /\ 1..(0 - 1) = {}
        OBVIOUS
      <3> QED
        BY <1>1, <1>5, <3>1 DEF FlatObject
    <2>2. size >= 2 <=> 1 \in 1..size /\ 2 \in 1..size
      BY <1>2
    <2> QED
      BY <1>3, <1>4, <1>5, <2>1, <2>2 DEF Closed
  <1>6. CASE n # 0
    <2>1. FlatObject(tokens, n) <=>
            /\ size >= 4 * n + 1 /\ tokens[1].token = "{" /\ tokens[4 * n + 1].token = "}"
            /\ \A j \in 1..n : /\ tokens[4 * j - 2].token = "string" /\ tokens[4 * j - 1].token = ":"
                               /\ tokens[4 * j].token = "string"
            /\ \A j \in 1..n - 1 : tokens[4 * j + 1].token = ","
      BY <1>1, <1>6 DEF FlatObject
    <2>2. ASSUME size >= 4 * n + 1, NEW j \in 1..n
          PROVE /\ 4 * j - 2 \in 1..size /\ 4 * j - 1 \in 1..size /\ 4 * j \in 1..size
                /\ 4 * j + 1 \in 1..size /\ 1 \in 1..size
      BY <1>2, <2>2
    <2>3. ASSUME size >= 4 * n + 1, NEW j \in 1..n
          PROVE /\ IsField(tokens, j) <=>
                     /\ tokens[4 * j - 2].token = "string" /\ tokens[4 * j - 1].token = ":"
                     /\ tokens[4 * j].token = "string"
                /\ Token(tokens, 4 * j + 1) = "," <=> tokens[4 * j + 1].token = ","
                /\ Token(tokens, 4 * j + 1) = "}" <=> tokens[4 * j + 1].token = "}"
                /\ Token(tokens, 1) = "{" <=> tokens[1].token = "{"
      BY <1>3, <1>4, <2>2, <2>3 DEF IsField
    <2>4. n \in 1..n /\ 1 \in 1..n /\ n - 1 \in Nat /\ 4 * 1 - 2 = 2 /\ 1..(n - 1) \subseteq 1..n
          /\ 1..n = 1..(n - 1) \cup {n}
      BY <1>6
    <2>5. Closed(tokens, n) => size >= 4 * n + 1
      <3>1. Closed(tokens, n) => 4 * n + 1 \in 1..size
        BY <1>3, <1>4, <1>6 DEF Closed
      <3> QED
        BY <1>2, <3>1
    <2>6. IsField(tokens, 1) => Token(tokens, 2) # "}"
      BY <1>4, <2>4 DEF IsField
    <2>7. Closed(tokens, n) <=>
            /\ Token(tokens, 1) = "{" /\ Token(tokens, 4 * n + 1) = "}"
            /\ \A j \in 1..n : IsField(tokens, j)
            /\ \A j \in 1..n - 1 : Token(tokens, 4 * j + 1) = ","
      BY <1>6, <2>4, <2>6 DEF Closed, Commas
    <2>8. CASE size >= 4 * n + 1
      BY <2>1, <2>3, <2>4, <2>7, <2>8
    <2>9. CASE ~(size >= 4 * n + 1)
      BY <2>1, <2>5, <2>9
    <2> QED
      BY <2>8, <2>9
  <1> QED
    BY <1>5, <1>6

\* The value of the last field of that name among the first n, as readString() reads them
LastValue(tokens, n, name) ==
    LET fields == {j \in 1..n : readString(tokens[4 * j - 2].raw) = name} IN
        IF fields = {} THEN <<>> ELSE readString(tokens[4 * Max(fields)].raw)

\* At the closing bracket every field has the last value of its name.
LEMMA ClosedFields ==
    ASSUME NEW tokens \in Seq(Tokens), NEW read, JsonTable(tokens, read), NEW n \in 0..Len(tokens),
           Closed(tokens, n), NEW name
    PROVE Field(read[n].fields, name) = LastValue(tokens, n, name)
  <1>1. PICK size : size = Len(tokens)
    OBVIOUS
  <1>2. size \in Nat /\ n \in Nat /\ n <= size /\ \A i \in 1..size : read[i] = ReadField(read[i - 1], tokens, i)
    BY <1>1 DEF JsonTable
  <1> DEFINE v == [i \in 0..n |-> Field(read[i].fields, name)]
             w == [i \in 1..n |-> readString(tokens[4 * i].raw)]
             hits == {j \in 1..n : readString(tokens[4 * j - 2].raw) = name}
  <1>3. ASSUME NEW i \in 1..n PROVE read[i].fields = WithField(read[i - 1].fields, tokens, i)
    <2>1. PICK before, after : before = read[i - 1] /\ after = read[i]
      OBVIOUS
    <2>2. n # 0 /\ i \in 1..size /\ i - 1 \in 0..size
      BY <1>2
    <2>3. /\ Commas(tokens, n - 1) /\ IsField(tokens, n) /\ Token(tokens, 4 * n + 1) = "}"
      BY <2>2 DEF Closed
    <2>4. /\ Token(tokens, 1) = "{" /\ Token(tokens, 2) # "}"
          /\ \A j \in 1..n - 1 : IsField(tokens, j) /\ Token(tokens, 4 * j + 1) = ","
      BY <2>3 DEF Commas
    <2>5. 1..(i - 1) \subseteq 1..(n - 1) /\ (i = n \/ i \in 1..(n - 1))
      BY <1>2
    <2>6. Commas(tokens, i - 1)
      BY <2>4, <2>5 DEF Commas
    <2>7. before.at = "field"
      BY <1>1, <2>1, <2>2, <2>6, ReadsOn
    <2>8. IsField(tokens, i) /\ Token(tokens, 4 * i + 1) \in {",", "}"}
      BY <2>3, <2>4, <2>5
    <2>9. after = ReadField(before, tokens, i)
      BY <1>2, <2>1, <2>2
    <2>10. after.fields = WithField(before.fields, tokens, i)
      BY <2>7, <2>8, <2>9, ReadFieldAt
    <2> QED
      BY <2>1, <2>10
  <1>4. ASSUME NEW i \in 1..n PROVE v[i] = IF i \in hits THEN w[i] ELSE v[i - 1]
    <2>1. i \in 0..n /\ i - 1 \in 0..n
      BY <1>2
    <2>2. PICK map, key, value : /\ map = read[i - 1].fields /\ key = readString(tokens[4 * i - 2].raw)
                                 /\ value = readString(tokens[4 * i].raw)
      OBVIOUS
    <2>3. read[i].fields = Mapped(map, key, value)
      BY <1>3, <2>2 DEF WithField
    <2>4. Field(read[i].fields, name) = IF key = name THEN value ELSE Field(map, name)
      BY <2>3, FieldMapped
    <2> QED
      BY <2>1, <2>2, <2>4
  <1>5. Course(n, v, w, hits) /\ hits \subseteq 1..n
    BY <1>4 DEF Course
  <1>6. v[0] = <<>>
    <2>1. read[0] = ReadBracket(tokens)
      BY DEF JsonTable
    <2>2. ReadBracket(tokens).fields = <<>>
      BY DEF ReadBracket, Refused
    <2>3. Field(<<>>, name) = <<>>
      BY DEF Field
    <2>4. 0 \in 0..n
      BY <1>2
    <2> QED
      BY <2>1, <2>2, <2>3, <2>4
  <1>7. v[n] = Field(read[n].fields, name)
    BY <1>2
  <1>8. \A i \in hits : w[i] = readString(tokens[4 * i].raw)
    OBVIOUS
  <1>9. LastValue(tokens, n, name) = IF hits = {} THEN <<>> ELSE readString(tokens[4 * Max(hits)].raw)
    BY DEF LastValue
  <1> HIDE DEF v, w, hits
  <1>10. /\ hits = {} => v[n] = v[0]
         /\ hits # {} => Max(hits) \in hits /\ v[n] = w[Max(hits)]
    <2>1. Stays(n, v, w, hits)
      BY <1>2, <1>5, LastAssignment
    <2> QED
      BY <2>1 DEF Stays
  <1> QED
    BY <1>6, <1>7, <1>8, <1>9, <1>10

FlatSizes(tokens) == {n \in 0..Len(tokens) : FlatObject(tokens, n)}

\* parseFlatJson() accepts exactly the flat objects of strings, and its fields are the last values of that object.
LEMMA JsonMeaning ==
    ASSUME NEW tokens \in Seq(Tokens)
    PROVE /\ parseFlatJson(tokens).fields \in Maps
          /\ parseFlatJson(tokens).ok <=> FlatSizes(tokens) # {}
          /\ \A n \in FlatSizes(tokens) : \A name :
                Field(parseFlatJson(tokens).fields, name) = LastValue(tokens, n, name)
  <1>1. PICK size, flat : size = Len(tokens) /\ flat = FlatSizes(tokens)
    OBVIOUS
  <1>2. size \in Nat /\ size \in 0..size
    BY <1>1
  <1>3. PICK read : JsonTable(tokens, read)
    BY JsonComputed
  <1>4. /\ parseFlatJson(tokens).ok <=> read[size].at = "end"
        /\ parseFlatJson(tokens).fields = read[size].fields
        /\ read[size] \in Readings
    BY <1>1, <1>2, <1>3 DEF JsonTable
  <1>5. \A n : n \in flat <=> n \in 0..size /\ Closed(tokens, n)
    BY <1>1, FlatIsClosed DEF FlatSizes
  <1>6. ASSUME NEW n \in flat PROVE read[n].at = "end" /\ read[size] = read[n]
    <2>1. n \in 0..size /\ Closed(tokens, n) /\ size \in n..size
      BY <1>2, <1>5
    <2>2. read[n].at = "end"
      BY <1>1, <1>3, <2>1, ReadsClosed
    <2> QED
      BY <1>1, <1>3, <2>1, <2>2, ReadStays
  <1>7. read[size].at = "end" <=> flat # {}
    <2>1. read[size].at = "end" => \E m \in 0..size : Closed(tokens, m)
      BY <1>1, <1>2, <1>3, ReadsClosed
    <2> QED
      BY <1>5, <1>6, <2>1
  <1>10. ASSUME NEW n \in flat, NEW name PROVE Field(read[size].fields, name) = LastValue(tokens, n, name)
    <2>1. n \in 0..size /\ Closed(tokens, n)
      BY <1>5
    <2> QED
      BY <1>1, <1>3, <1>6, <2>1, ClosedFields
  <1>11. read[size].fields \in Maps
    BY <1>4 DEF Readings
  <1> QED
    BY <1>1, <1>4, <1>7, <1>10, <1>11

\* The strings of a flat object are texts.
LEMMA StringsAreTexts ==
    ASSUME NEW tokens \in Seq(Tokens), NEW n \in FlatSizes(tokens), NEW j \in 1..n
    PROVE tokens[4 * j - 2].raw \in ApiTexts /\ tokens[4 * j].raw \in ApiTexts
  <1>1. n \in Nat /\ n # 0 /\ Len(tokens) \in Nat /\ FlatObject(tokens, n)
    BY DEF FlatSizes
  <1>2. Len(tokens) >= 4 * n + 1
    BY <1>1 DEF FlatObject
  <1>3. 4 * j - 2 \in 1..Len(tokens) /\ 4 * j \in 1..Len(tokens)
    BY <1>1, <1>2
  <1>4. tokens[4 * j - 2] \in Tokens /\ tokens[4 * j] \in Tokens
    BY <1>3
  <1>5. \A t \in Tokens : t.raw \in ApiTexts
    BY DEF Tokens
  <1> QED
    BY <1>4, <1>5

\* Of a flat object in standard writing the fields hold what is printed as it was written.
LEMMA FieldEchoed ==
    ASSUME NEW tokens \in Seq(Tokens), NEW n \in FlatSizes(tokens), StandardStrings(tokens, n),
           NEW c \in Characters, c \notin {"quote", "backslash", "newline", "control"}
    PROVE /\ jsonEscape(LastValue(tokens, n, <<c>>)) = LastWritten(tokens, n, <<c>>)
          /\ LastValue(tokens, n, <<c>>) = <<>> <=> LastWritten(tokens, n, <<c>>) = <<>>
  <1>1. PICK name : name = <<c>>
    OBVIOUS
  <1>2. jsonEscape(name) = name /\ readString(name) = name
    BY <1>1, PlainText
  <1>3. \A j \in 1..n : /\ Standard(tokens[4 * j - 2].raw) /\ Standard(tokens[4 * j].raw)
                        /\ tokens[4 * j - 2].raw \in ApiTexts /\ tokens[4 * j].raw \in ApiTexts
    BY StringsAreTexts DEF StandardStrings
  <1>4. ASSUME NEW j \in 1..n PROVE readString(tokens[4 * j - 2].raw) = name <=> tokens[4 * j - 2].raw = name
    <2>1. PICK raw : raw = tokens[4 * j - 2].raw
      OBVIOUS
    <2>2. jsonEscape(readString(raw)) = raw
      BY <1>3, <2>1, StandardEchoed
    <2>3. readString(raw) = name => raw = name
      BY <1>2, <2>2
    <2> QED
      BY <1>2, <2>1, <2>3
  <1>5. PICK fields : fields = {j \in 1..n : tokens[4 * j - 2].raw = name}
    OBVIOUS
  <1>6. fields = {j \in 1..n : readString(tokens[4 * j - 2].raw) = name}
    BY <1>4, <1>5
  <1>7. PICK value, written : value = LastValue(tokens, n, name) /\ written = LastWritten(tokens, n, name)
    OBVIOUS
  <1>8. CASE fields = {}
    <2>1. value = <<>> /\ written = <<>>
      BY <1>5, <1>6, <1>7, <1>8 DEF LastValue, LastWritten
    <2> QED
      BY <1>1, <1>7, <2>1, EscapeEmpty
  <1>9. CASE fields # {}
    <2>1. PICK top : top = Max(fields)
      OBVIOUS
    <2>2. fields \subseteq Nat /\ n \in Nat /\ \A j \in fields : j <= n
      BY <1>5 DEF FlatSizes
    <2>3. top \in fields
      BY <1>9, <2>1, <2>2, MaxOfBounded
    <2>4. top \in 1..n
      BY <1>5, <2>3
    <2>5. PICK raw : raw = tokens[4 * top].raw
      OBVIOUS
    <2>6. written = raw
      BY <1>5, <1>7, <1>9, <2>1, <2>5 DEF LastWritten
    <2>7. value = readString(raw)
      BY <1>6, <1>7, <1>9, <2>1, <2>5 DEF LastValue
    <2>8. jsonEscape(readString(raw)) = raw
      BY <1>3, <2>4, <2>5, StandardEchoed
    <2>9. value = <<>> <=> written = <<>>
      BY <2>6, <2>7, <2>8, EscapeEmpty
    <2> QED
      BY <1>1, <1>7, <2>6, <2>7, <2>8, <2>9
  <1> QED
    BY <1>8, <1>9

\* For the key and the value of the API
LEMMA WrittenIsEchoed ==
    ASSUME NEW tokens \in Seq(Tokens), NEW n \in FlatSizes(tokens), StandardStrings(tokens, n)
    PROVE /\ jsonEscape(LastValue(tokens, n, Name.key)) = LastWritten(tokens, n, Name.key)
          /\ jsonEscape(LastValue(tokens, n, Name.value)) = LastWritten(tokens, n, Name.value)
          /\ LastValue(tokens, n, Name.key) = <<>> <=> LastWritten(tokens, n, Name.key) = <<>>
  <1>1. /\ Name.key = <<"key">> /\ Name.value = <<"value">>
        /\ "key" \in Characters /\ "value" \in Characters
    BY CharactersAssumption DEF Name
  <1> QED
    BY <1>1, FieldEchoed

=============================================================================
