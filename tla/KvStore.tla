------------------------------ MODULE KvStore ------------------------------
(***************************************************************************)
(* The key-value API (src/api.cpp): the store behind its mutex, and the    *)
(* decoding of bodies and queries.                                         *)
(*                                                                         *)
(* A text is a sequence of characters; only the ones the code treats       *)
(* differently have names ("quote", "backslash", "newline", "control").    *)
(* The words that name fields are one character, "key" and "value".  A     *)
(* JSON body is a sequence of tokens, since white space is skipped before  *)
(* each of them; a token is a bracket, a colon, a comma, a terminated      *)
(* string with its raw text, or "other", which stands for anything else,   *)
(* an unterminated string included.  A form or a query is a sequence of    *)
(* segments, with or without "=".                                          *)
(***************************************************************************)
EXTENDS Integers, Sequences, FiniteSets, FiniteSetsExt

CONSTANTS maxEntries, maxKeyLength, maxValueLength,
          Characters    \* what texts are made of

ASSUME CharactersAssumption ==
    {" ", "quote", "backslash", "newline", "control", "n", "u", "0", "1", "key", "value"}
        \subseteq Characters

ASSUME StoreLimitsAssumption ==
    maxEntries \in Nat /\ maxKeyLength \in Nat /\ maxValueLength \in Nat

VARIABLES
    store,              \* KvStore::entries, a function on the keys it has
    created, deleted    \* history: keys created (201), keys deleted (200)

kvVars == <<store, created, deleted>>

KvInit == store = <<>> /\ created = 0 /\ deleted = 0

Name == [key |-> <<"key">>, value |-> <<"value">>]

-----------------------------------------------------------------------------
(* Conversions *)

\* urlDecode(), a unit at a time: "+", a percent escape, or a character
PercentEscapes == [control |-> "%01", quote |-> "%22", backslash |-> "%5C", newline |-> "%0A"]
DecodeUnit(unit) ==
    IF unit = "+" THEN " "
    ELSE IF \E c \in DOMAIN PercentEscapes : PercentEscapes[c] = unit
         THEN CHOOSE c \in DOMAIN PercentEscapes : PercentEscapes[c] = unit
         ELSE unit
urlDecode(raw) == [i \in DOMAIN raw |-> DecodeUnit(raw[i])]

\* Seeded fault: the backslash itself is not escaped.
EscapeBackslashKept(character) ==
    CASE character = "quote"     -> <<"backslash", "quote">>
      [] character = "newline"   -> <<"backslash", "n">>
      [] character = "control"   -> <<"backslash", "u", "0", "0", "1">>
      [] OTHER                   -> <<character>>

\* jsonEscape(): a control character below 16 gets one hexadecimal digit after \u00.
Escape(character) ==
    CASE character = "quote"     -> <<"backslash", "quote">>
      [] character = "backslash" -> <<"backslash", "backslash">>
      [] character = "newline"   -> <<"backslash", "n">>
      [] character = "control"   -> <<"backslash", "u", "0", "0", "1">>
      [] OTHER                   -> <<character>>
jsonEscape(text) ==
    LET out[i \in 0..Len(text)] == IF i = 0 THEN <<>> ELSE out[i - 1] \o Escape(text[i])
    IN out[Len(text)]

\* readString(): an escape is \n, \t, \r, or stands for the character itself; one character
\* after the other, more says whether it is not the last.
Unescape(character) == IF character = "n" THEN "newline" ELSE character
ReadCharacter(read, character, more) ==
    IF read.escape THEN [escape |-> FALSE, out |-> Append(read.out, Unescape(character))]
    ELSE IF character = "backslash" /\ more THEN [escape |-> TRUE, out |-> read.out]
         ELSE [escape |-> FALSE, out |-> Append(read.out, character)]
readString(raw) ==
    LET read[i \in 0..Len(raw)] ==
            IF i = 0 THEN [escape |-> FALSE, out |-> <<>>]
            ELSE ReadCharacter(read[i - 1], raw[i], i < Len(raw))
    IN read[Len(raw)].out

\* map[key] = value
Mapped(map, key, value) == [k \in DOMAIN map \cup {key} |-> IF k = key THEN value ELSE map[k]]

Token(tokens, i) == IF i \in DOMAIN tokens THEN tokens[i].token ELSE "end"
Refused == [at |-> "refused", fields |-> <<>>]
IsField(tokens, n) ==
    /\ Token(tokens, 4 * n - 2) = "string" /\ Token(tokens, 4 * n - 1) = ":"
    /\ Token(tokens, 4 * n) = "string"
WithField(fields, tokens, n) ==
    Mapped(fields, readString(tokens[4 * n - 2].raw), readString(tokens[4 * n].raw))

\* Seeded fault: a comma may be followed by the closing bracket.
ReadFieldTrailingComma(read, tokens, n) ==
    CASE read.at # "field" -> read
      [] read.at = "field" /\ IsField(tokens, n) /\ Token(tokens, 4 * n + 1) \in {",", "}"} ->
            [at |-> IF "}" \in {Token(tokens, 4 * n + 1), Token(tokens, 4 * n + 2)}
                    THEN "end" ELSE "field",
             fields |-> WithField(read.fields, tokens, n)]
      [] OTHER -> Refused

\* One turn of the loop of parseFlatJson(), for the n-th field: a later one of the same name
\* wins.
ReadField(read, tokens, n) ==
    CASE read.at # "field" -> read
      [] read.at = "field" /\ IsField(tokens, n) /\ Token(tokens, 4 * n + 1) \in {",", "}"} ->
            [at |-> IF Token(tokens, 4 * n + 1) = "}" THEN "end" ELSE "field",
             fields |-> WithField(read.fields, tokens, n)]
      [] OTHER -> Refused

\* parseFlatJson(): what follows the closing bracket is not read.
ReadBracket(tokens) ==
    IF Token(tokens, 1) # "{" THEN Refused
    ELSE [at |-> IF Token(tokens, 2) = "}" THEN "end" ELSE "field", fields |-> <<>>]
parseFlatJson(tokens) ==
    LET read[n \in 0..Len(tokens)] ==
            IF n = 0 THEN ReadBracket(tokens) ELSE ReadField(read[n - 1], tokens, n)
        last == read[Len(tokens)]
    IN [ok |-> last.at = "end", fields |-> last.fields]

\* parseFormEncoded(): segments without "=" are skipped, a later one of the same name wins.
ReadSegment(fields, s) ==
    IF s.equals THEN Mapped(fields, urlDecode(s.name), urlDecode(s.value)) ELSE fields
parseFormEncoded(segments) ==
    LET read[n \in 0..Len(segments)] ==
            IF n = 0 THEN <<>> ELSE ReadSegment(read[n - 1], segments[n])
    IN [ok |-> TRUE, fields |-> read[Len(segments)]]

\* The bodies that requests have
Units == Characters \cup {"+"} \cup {PercentEscapes[c] : c \in DOMAIN PercentEscapes}
BodyTypes(r) ==
    /\ r.json \in Seq([token : STRING, raw : Seq(Characters)])
    /\ r.form \in Seq([name : Seq(Units), value : Seq(Units), equals : BOOLEAN])

\* HttpRequest::queryParam(): the first segment of that name, or nothing
queryParam(segments, name) ==
    LET found == SelectSeq(segments, LAMBDA s : s.equals /\ s.name = name) IN
        IF found = <<>> THEN <<>> ELSE urlDecode(found[1].value)

-----------------------------------------------------------------------------
(* The operations: each decides its status and changes the store in one step under the lock *)

Field(fields, name) == IF name \in DOMAIN fields THEN fields[name] ELSE <<>>

\* list(), and get() of a key
ListStatus == 200
GetStatus(key) == IF key = <<>> THEN 400 ELSE IF key \in DOMAIN store THEN 200 ELSE 404

\* What put() finds out before it takes the lock; 0 means that it goes on.
BodyStatus(decoded) ==
    LET key == Field(decoded.fields, Name.key)
        value == Field(decoded.fields, Name.value) IN
        CASE ~decoded.ok -> 400
          [] decoded.ok /\ key = <<>> -> 400
          [] decoded.ok /\ key # <<>> /\ (Len(key) > maxKeyLength \/ Len(value) > maxValueLength) -> 413
          [] OTHER -> 0

\* Seeded fault: off by one at the limit.
LockedStatusOneMore(key) ==
    IF key \in DOMAIN store THEN 200
    ELSE IF Cardinality(DOMAIN store) > maxEntries THEN 507 ELSE 201

LockedStatus(key) ==
    IF key \in DOMAIN store THEN 200
    ELSE IF Cardinality(DOMAIN store) >= maxEntries THEN 507 ELSE 201

PutStatus(decoded) ==
    IF BodyStatus(decoded) # 0 THEN BodyStatus(decoded)
    ELSE LockedStatus(Field(decoded.fields, Name.key))

\* entries[key] = value
Stored(key, value) == Mapped(store, key, value)

KvPut(decoded) ==
    /\ store' = IF PutStatus(decoded) \in {200, 201}
                THEN Stored(Field(decoded.fields, Name.key), Field(decoded.fields, Name.value))
                ELSE store
    /\ created' = IF PutStatus(decoded) = 201 THEN created + 1 ELSE created
    /\ UNCHANGED deleted

RemoveStatus(key) == GetStatus(key)

KvRemove(key) ==
    /\ store' = [k \in DOMAIN store \ {key} |-> store[k]]
    /\ deleted' = IF RemoveStatus(key) = 200 THEN deleted + 1 ELSE deleted
    /\ UNCHANGED created

-----------------------------------------------------------------------------

\* The store never holds more keys than maxEntries, and holds exactly as many as were
\* answered with 201 and not deleted since: put() tells a new key from a replacement, and
\* remove() an existing key from an absent one, in every order of the requests.
StoreAccounted ==
    /\ Cardinality(DOMAIN store) <= maxEntries
    /\ Cardinality(DOMAIN store) = created - deleted

\* The tokens begin with an object of n fields, all names and values strings.
FlatObject(tokens, n) ==
    LET end == IF n = 0 THEN 2 ELSE 4 * n + 1 IN
        /\ Len(tokens) >= end
        /\ tokens[1].token = "{" /\ tokens[end].token = "}"
        /\ \A j \in 1..n : /\ tokens[4 * j - 2].token = "string" /\ tokens[4 * j - 1].token = ":"
                           /\ tokens[4 * j].token = "string"
        /\ \A j \in 1..n - 1 : tokens[4 * j + 1].token = ","

\* They are such an object and nothing behind it.
WholeObject(tokens, n) == FlatObject(tokens, n) /\ Len(tokens) = IF n = 0 THEN 2 ELSE 4 * n + 1

\* A string as a JSON writer puts it when it escapes what must be escaped, and only by \", \\
\* and \n; escapes are the places of the backslashes that begin an escape.
Standard(raw) ==
    \E escapes \in SUBSET DOMAIN raw : \A i \in DOMAIN raw :
        /\ i \in escapes <=> raw[i] = "backslash" /\ i - 1 \notin escapes
        /\ i \in escapes => i + 1 \in DOMAIN raw /\ raw[i + 1] \in {"quote", "backslash", "n"}
        /\ raw[i] = "quote" => i - 1 \in escapes
        /\ raw[i] \notin {"newline", "control"}
StandardStrings(tokens, n) ==
    \A j \in 1..n : Standard(tokens[4 * j - 2].raw) /\ Standard(tokens[4 * j].raw)

\* What the client wrote as the value of the last field of that name, as in an object
LastWritten(tokens, n, name) ==
    LET fields == {j \in 1..n : tokens[4 * j - 2].raw = name} IN
        IF fields = {} THEN <<>> ELSE tokens[4 * Max(fields)].raw

\* What get() and list() print for a stored key or value is read back by readString() as the
\* same text, unless it holds a control character: those are printed with too few digits.
EscapedReadsBack ==
    \A key \in DOMAIN store : \A text \in {key, store[key]} :
        (\A i \in DOMAIN text : text[i] # "control") => readString(jsonEscape(text)) = text

=============================================================================
