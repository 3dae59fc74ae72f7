---- MODULE BridgeLines ----
(***************************************************************************)
(* The lines that OpenAIWhisperRuntime (src/runtime/whisper_runtime.cpp)   *)
(* and the bridge script exchange: how a request is written and an answer  *)
(* read.  ProcessRunner has which line belongs to which request.           *)
(*                                                                         *)
(* A line is a sequence of characters; one that means something to JSON    *)
(* goes by its name, and a word, a number or four hexadecimal digits count *)
(* as one.  A value of JSON is its type and what it holds: a function from *)
(* keys, a sequence of values, text, a number.                             *)
(***************************************************************************)
EXTENDS Integers, Sequences, FiniteSets, SequencesExt

CONSTANTS
    Characters,         \* what a line consists of
    Strings,            \* what a path or a language may be, as sequences of characters
    Said                \* what the script may say: a value, and the segments it stands for

Numbers == [n \in {"-1", "0", "1", "2", "NaN"} |->
              CASE n = "-1" -> -1 [] n = "0" -> 0 [] n = "1" -> 1 [] n = "2" -> 2
                [] n = "NaN" -> 0]

\* The characters that something is made of here; behind the last of a line is "end".
Marks == {"quote", "backslash", "newline", "control", "space", "n", "u", "0001", "null",
          "lbrace", "rbrace", "lbracket", "rbracket", "colon", "comma"}
Words == {"op", "initialize", "model_path", "language", "status", "ready", "segments",
          "start_seconds", "end_seconds", "text"}

ASSUME CharactersAssumption ==
    Marks \cup Words \cup DOMAIN Numbers \subseteq Characters /\ "end" \notin Characters

IsSpace(c) == c \in {"space", "newline"}
IsControl(c) == c \in {"newline", "control"}

Object(members) == [type |-> "object", holds |-> members]
Array(elements) == [type |-> "array", holds |-> elements]
Text(text) == [type |-> "string", holds |-> text]
Number(n) == [type |-> "number", holds |-> n]
Null == [type |-> "null", holds |-> <<>>]

VARIABLE exchange       \* the line that was written or heard

-----------------------------------------------------------------------------
(* Writing a request. *)

\* A text with the characters of a table spelled as the table says.
Spelled(table, text) ==
    FoldLeft(LAMBDA done, c : done \o IF c \in DOMAIN table THEN table[c] ELSE <<c>>,
             <<>>, text)

Escapes ==
    [c \in {"quote", "backslash", "newline", "control"} |->
       CASE c = "quote" -> <<"backslash", "quote">>
         [] c = "backslash" -> <<"backslash", "backslash">>
         [] c = "newline" -> <<"backslash", "n">>
         [] c = "control" -> <<"backslash", "u", "0001">>]

EscapeJsonString(text) == Spelled(Escapes, text)

Quoted(body) == <<"quote">> \o body \o <<"quote">>
Pair(name, body) == Quoted(<<name>>) \o <<"colon">> \o Quoted(body)

MakeInitializeRequest(path, language) ==
    <<"lbrace">> \o Pair("op", <<"initialize">>)
    \o <<"comma">> \o Pair("model_path", EscapeJsonString(path))
    \o <<"comma">> \o Pair("language", EscapeJsonString(language)) \o <<"rbrace">>

-----------------------------------------------------------------------------
(* JsonParser.  A parse is [ok, value, at]: the value that was read and the position *)
(* behind it; what fails throws.                                                     *)

Throws == [ok |-> FALSE, value |-> Null, at |-> 0]
Reads(value, at) == [ok |-> TRUE, value |-> value, at |-> at]

At(line, at) == IF at \in DOMAIN line THEN line[at] ELSE "end"

SkipWhitespace(line, at) ==
    CHOOSE k \in at .. Len(line) + 1 : /\ ~IsSpace(At(line, k))
                                      /\ \A j \in at .. k - 1 : IsSpace(At(line, j))

\* Behind a backslash: the character that is meant and where the escape ends.
Escaped(line, at) ==
    LET c == At(line, at)
        known == [k \in {"quote", "backslash", "n"} |-> IF k = "n" THEN "newline" ELSE k]
    IN  IF c \in DOMAIN known THEN [ok |-> TRUE, c |-> known[c], at |-> at + 1]
        ELSE IF c = "u" /\ At(line, at + 1) = "0001"
        THEN [ok |-> TRUE, c |-> "control", at |-> at + 2]
        ELSE [ok |-> FALSE]

\* What a character of a string stands for and where the next one begins.
NextCharacter(line, at) ==
    LET c == At(line, at)
    IN  IF c = "backslash" THEN Escaped(line, at + 1)
        ELSE [ok |-> c # "end" /\ ~IsControl(c), c |-> c, at |-> at + 1]

\* One turn of parse_string().  read has what the rules read further on in the line.
StringStep(line, read, at) ==
    LET next == NextCharacter(line, at)
        rest == read[<<"string", next.at>>]
    IN  IF At(line, at) = "quote" THEN Reads(Text(<<>>), at + 1)
        ELSE IF next.ok /\ rest.ok
        THEN Reads(Text(<<next.c>> \o rest.value.holds), rest.at)
        ELSE Throws

\* The lists of JSON: the members of an object and the elements of an array.
Lists == {"members", "elements"}
Closing(rule) == IF rule = "members" THEN "rbrace" ELSE "rbracket"
NoParts(rule) == IF rule = "members" THEN Object(<<>>) ELSE Array(<<>>)

\* parse_object() and parse_array() behind the opening character.
OpenList(line, read, rule, at) ==
    LET inside == SkipWhitespace(line, at)
    IN  IF At(line, inside) = Closing(rule) THEN Reads(NoParts(rule), inside + 1)
        ELSE read[<<rule, inside>>]

\* parse_value().
Value(line, read, at) ==
    LET from == SkipWhitespace(line, at)
        c == At(line, from)
    IN  CASE c = "lbrace" -> OpenList(line, read, "members", from + 1)
          [] c = "lbracket" -> OpenList(line, read, "elements", from + 1)
          [] c = "quote" -> read[<<"string", from + 1>>]
          [] c = "null" -> Reads(Null, from + 1)
          [] c \in DOMAIN Numbers -> Reads(Number(c), from + 1)
          [] OTHER -> Throws

\* A key with its value, as an object of its own.
KeyWithValue(key, value) ==
    IF value.ok THEN Reads(Object([k \in {key} |-> value.value]), value.at) ELSE Throws

ObjectMember(line, read, at) ==
    LET from == SkipWhitespace(line, at)
        key == read[<<"string", from + 1>>]
        colon == SkipWhitespace(line, key.at)
    IN  IF At(line, from) = "quote" /\ key.ok /\ At(line, colon) = "colon"
        THEN KeyWithValue(key.value.holds, Value(line, read, colon + 1))
        ELSE Throws

\* An element, as an array of its own.
Element(value) ==
    IF value.ok THEN Reads(Array(<<value.value>>), value.at) ELSE Throws

ArrayElement(line, read, at) == Element(Value(line, read, at))

Part(line, read, rule, at) ==
    IF rule = "members" THEN ObjectMember(line, read, at) ELSE ArrayElement(line, read, at)

\* Two parts of a list as one; a key that comes again replaces its value.
Together(first, rest) ==
    LET keys == DOMAIN first.holds \cup DOMAIN rest.holds
        holds(k) == IF k \in DOMAIN rest.holds THEN rest.holds[k] ELSE first.holds[k]
    IN  IF first.type = "object" THEN Object([k \in keys |-> holds(k)])
                                 ELSE Array(first.holds \o rest.holds)

\* One turn of the loops of parse_object() and parse_array(): a part, and behind it the end
\* of the list or a comma and the rest of it.
BehindPart(line, read, rule, first) ==
    LET next == SkipWhitespace(line, first.at)
        rest == read[<<rule, next + 1>>]
    IN  IF first.ok /\ At(line, next) = Closing(rule) THEN Reads(first.value, next + 1)
        ELSE IF first.ok /\ At(line, next) = "comma" /\ rest.ok
        THEN Reads(Together(first.value, rest.value), rest.at)
        ELSE Throws

ListStep(line, read, rule, at) ==
    BehindPart(line, read, rule, Part(line, read, rule, at))

\* What each rule reads from each position of a line.
Read(line) ==
    LET read[x \in (Lists \cup {"string"}) \X (1 .. Len(line) + 1)] ==
            IF x[1] = "string" THEN StringStep(line, read, x[2])
                               ELSE ListStep(line, read, x[1], x[2])
    IN  read

ParseValue(line, at) == Value(line, Read(line), at)

\* parse(): nothing but white space may follow.
ToTheEnd(line, parsed) ==
    IF parsed.ok /\ SkipWhitespace(line, parsed.at) = Len(line) + 1 THEN parsed ELSE Throws

\* Mutant of Parse: what is behind the value is not looked at.
ParseFirst(line) == ParseValue(line, 1)

Parse(line) == ToTheEnd(line, ParseValue(line, 1))

-----------------------------------------------------------------------------
(* What the runtime makes of an answer. *)

\* object_member() of a type, as a set of at most one.
MemberOf(value, name, type) ==
    IF value.type # "object" \/ <<name>> \notin DOMAIN value.holds THEN {}
    ELSE {m \in {value.holds[<<name>>]} : m.type = type}

BridgeReady(response) ==
    \E status \in MemberOf(response, "status", "string") : status.holds = <<"ready">>

\* A segment that makes sense, as a set of at most one.
Segments(value) ==
    {s \in {[start |-> Numbers[start.holds], end |-> Numbers[end.holds],
             text |-> text.holds] :
               start \in {m \in MemberOf(value, "start_seconds", "number") : m.holds # "NaN"},
               end \in {m \in MemberOf(value, "end_seconds", "number") : m.holds # "NaN"},
               text \in MemberOf(value, "text", "string")} :
       0 <= s.start /\ s.start <= s.end}

\* All the segments of a response, or none if a single one makes no sense.
Transcribed(response) ==
    LET lists == UNION {{a.holds} : a \in MemberOf(response, "segments", "array")}
        sensible == {list \in lists : \A i \in DOMAIN list : Segments(list[i]) # {}}
        chosen(list) == [i \in DOMAIN list |-> CHOOSE s \in Segments(list[i]) : TRUE]
    IN  IF ~BridgeReady(response) \/ sensible = {} THEN <<>>
        ELSE chosen(CHOOSE list \in sensible : TRUE)

\* parse_bridge_response() and what follows it in transcribe().
Heard(line) ==
    LET parsed == Parse(line)
    IN  IF parsed.ok THEN Transcribed(parsed.value) ELSE <<>>

-----------------------------------------------------------------------------
(* The script writes an answer with Python's json.dumps(). *)

Spelling ==
    [c \in {"quote", "backslash", "newline", "control"} |->
       CASE c = "quote" -> <<"backslash", "quote">>
         [] c = "backslash" -> <<"backslash", "backslash">>
         [] c = "newline" -> <<"backslash", "n">>
         [] c = "control" -> <<"backslash", "u", "0001">>]

Joined(parts) ==
    FoldLeft(LAMBDA done, p : IF done = <<>> THEN p ELSE done \o <<"comma", "space">> \o p,
             <<>>, parts)

Parts(value) == IF value.type \in {"array", "object"} THEN DOMAIN value.holds ELSE {}

\* A value, given how its parts are written.
Written(value, inner) ==
    LET keys == SetToSeq(DOMAIN value.holds)
        member(k) == Quoted(Spelled(Spelling, k)) \o <<"colon", "space">> \o inner[k]
    IN  CASE value.type = "string" -> Quoted(Spelled(Spelling, value.holds))
          [] value.type = "number" -> <<value.holds>>
          [] value.type = "null" -> <<"null">>
          [] value.type = "array" -> <<"lbracket">> \o Joined(inner) \o <<"rbracket">>
          [] value.type = "object" ->
               <<"lbrace">> \o Joined([i \in DOMAIN keys |-> member(keys[i])]) \o <<"rbrace">>

\* An answer, its lists, their segments and what is in those.
DumpsCell(value) == Written(value, <<>>)
DumpsSegment(value) == Written(value, [k \in Parts(value) |-> DumpsCell(value.holds[k])])
DumpsList(value) == Written(value, [k \in Parts(value) |-> DumpsSegment(value.holds[k])])
Dumps(value) == Written(value, [k \in Parts(value) |-> DumpsList(value.holds[k])])

IsScalar(value) ==
    \/ /\ value.type = "string"
       /\ value = Text(value.holds) /\ value.holds \in Seq(Characters)
    \/ /\ value.type = "number"
       /\ value = Number(value.holds) /\ value.holds \in DOMAIN Numbers
    \/ value.type = "null" /\ value = Null

IsList(value) ==
    \/ /\ value.type = "array"
       /\ value = Array(value.holds) /\ value.holds \in Seq(Range(value.holds))
    \/ /\ value.type = "object"
       /\ value = Object(value.holds)
       /\ value.holds \in [DOMAIN value.holds -> Range(value.holds)]
       /\ IsFiniteSet(DOMAIN value.holds) /\ DOMAIN value.holds \subseteq Seq(Characters)

\* What each of those writes.
IsValue(value) == IsScalar(value) \/ IsList(value)
IsCell(value) == IsValue(value) /\ Parts(value) = {}
IsSegment(value) == IsValue(value) /\ \A k \in Parts(value) : IsCell(value.holds[k])
IsSegments(value) == IsValue(value) /\ \A k \in Parts(value) : IsSegment(value.holds[k])
IsAnswer(value) ==
    /\ IsValue(value) /\ value.type = "object"
    /\ \A k \in Parts(value) : IsSegments(value.holds[k])

\* What an answer means: its segments, if it is ready and each of them has a time to begin,
\* one to end that is not earlier, and text; nothing otherwise.
HasMember(value, name, type) ==
    value.type = "object" /\ <<name>> \in DOMAIN value.holds /\ value.holds[<<name>>].type = type
IsTime(value, name) == HasMember(value, name, "number") /\ value.holds[<<name>>].holds # "NaN"
TimeOf(value, name) == Numbers[value.holds[<<name>>].holds]

IsSensible(value) ==
    /\ IsTime(value, "start_seconds") /\ IsTime(value, "end_seconds")
    /\ HasMember(value, "text", "string")
    /\ 0 <= TimeOf(value, "start_seconds")
    /\ TimeOf(value, "start_seconds") <= TimeOf(value, "end_seconds")

Meaning(value) ==
    LET list == value.holds[<<"segments">>].holds
    IN  IF /\ HasMember(value, "status", "string") /\ value.holds[<<"status">>].holds = <<"ready">>
           /\ HasMember(value, "segments", "array") /\ \A i \in DOMAIN list : IsSensible(list[i])
        THEN [i \in DOMAIN list |-> [start |-> TimeOf(list[i], "start_seconds"),
                                     end |-> TimeOf(list[i], "end_seconds"),
                                     text |-> list[i].holds[<<"text">>].holds]]
        ELSE <<>>

\* The script says nothing else: its answers are a dictionary, with a list of dictionaries.
ASSUME LinesAssumption ==
    /\ Strings \subseteq Seq(Characters)
    /\ \A said \in Said : IsAnswer(said.value) /\ said.segments = Meaning(said.value)

-----------------------------------------------------------------------------
LineInit == exchange = [op |-> "none"]

WriteRequest(path, language) ==
    /\ exchange.op = "none"
    /\ path # <<>> /\ language # <<>>
    /\ exchange' = [op |-> "request", path |-> path, language |-> language,
                    line |-> MakeInitializeRequest(path, language)]

\* An answer with white space around it or none, a part of one, or two in a line.
Intact(said) ==
    LET line == Dumps(said.value) IN {line, line \o <<"space">>, <<"newline">> \o line}
Damaged(said) ==
    LET line == Dumps(said.value)
    IN  ({SubSeq(line, from, to) : from \in {1, 2}, to \in 0 .. Len(line)} \ {line})
        \cup {line \o line}

HearAnswer(said) ==
    /\ exchange.op = "none"
    /\ \E line \in Intact(said) \cup Damaged(said) :
           exchange' = [op |-> "answer", said |-> said, line |-> line, heard |-> Heard(line)]

ForgetLine ==
    /\ exchange.op # "none"
    /\ exchange' = [op |-> "none"]

LineNext ==
    \/ ForgetLine
    \/ \E path, language \in Strings : WriteRequest(path, language)
    \/ \E said \in Said : HearAnswer(said)

LineSpec == LineInit /\ [][LineNext]_exchange

-----------------------------------------------------------------------------
\* What is read is a request with a path and a language.
IsRequest(read, path, language) ==
    LET holds(name, text) == read.value.holds[<<name>>] = Text(text)
    IN  /\ read.ok /\ read.value.type = "object"
        /\ holds("op", <<"initialize">>)
        /\ holds("model_path", path) /\ holds("language", language)

\* The lines between runtime and script (docs/setup.md:209 "one JSON object per stdin
\* line"): whatever a path or language holds, a request is one line and is read as what was
\* written; an answer is heard as it was said, white space around it aside; and of a part
\* of an answer, or two in one line, nothing is heard.
LinesAreUnderstood ==
    /\ exchange.op = "request" =>
         /\ \A i \in DOMAIN exchange.line : ~IsControl(exchange.line[i])
         /\ IsRequest(Parse(exchange.line), exchange.path, exchange.language)
    /\ exchange.op = "answer" =>
         exchange.heard = IF exchange.line \in Intact(exchange.said)
                          THEN exchange.said.segments ELSE <<>>

====
