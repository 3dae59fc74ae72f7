---- MODULE MCPlugin ----
(* Two filters and two log files; WAV files that are right or wrong in one or two *)
(* places; all requests over all probe results; versions and their spellings; and *)
(* what a path, a language or a text may hold that a line cannot.                 *)
EXTENDS Plugin

Mono8 == [tag |-> 1, channels |-> 1, rate |-> 8000, bits |-> 8, align |-> 1,
          byteRate |-> 8000]
Stereo16 == [tag |-> 1, channels |-> 2, rate |-> 48000, bits |-> 16, align |-> 4,
             byteRate |-> 192000]
Formats == {Mono8, Stereo16, [Mono8 EXCEPT !.tag = 3], [Mono8 EXCEPT !.bits = 12],
            [Mono8 EXCEPT !.channels = 0], [Mono8 EXCEPT !.rate = 384001],
            [Stereo16 EXCEPT !.align = 2], [Stereo16 EXCEPT !.byteRate = 8000]}

Fmt(format) == [id |-> "fmt", size |-> 16, format |-> format]
Data(n) == [id |-> "data", size |-> n]
List(n) == [id |-> "LIST", size |-> n]

Layouts ==
    {<<Fmt(f), Data(n)>> : f \in {Mono8, Stereo16}, n \in {0, 1, 4, 7, 8}}
    \cup {<<Fmt(f), Data(4)>> : f \in Formats}
    \cup {<<Data(4), Fmt(Stereo16)>>, <<List(3), Fmt(Mono8), List(0), Data(3)>>,
          <<Fmt(Mono8), Fmt(Mono8), Data(2)>>, <<Fmt(Mono8), Data(2), Data(2)>>,
          <<[Fmt(Mono8) EXCEPT !.size = 18], Data(2)>>, <<Fmt(Mono8), Data(2), List(40)>>,
          <<[Fmt(Mono8) EXCEPT !.size = 14], Data(2)>>, <<Fmt(Mono8)>>, <<Data(2)>>,
          <<List(2)>>, <<>>}

LayoutEnd(chunks) == FoldLeft(LAMBDA at, c : at + Padded(c), 12, chunks)

\* A RIFF size that is right or off by one, in a file that is as long as its chunks or one
\* byte longer or shorter.
Local ==
    {[place |-> "local", size |-> LayoutEnd(chunks) + cut, wave |-> TRUE,
      riff |-> LayoutEnd(chunks) - 8 + off, extension |-> TRUE, chunks |-> chunks]
       : chunks \in Layouts, off \in -1 .. 1, cut \in -1 .. 1}

Sample == [place |-> "local", size |-> 38, wave |-> TRUE, riff |-> 30, extension |-> TRUE,
           chunks |-> <<Fmt(Mono8), Data(2)>>]

MCWavFiles ==
    Local \cup {[Sample EXCEPT !.place = p] :
                  p \in {"empty_path", "remote_source", "missing", "not_regular_file",
                         "unreadable", "too_large"}}
          \cup {[Sample EXCEPT !.wave = FALSE], [Sample EXCEPT !.riff = 3],
                [Sample EXCEPT !.size = 0],
                [Sample EXCEPT !.size = 11], [Sample EXCEPT !.size = 90],
                [Sample EXCEPT !.extension = FALSE]}

MCRequests ==
    [backend : {"auto", "cpu", "cuda"}, model : ModelIds, language : Languages]

\* Flags that the details contradict, confirm or say nothing of.
MCEvidence ==
    UNION {{[flags |-> flags, details |-> details, platform |-> platform] :
              flags \in SUBSET Backends, details \in [told -> ProbeStatus],
              platform \in Platforms} : told \in SUBSET Backends}

Chars(string) == [i \in 1 .. Len(string) |-> SubSeq(string, i, i)]
Spellings(strings) == {Chars(s) : s \in strings}

\* Numbers up to 99, of which more digits are text in a pre-release.
MCLadder ==
    <<Spellings({"0.0.0-0", "v0.0.0-0"}), Spellings({"0.0.0"}), Spellings({"0.9.10"}),
      Spellings({"1.0.0-0"}), Spellings({"1.0.0-2"}), Spellings({"1.0.0-10"}),
      Spellings({"1.0.0-99"}), Spellings({"1.0.0-100"}), Spellings({"1.0.0-a", "v1.0.0-a "}),
      Spellings({"1.0.0-a.1"}), Spellings({"1.0.0-a.9"}), Spellings({"1.0.0-a.12"}),
      Spellings({"1.0.0-a.a"}), Spellings({"1.0.0-a.a.0"}), Spellings({"1.0.0-a-b"}),
      Spellings({"1.0.0-a0"}), Spellings({"1.0.0-ab"}), Spellings({"1.0.0-b"}),
      Spellings({"1.0.0", " v1.0.0", "1.0.0+ab.1"}), Spellings({"1.0.1"}),
      Spellings({"1.9.0"}), Spellings({"1.10.0"}), Spellings({"99.0.0"})>>

MCMalformed ==
    Spellings({"", "v", "1", "1.0", "1.0.0.0", "01.0.0", "1.0.00", "100.0.0", "1.0.0-",
               "1.0.0-a..b", "1.0.0-01", "1.0.0-a.", "1.0.0a", "1.0.0-_", "1.0.0+", "1.0. 0"})

\* Every kind of character alone, and after one another those that escapes are made of.
Hard == {"a", "space", "quote", "backslash", "newline", "control", "n", "u"}
Escaping == {"quote", "backslash", "control", "n", "u"}
MCStrings == {<<>>} \cup {<<c>> : c \in Hard} \cup {<<c, d>> : c, d \in Escaping}
MCCharacters == Marks \cup Words \cup DOMAIN Numbers \cup {"a", "error"}

With(key, value) == <<key>> :> value
Answer(status, list) == Object(With("status", Text(<<status>>)) @@ With("segments", list))
Spoken(start, end, text) ==
    Object(With("start_seconds", Number(start)) @@ With("end_seconds", Number(end))
           @@ With("text", text))
First(text) == [start |-> 0, end |-> 1, text |-> text]

\* Answers that are right, and answers that are wrong in one place.
MCSaid ==
    {[value |-> Answer("ready", Array(<<Spoken("0", "1", Text(t))>>)),
      segments |-> <<First(t)>>] : t \in MCStrings}
    \cup {[value |-> Answer("ready", Array(<<Spoken("0", "1", Text(<<"a">>)),
                                            Spoken("1", "2", Text(<<>>))>>)),
           segments |-> <<First(<<"a">>), [start |-> 1, end |-> 2, text |-> <<>>]>>]}
    \cup {[value |-> v, segments |-> <<>>] :
            v \in {Answer("ready", Array(<<>>)), Answer("ready", Null), Answer("ready", Number("1")),
                   Answer("error", Array(<<Spoken("0", "1", Text(<<"a">>))>>)),
                   Object(With("segments", Array(<<Spoken("0", "1", Text(<<"a">>))>>))),
                   Object(With("status", Number("1"))), Object(<<>>),
                   Object(With("status", Text(<<"ready">>)))}
                  \cup {Answer("ready", Array(<<Spoken("0", "1", Text(<<"a">>)), wrong>>)) :
                           wrong \in {Spoken("2", "1", Text(<<>>)), Spoken("-1", "1", Text(<<>>)),
                                     Spoken("NaN", "1", Text(<<>>)), Spoken("0", "1", Number("1")),
                                     Number("1"), Object(<<>>), Array(<<>>)}}}

====
