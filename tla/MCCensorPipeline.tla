---- MODULE MCCensorPipeline ----
(* CensorPipeline over a four-frame axis: chunks of every length at every place, fit *)
(* for use or not, four configurations, and answers whose segments touch, overlap,   *)
(* contain each other, round to nothing, reach over the chunk or make no sense.      *)
EXTENDS CensorPipeline

MCRates == {Rate, Rate + 1}

Whole1 == [caseSensitive |-> FALSE, boundary |-> "whole_word", separator |-> TRUE]
Exact == [caseSensitive |-> TRUE, boundary |-> "whole_text", separator |-> FALSE]

MCConfigs == {
    MakePipelineConfig(<<" ", "A", "b", ",", " ", ";", "b", " ", "newline", ",">>),
    [MakePipelineConfig(<<"a", "-", "b", " ", ",", "-", ",", "A", "-", "b">>)
       EXCEPT !.matching = Whole1, !.delay = 1, !.fade = 1],
    [MakePipelineConfig(<<"a", "newline", "newline", "b", " ", " ", "b">>)
       EXCEPT !.matching = Whole1, !.delay = -1, !.fade = 2,
              !.sound = 1, !.soundRate = Rate + 1],
    [MakePipelineConfig(<<"A", "b", ";", "a", "b">>)
       EXCEPT !.matching = Exact, !.fade = 1, !.sound = 2, !.soundRate = Rate]}

\* Speaks a phrase of all but the last configuration; of none.
Hit == <<"a", "b", " ", "a", " ", "b">>
Miss == <<"_">>

Texts == {<<"a", "b">>, <<"A", "b">>, <<"a", " ", "b">>, <<"a", " ", "-", "b">>,
          <<"b", "a">>, <<"_", "A", "_">>, <<" ", "a", " ", " ", "b", " ">>,
          <<"b", ",", "a", "-", "b">>, <<"a", "newline", " ", "b", ";">>}

At(start, end, text) == [start |-> start, end |-> end, text |-> text]

MCAnswers ==
    {{}} \cup {{At(0, 3, text)} : text \in Texts}
         \cup {{At(0, 2, Hit), At(2, 4, Hit)}, {At(0, 6, Hit), At(2, 4, Hit)},
               {At(4, 6, Hit), At(0, 1, Hit)}, {At(2, 5, Hit), At(0, 3, Hit)},
               {At(4, 9, Hit)}, {At(1, 2, Hit)}, {At(3, 3, Hit)},
               {At(0, 2, Miss), At(1, 4, Hit)}, {At(0, 2, Hit), At(3, 1, Miss)},
               {At(-1, 2, Hit)}}

====
