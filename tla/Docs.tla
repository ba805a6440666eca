-------------------------------- MODULE Docs --------------------------------
(***************************************************************************)
(* DOCUMENTATION (src/docs.rs): the page that GET /docs renders, as its    *)
(* blocks. Every section but the first begins with a rule and a heading.   *)
(***************************************************************************)
EXTENDS RenderMarkdown

(* n lines of code or data. *)
Listing(n) == Code([k \in 1 .. n |-> MdLine("text", <<>>)])

(* Rows of plain text, of a name and its meaning, and of a variable with its
   default and its meaning. *)
PlainRows(n) == [k \in 1 .. n |-> <<"word">>]

NameRows(n) == [k \in 1 .. n |-> <<"tick", "word", "tick", "word">>]

VariableRow(meaning) == <<"tick", "word", "tick", "tick", "word", "tick">> \o meaning

VariableRows ==
    <<VariableRow(<<"word">>), VariableRow(<<"word">>),
      VariableRow(<<"tick", "word", "tick", "word", "tick", "word", "tick">>),
      VariableRow(<<"word">>)>>

Plain == Text(<<"word">>)

Label == Text(<<"bold">>)

Setting == Text(<<"bold", "word", "code">>)

Naming == Text(<<"word", "code", "word">>)

DocSection(body) == <<Empty, Rule, Empty, Heading, Empty>> \o body

Example(n) == <<Empty, Label, Listing(n)>>

(* Quick Start, gRPC API, Beatmap Source, CalculateDifficulty,
   CalculatePerformance. *)
Calls ==
    <<Heading, Empty, Text(<<"word", "link", "word">>), Empty, Heading, Empty, Listing(10)>>
    \o DocSection(<<Setting, Setting, Empty, Heading, Empty, Table(NameRows(7))>>)
    \o DocSection(<<Plain, Empty, Listing(6)>> \o Example(3) \o Example(3))
    \o DocSection(<<Plain>> \o Example(5) \o Example(4)
               \o <<Empty, Label, Item(<<"code", "word">>), Item(<<"code", "word">>),
                    Item(<<"word">>)>>)
    \o DocSection(<<Plain>> \o Example(6) \o Example(5))

(* DifficultySettings, ScoreParams, Mods, HitResultPriority, Lazer vs
   Stable, GameMode. *)
Parameters ==
    DocSection(<<Listing(15)>>)
    \o DocSection(<<Listing(14)>>)
    \o DocSection(<<Plain, Empty, Table(PlainRows(6)), Empty, Label>>
               \o [k \in 1 .. 3 |-> Item(<<"word", "code">>)])
    \o DocSection(<<Naming, Empty, Listing(5), Empty, Text(<<"bold", "word", "code", "word">>)>>)
    \o DocSection(<<Naming, Empty, Listing(5), Empty, Label, Item(<<"word">>), Item(<<"word">>)>>)
    \o DocSection(<<Listing(7), Empty, Plain, Listing(1)>>)

(* GetStrains, GetBeatmapInfo, Gradual Calculation, Batch Calculation. *)
MoreCalls ==
    DocSection(<<Plain, Empty, Listing(3)>> \o Example(10))
    \o DocSection(<<Plain, Empty, Listing(3)>> \o Example(13))
    \o DocSection(<<Heading, Empty, Plain, Empty, Listing(3), Empty,
                 Heading, Empty, Plain, Empty, Listing(4)>>)
    \o DocSection(<<Plain, Empty, Listing(7)>>)

(* HTTP Endpoints, Caching, Environment Variables, Docker, Error Codes,
   Proto File. *)
Operation ==
    DocSection(<<Table(NameRows(4))>>)
    \o DocSection(<<Text(<<"word", "code", "word", "code", "word">>), Empty, Listing(8), Empty,
                 Plain, Listing(1)>>)
    \o DocSection(<<Table(VariableRows)>>)
    \o DocSection(<<Listing(11)>> \o Example(9))
    \o DocSection(<<Table(NameRows(3))>>)
    \o DocSection(<<Text(<<"word", "link">>), Empty, Listing(9)>>)

DOCUMENTATION == Calls \o Parameters \o MoreCalls \o Operation

=============================================================================
