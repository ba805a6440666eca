--------------------------- MODULE RenderMarkdown ---------------------------
(***************************************************************************)
(* GET /docs: render_markdown (src/main.rs) turns the documentation into   *)
(* HTML, line by line, and remembers in two flags which block is open.     *)
(*                                                                         *)
(* A line is its kind and, if it has text, the tokens of that text: words, *)
(* the two markers, and links, which are left as they are. A row is a line *)
(* between bars; a separator is one that contains `---`. Of the HTML only  *)
(* what opens, closes or stands alone is kept, as pairs: the head of the   *)
(* page, heading levels, where the cells of a row part and the escaping of *)
(* characters are left out.                                                *)
(***************************************************************************)
EXTENDS Integers, SequencesExt

CONSTANT Page       \* the documents looked at, as sequences of blocks (below)

VARIABLES
    page,           \* the blocks the author means
    document,       \* their lines
    next,           \* the next line of the loop
    in_code_block,
    in_table,
    html

pageVars == <<page, document, next, in_code_block, in_table, html>>

PageInit ==
    /\ page \in Page
    /\ document = FlattenSeq([b \in DOMAIN page |-> page[b].source])
    /\ next = 1
    /\ in_code_block = FALSE
    /\ in_table = FALSE
    /\ html = <<>>

Open(tag) == <<"open", tag>>

Close(tag) == <<"close", tag>>

Element(tag, content) == <<Open(tag)>> \o content \o <<Close(tag)>>

Escaped(text) == [k \in DOMAIN text |-> <<"text", text[k]>>]

(* One round of a loop of process_inline: the first two markers become tags;
   with fewer than two the loop ends. *)
TagOnePair(tokens, marker, tag) ==
    LET found == {k \in DOMAIN tokens : tokens[k] = <<"text", marker>>}
        start == Min(found)
        end == Min(found \ {start})
    IN  IF Cardinality(found) < 2 THEN tokens
        ELSE [k \in DOMAIN tokens |-> CASE k = start -> Open(tag)
                                          [] k = end   -> Close(tag)
                                          [] OTHER     -> tokens[k]]

TagPairs(tokens, marker, tag) ==
    LET after[rounds \in 0 .. Len(tokens)] ==
            IF rounds = 0 THEN tokens ELSE TagOnePair(after[rounds - 1], marker, tag)
    IN  after[Len(tokens)]

process_inline(text) ==
    TagPairs(TagPairs(Escaped(text), "tick", "code"), "stars", "strong")

-----------------------------------------------------------------------------

(* The loop comes to a line of a kind in `kinds`. *)
ComesTo(kinds) == next <= Len(document) /\ document[next].kind \in kinds

Emit(events) ==
    /\ html' = html \o events
    /\ next' = next + 1
    /\ UNCHANGED <<page, document>>

OpenCodeBlock ==
    /\ ComesTo({"fence"})
    /\ ~in_code_block
    /\ in_code_block' = TRUE
    /\ Emit(<<Open("pre"), Open("code")>>)
    /\ UNCHANGED in_table

CloseCodeBlock ==
    /\ ComesTo({"fence"})
    /\ in_code_block
    /\ in_code_block' = FALSE
    /\ Emit(<<Close("code"), Close("pre")>>)
    /\ UNCHANGED in_table

(* Inside a code block a line of any other kind is copied. *)
CodeLine ==
    /\ in_code_block
    /\ next <= Len(document)
    /\ document[next].kind # "fence"
    /\ Emit(<<<<"line", document[next].kind>>>>)
    /\ UNCHANGED <<in_code_block, in_table>>

Separator ==
    /\ ComesTo({"separator"})
    /\ ~in_code_block
    /\ Emit(<<>>)
    /\ UNCHANGED <<in_code_block, in_table>>

RowAfterFlag ==
    /\ ComesTo({"row"})
    /\ ~in_code_block
    /\ in_table' = TRUE
    /\ Emit((IF in_table THEN <<>> ELSE <<Open("table")>>)
              \o Element("tr", Element(IF in_table' THEN "td" ELSE "th",
                                       Escaped(document[next].text))))
    /\ UNCHANGED in_code_block

(* The first row of a table is its header. *)
Row ==
    /\ ComesTo({"row"})
    /\ ~in_code_block
    /\ in_table' = TRUE
    /\ Emit((IF in_table THEN <<>> ELSE <<Open("table")>>)
              \o Element("tr", Element(IF in_table THEN "td" ELSE "th",
                                       Escaped(document[next].text))))
    /\ UNCHANGED in_code_block

CloseTable == IF in_table THEN <<Close("table")>> ELSE <<>>

Rendered(line) ==
    CASE line.kind = "heading" -> Element("h", Escaped(line.text))
      [] line.kind = "rule"    -> <<<<"void", "hr">>>>
      [] line.kind = "item"    -> Element("li", process_inline(line.text))
      [] line.kind = "empty"   -> <<<<"void", "br">>>>
      [] line.kind = "text"    -> Element("p", process_inline(line.text))

(* Any line that is neither row nor fence closes a table. *)
OtherLine ==
    /\ ComesTo({"heading", "rule", "item", "empty", "text"})
    /\ ~in_code_block
    /\ in_table' = FALSE
    /\ Emit(CloseTable \o Rendered(document[next]))
    /\ UNCHANGED in_code_block

EndWithoutTable ==
    /\ next = Len(document) + 1
    /\ Emit(<<>>)
    /\ UNCHANGED <<in_code_block, in_table>>

EndOfPage ==
    /\ next = Len(document) + 1
    /\ Emit(CloseTable)
    /\ UNCHANGED <<in_code_block, in_table>>

PageDone == next = Len(document) + 2

Served == PageDone /\ UNCHANGED pageVars

PageNext ==
    \/ OpenCodeBlock \/ CloseCodeBlock \/ CodeLine
    \/ Separator \/ Row \/ OtherLine
    \/ EndOfPage \/ Served

PageSpec == PageInit /\ [][PageNext]_pageVars

-----------------------------------------------------------------------------
(***************************************************************************)
(* Blocks: what an author writes, with the lines it takes and the HTML it  *)
(* becomes in this dialect, which has code and bold in paragraphs and      *)
(* items only, and no links. Code may contain lines of any other look.     *)
(***************************************************************************)
MdLine(kind, text) == [kind |-> kind, text |-> text]

Block(kind, source, meaning) == [kind |-> kind, source |-> source, html |-> meaning]

CopyOf(lines) == [k \in DOMAIN lines |-> <<"line", lines[k].kind>>]

Code(lines) ==
    Block("code", <<MdLine("fence", <<>>)>> \o lines \o <<MdLine("fence", <<>>)>>,
          Element("pre", Element("code", CopyOf(lines))))

(* The author forgets the second fence. *)
UnclosedCode(lines) == Block("unclosed", <<MdLine("fence", <<>>)>> \o lines, CopyOf(lines))

(* The text of a row appears as it is typed, markers included. *)
TableRow(cell, text) == Element("tr", Element(cell, Escaped(text)))

(* A table of a header and the rows of these texts. *)
Table(rows) ==
    Block("table",
          <<MdLine("row", <<"word">>), MdLine("separator", <<>>)>>
              \o [k \in DOMAIN rows |-> MdLine("row", rows[k])],
          Element("table", TableRow("th", <<"word">>)
                               \o FlattenSeq([k \in DOMAIN rows |-> TableRow("td", rows[k])])))

Empty == Block("empty", <<MdLine("empty", <<>>)>>, <<<<"void", "br">>>>)

Rule == Block("rule", <<MdLine("rule", <<>>)>>, <<<<"void", "hr">>>>)

Heading == Block("heading", <<MdLine("heading", <<"word">>)>>, Element("h", Escaped(<<"word">>)))

(* Inline text is made of words, links, code and bold, none inside another.
   A link appears as it is typed. *)
SpanSource == [word |-> <<"word">>, link |-> <<"link">>, code |-> <<"tick", "word", "tick">>,
               bold |-> <<"stars", "word", "stars">>]

SpanHtml == [word  |-> Escaped(<<"word">>),
             link  |-> Escaped(<<"link">>),
             code  |-> Element("code", Escaped(<<"word">>)),
             bold  |-> Element("strong", Escaped(<<"word">>))]

Inline(kind, tag, spans) ==
    Block(kind, <<MdLine(kind, FlattenSeq([k \in DOMAIN spans |-> SpanSource[spans[k]]]))>>,
          Element(tag, FlattenSeq([k \in DOMAIN spans |-> SpanHtml[spans[k]]])))

Text(spans) == Inline("text", "p", spans)

Item(spans) == Inline("item", "li", spans)

-----------------------------------------------------------------------------

(* No fence is forgotten, and a line stands between a table and a table or
   code after it. *)
WellSpaced ==
    \A b \in DOMAIN page :
        /\ page[b].kind # "unclosed"
        /\ b > 1 /\ page[b - 1].kind = "table" => page[b].kind \notin {"table", "code"}

(* Although the renderer looks at one line at a time, it finds the blocks the
   author wrote: code is copied whatever its lines look like, each table has
   one header and ends with its last row, and the markers of a paragraph or
   an item are paired as they were opened (main.rs:98-161, 167-202). Of
   headings, cells and links it says that they appear as they are typed. *)
BlocksAsWritten ==
    PageDone /\ WellSpaced => html = FlattenSeq([b \in DOMAIN page |-> page[b].html])

(* The tags that are open after one more event. *)
After(open, event) ==
    CASE event[1] = "open"  -> Append(open, event[2])
      [] event[1] = "close" -> IF open # <<>> /\ Last(open) = event[2] THEN Front(open)
                               ELSE Append(open, "misplaced")
      [] OTHER              -> open

(* The tags that are open after a sequence of events. *)
Nesting(events) ==
    LET open[k \in 0 .. Len(events)] ==
            IF k = 0 THEN <<>> ELSE After(open[k - 1], events[k])
    IN  open[Len(events)]

(* As long as no fence is forgotten, every tag is closed, after those opened
   inside it: also where code directly follows a table, which leaves the
   table open around it (main.rs:102-111 comes before 137-140). *)
TagsNest ==
    PageDone /\ (\A b \in DOMAIN page : page[b].kind # "unclosed") => Nesting(html) = <<>>

=============================================================================
