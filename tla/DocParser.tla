------------------------------- MODULE DocParser -------------------------------
(***************************************************************************)
(* The translation of the blocks of a document into Markdown               *)
(* (core/parsers/docx_parser.py): the tree of the blocks, which the API    *)
(* lists flat, is walked from the page down, each block adds lines to the  *)
(* MarkdownBuilder, and _consumed_blocks keeps what a table has shown in   *)
(* its cells from being shown again.  The recursion of _render_block_tree  *)
(* is a list of the calls that are still to be made.                       *)
(*                                                                         *)
(* Of a block only the kind counts that decides how it is walked and what  *)
(* kind of line it adds; of a line, the blocks whose text is in it.        *)
(* The heading of the title, which comes before all lines, and the second  *)
(* call for the root, whose block has been consumed by then, are left out. *)
(***************************************************************************)
EXTENDS Integers, Sequences, FiniteSets

CONSTANT
  BlockCount          \* bound: blocks, the page not counted

ASSUME ParserAssumption == BlockCount \in Nat

VARIABLES
  kind,               \* the kind of each block (_normalise_block_type)
  parent,             \* parent_id of each block
  calls,              \* calls of _render_block_tree to come, outermost last
  consumed,           \* _consumed_blocks
  lines,              \* _lines
  inList              \* _in_list

parserState == <<kind, parent, calls, consumed, lines, inList>>

Page   == 0
Blocks == 1..BlockCount

(* text: everything that adds a paragraph of its own (paragraphs, headings,*)
(* quotes, code, placeholders of what has a text); image: a placeholder    *)
(* without a text; item: bullet, ordered, todo; hollow: an item without a  *)
(* text; box: nothing of its own (containers, empty paragraphs).           *)
Leaves == {"text", "image", "item", "hollow", "box"}
Kinds  == Leaves \cup {"table", "cell", "grid", "column"}
Lists  == {"item", "hollow"}

KindOf(b) == IF b = Page THEN "page" ELSE kind[b]

(* The blocks are numbered in the order of the document, in which what is  *)
(* below a block follows it at once; of the order they are listed in only  *)
(* that among siblings matters.                                            *)
InDocumentNumbers ==
  /\ \A b \in Blocks : parent[b] < b
  /\ \A b, c \in Blocks : parent[b] < c /\ c < b => parent[b] <= parent[c]

Above(b) == {a \in 0..(b - 1) : \A c \in (a + 1)..b : a <= parent[c]}

(* The documents of Feishu: tables hold cells and grids hold columns.       *)
WellFormed ==
  \A b \in Blocks :
    /\ kind[b] = "cell" <=> KindOf(parent[b]) = "table"
    /\ kind[b] = "column" <=> KindOf(parent[b]) = "grid"

(* A line shows the blocks whose text is in it, in parts: those of a table *)
(* are its cells.                                                          *)
Lines == [shape : {"blank", "text", "item"}, shows : Seq(Seq(Blocks)), indent : Nat]
Blank == [shape |-> "blank", shows |-> <<>>, indent |-> 0]
Text(shows) == [shape |-> "text", shows |-> shows, indent |-> 0]
Item(b, indent) == [shape |-> "item", shows |-> <<<<b>>>>, indent |-> indent]

ParserTypeOK ==
  /\ kind \in [Blocks -> Kinds] /\ parent \in [Blocks -> Blocks \cup {Page}]
  /\ calls \in Seq([block : Blocks \cup {Page}, under : Kinds \cup {"none", "page"}, level : Nat])
  /\ consumed \subseteq Blocks \cup {Page}
  /\ lines \in Seq(Lines)
  /\ inList \in BOOLEAN
  /\ inList => lines # <<>> /\ lines[Len(lines)].shape = "item"

ParserInit ==
  /\ parent \in [Blocks -> Blocks \cup {Page}]
  /\ InDocumentNumbers
  /\ kind \in [Blocks -> Kinds]
  /\ WellFormed
  /\ calls = <<[block |-> Page, under |-> "none", level |-> 0]>>
  /\ consumed = {} /\ lines = <<>> /\ inList = FALSE

-----------------------------------------------------------------------------
(* MarkdownBuilder.                                                        *)

LastIsBlank == lines = <<>> \/ lines[Len(lines)] = Blank

(* add_paragraph; add_heading, add_quote and the like flush the list with  *)
(* the same effect.                                                        *)
AddText(line) ==
  /\ lines' = lines \o (IF inList /\ ~LastIsBlank THEN <<Blank>> ELSE <<>>) \o <<line, Blank>>
  /\ inList' = FALSE

(* add_list_item, add_todo.                                                *)
AddItem(line) ==
  /\ lines' = lines \o (IF ~inList /\ ~LastIsBlank THEN <<Blank>> ELSE <<>>) \o <<line>>
  /\ inList' = TRUE

-----------------------------------------------------------------------------
(* The walk.                                                               *)

Call == calls[1]
Block == Call.block

InOrder(blocks) ==
  [i \in 1..Cardinality(blocks) |->
     CHOOSE b \in blocks : Cardinality({c \in blocks : c < b}) = i - 1]

(* _children_index: in the order of the listing.                           *)
ChildrenOf(b) == InOrder({c \in Blocks : parent[c] = b})

(* The children are walked next.                                           *)
WalkInto(level) ==
  calls' = [i \in DOMAIN ChildrenOf(Block) |->
              [block |-> ChildrenOf(Block)[i], under |-> KindOf(Block), level |-> level]]
           \o Tail(calls)

Pending(b) == calls # <<>> /\ b = Block /\ b \notin consumed
Consume(blocks) == consumed' = consumed \cup blocks

SkipConsumed ==
  /\ calls # <<>> /\ Block \in consumed
  /\ calls' = Tail(calls)
  /\ UNCHANGED <<kind, parent, consumed, lines, inList>>

NextLevel == IF Call.under \in Lists THEN Call.level ELSE 0

RenderPage ==
  /\ Pending(Page)
  /\ WalkInto(0)
  /\ Consume({Page})
  /\ UNCHANGED <<kind, parent, lines, inList>>

RenderText(b) ==
  /\ Pending(b) /\ kind[b] = "text"
  /\ AddText(Text(<<<<b>>>>))
  /\ Consume({b}) /\ WalkInto(NextLevel)
  /\ UNCHANGED <<kind, parent>>

(* Images, attachments, whiteboards, sheets, cards of other applications.  *)
RenderPlaceholder(b) ==
  /\ Pending(b) /\ kind[b] = "image"
  /\ AddText(Text(<<<<b>>>>))
  /\ Consume({b}) /\ WalkInto(NextLevel)
  /\ UNCHANGED <<kind, parent>>

RenderBox(b) ==
  /\ Pending(b) /\ kind[b] \in {"box", "cell"}
  /\ Consume({b}) /\ WalkInto(NextLevel)
  /\ UNCHANGED <<kind, parent, lines, inList>>

(* _resolve_list_indent of a block with no indent of its own.              *)
ListIndent(call) ==
  IF call.under \in Lists THEN call.level ELSE 0

RenderItem(b) ==
  /\ Pending(b) /\ kind[b] \in Lists
  /\ IF kind[b] = "item" THEN AddItem(Item(b, ListIndent(Call))) ELSE UNCHANGED <<lines, inList>>
  /\ Consume({b}) /\ WalkInto(ListIndent(Call) + 1)
  /\ UNCHANGED <<kind, parent>>

InCells(b) == {c \in Blocks : \E cell \in Blocks : parent[c] = cell /\ parent[cell] = b}

(* The texts of the blocks directly in the cells; an image has none.       *)
CellText(cell) == InOrder({c \in Blocks : parent[c] = cell /\ kind[c] \in {"text", "item"}})
TextsInCells(b) == [k \in DOMAIN ChildrenOf(b) |-> CellText(ChildrenOf(b)[k])]

(* Faulty variant: the cells are consumed, what is in them is not, and the *)
(* walk goes on to them.                                                   *)
ConsumedByTableOnly(b) == {b}

(* A table consumes its cells and what is directly in them, and so keeps   *)
(* the walk from whatever is below that.                                   *)
ConsumedByTable(b) ==
  {b} \cup {cell \in Blocks : parent[cell] = b} \cup InCells(b)

RenderTable(b) ==
  /\ Pending(b) /\ kind[b] = "table"
  /\ AddText(Text(<<<<b>>>> \o TextsInCells(b)))
  /\ Consume(ConsumedByTable(b))
  /\ WalkInto(NextLevel)
  /\ UNCHANGED <<kind, parent>>

RenderGrid(b) ==
  /\ Pending(b) /\ kind[b] = "grid"
  /\ Consume({b}) /\ WalkInto(Call.level)
  /\ UNCHANGED <<kind, parent, lines, inList>>

(* A column among others gets a title.                                     *)
RenderColumn(b) ==
  /\ Pending(b) /\ kind[b] = "column"
  /\ IF Len(ChildrenOf(parent[b])) > 1
     THEN AddText(Text(<<>>))
     ELSE UNCHANGED <<lines, inList>>
  /\ Consume({b}) /\ WalkInto(0)
  /\ UNCHANGED <<kind, parent>>

ParserNext ==
  \/ SkipConsumed \/ RenderPage
  \/ \E b \in Blocks :
       \/ RenderText(b) \/ RenderPlaceholder(b) \/ RenderBox(b) \/ RenderItem(b)
       \/ RenderTable(b) \/ RenderGrid(b) \/ RenderColumn(b)

ParserSpec == ParserInit /\ [][ParserNext]_parserState

-----------------------------------------------------------------------------
(* Properties.                                                             *)

ShownIn(line) ==
  {b \in Blocks : \E k \in DOMAIN line.shows : \E n \in DOMAIN line.shows[k] : line.shows[k][n] = b}

Shown == UNION {ShownIn(lines[i]) : i \in DOMAIN lines}

Rising(part) == \A m, n \in DOMAIN part : m < n => part[m] < part[n]

RisingLine(line) ==
  /\ \A k \in DOMAIN line.shows : Rising(line.shows[k])
  /\ \A k, l \in DOMAIN line.shows :
       k < l => \A m \in DOMAIN line.shows[k], n \in DOMAIN line.shows[l] :
                  line.shows[k][m] < line.shows[l][n]

(* The text of the document comes out in its order and none of it twice,   *)
(* though tables show blocks that the walk meets again.                    *)
InDocumentOrder ==
  /\ \A i \in DOMAIN lines : RisingLine(lines[i])
  /\ \A i, j \in DOMAIN lines :
       i < j => \A b \in ShownIn(lines[i]), c \in ShownIn(lines[j]) : b < c

(* In the end everything with a text or a placeholder is shown, but for    *)
(* what a table has no place for: images, and blocks below those that are  *)
(* directly in a cell.                                                     *)
InTable(b) == \E a \in Above(b) : KindOf(a) = "table"

NothingLost ==
  calls = <<>> =>
    \A b \in Blocks :
      \/ b \in Shown
      \/ kind[b] \notin {"text", "image", "item", "table"}
      \/ /\ InTable(b)
         /\ \/ kind[b] \notin {"text", "item"}
            \/ KindOf(parent[b]) # "cell"
            \/ InTable(parent[parent[b]])

(* The text of a document is rendered in its order, no block twice, and     *)
(* none is left out.                                                       *)
TextComesThrough == InDocumentOrder /\ NothingLost

=============================================================================
