-------------------------------- MODULE Layout --------------------------------
(* The geometry of a tmux window, in the three forms the driver converts between: the tree *)
(* of cells that a layout string parses to, the string itself, and the desired tree of a   *)
(* session template, which has proportions but neither sizes nor panes.                    *)
(*                                                                                         *)
(* A layout string is a sequence of tokens <<kind, value>>: a number is one token "n", the *)
(* checksum prefix one token "sum", every other character a token of its own.  The module  *)
(* is pure; MCTemplate checks it over bounded trees, strings and sizes.                    *)
EXTENDS Integers, FiniteSets, SequencesExt

\* A leaf of a layout string with no pane, and the result of a parse that threw.
NoPane == -1
Malformed == [ok |-> FALSE]

Num(v) == <<"n", v>>
Mark(c) == <<c, 0>>

\* LeafCell and SplitCell: "h" is {} side by side, "v" is [] stacked, "leaf" one pane.
Leaf(w, h, x, y, p) ==
    [dir |-> "leaf", w |-> w, h |-> h, x |-> x, y |-> y, pane |-> p, kids |-> <<>>]
Split(dir, w, h, x, y, kids) ==
    [dir |-> dir, w |-> w, h |-> h, x |-> x, y |-> y, pane |-> NoPane, kids |-> kids]

-------------------------------------------------------------------------------
(* The checksum: rotate right by one bit, add the character, keep 16 bits.                 *)

RECURSIVE Digits(_)
Digits(v) == IF v < 10 THEN <<48 + v>> ELSE Append(Digits(v \div 10), 48 + (v % 10))

Code == [c \in {"x", ",", "{", "}", "[", "]"} |->
           CASE c = "x" -> 120 [] c = "," -> 44 [] c = "{" -> 123
             [] c = "}" -> 125 [] c = "[" -> 91 [] c = "]" -> 93]
Characters(body) ==
    FlattenSeq([i \in DOMAIN body |-> IF body[i][1] = "n" THEN Digits(body[i][2])
                                                          ELSE <<Code[body[i][1]]>>])

LayoutChecksum(body) ==
    FoldLeft(LAMBDA csum, ch : ((csum \div 2) + (csum % 2) * 2 ^ 15 + ch) % 2 ^ 16,
             0, Characters(body))

-------------------------------------------------------------------------------
(* The recursive descent.  A parse at position i gives the cell and the position after it. *)

Is(s, i, c) == i <= Len(s) /\ s[i][1] = c

\* <width>x<height>,<x>,<y>
Geometry == <<"n", "x", "n", ",", "n", ",", "n">>
ParseGeometry(s, i) == \A j \in DOMAIN Geometry : Is(s, i + j - 1, Geometry[j])

\* The digits after a leaf's comma are its pane, unless an "x" follows: then they are the
\* width of the next sibling, and the leaf has none.
PaneFollows(s, e) == Is(s, e, ",") /\ Is(s, e + 1, "n") /\ ~Is(s, e + 2, "x")

RECURSIVE ParseCell(_, _), ParseChildren(_, _, _)

Closed(s, i, e, dir, close) ==
    LET inner == ParseChildren(s, e + 1, <<>>)
    IN  IF inner.ok /\ Is(s, inner.next, close)
        THEN [ok |-> TRUE, next |-> inner.next + 1,
              cell |-> Split(dir, s[i][2], s[i + 2][2], s[i + 4][2], s[i + 6][2], inner.cells)]
        ELSE Malformed

ParseCell(s, i) ==
    LET e == i + Len(Geometry)
    IN  IF ~ParseGeometry(s, i) THEN Malformed
        ELSE IF Is(s, e, "{") THEN Closed(s, i, e, "h", "}")
        ELSE IF Is(s, e, "[") THEN Closed(s, i, e, "v", "]")
        ELSE [ok |-> TRUE, next |-> IF PaneFollows(s, e) THEN e + 2 ELSE e,
              cell |-> Leaf(s[i][2], s[i + 2][2], s[i + 4][2], s[i + 6][2],
                            IF PaneFollows(s, e) THEN s[e + 1][2] ELSE NoPane)]

ParseChildren(s, i, cells) ==
    LET one == ParseCell(s, i)
    IN  IF ~one.ok THEN Malformed
        ELSE IF Is(s, one.next, ",") THEN ParseChildren(s, one.next + 1, Append(cells, one.cell))
        ELSE [ok |-> TRUE, next |-> one.next, cells |-> Append(cells, one.cell)]

\* A wrong checksum is reported, not refused; trailing input is refused.
ParseLayout(s) ==
    IF ~(Is(s, 1, "sum") /\ Is(s, 2, ",")) THEN Malformed
    ELSE LET body == SubSeq(s, 3, Len(s))
             one == ParseCell(body, 1)
         IN  IF ~one.ok \/ one.next /= Len(body) + 1 THEN Malformed
             ELSE [ok |-> TRUE, root |-> one.cell, checksum |-> s[1][2],
                   computed |-> LayoutChecksum(body)]

-------------------------------------------------------------------------------
(* The way back: layout_append of tmux, and the same for the string the parser read.       *)

Joined(texts) ==
    FlattenSeq([i \in DOMAIN texts |-> IF i = 1 THEN texts[1] ELSE <<Mark(",")>> \o texts[i]])

RECURSIVE DumpCell(_)
DumpCell(c) ==
    LET geo == <<Num(c.w), Mark("x"), Num(c.h), Mark(","), Num(c.x), Mark(","), Num(c.y)>>
        kids == Joined([i \in DOMAIN c.kids |-> DumpCell(c.kids[i])])
    IN  CASE c.dir = "h" -> geo \o <<Mark("{")>> \o kids \o <<Mark("}")>>
          [] c.dir = "v" -> geo \o <<Mark("[")>> \o kids \o <<Mark("]")>>
          [] OTHER -> IF c.pane = NoPane THEN geo ELSE geo \o <<Mark(","), Num(c.pane)>>

DumpLayout(cell) ==
    <<<<"sum", LayoutChecksum(DumpCell(cell))>>, Mark(",")>> \o DumpCell(cell)

-------------------------------------------------------------------------------
(* From proportions to cells.                                                              *)

SumOf(f) == FoldLeft(LAMBDA a, b : a + b, 0, f)

(* Sizes for n panes that sum to total: one cell each, the rest by weight, and what the    *)
(* rounding leaves to the largest remainders, the earlier child first among equals.  The   *)
(* code's fractions are floats; these are exact.  A total below n is split evenly instead. *)
DistributeSizes(total, weights) ==
    LET n == Len(weights)
        even == [i \in 1 .. n |-> total \div n + (IF i <= total % n THEN 1 ELSE 0)]
        w == IF SumOf(weights) > 0 THEN weights ELSE [i \in 1 .. n |-> 1]
        share == [i \in 1 .. n |-> (total - n) * w[i]]
        floor == [i \in 1 .. n |-> share[i] \div SumOf(w)]
        rest == [i \in 1 .. n |-> share[i] % SumOf(w)]
        ahead == [i \in 1 .. n |-> {j \in 1 .. n : rest[j] > rest[i] \/ (rest[j] = rest[i] /\ j < i)}]
        leftover == (total - n) - SumOf(floor)
    IN  IF n = 1 THEN <<total>>
        ELSE IF total < n THEN even
        ELSE [i \in 1 .. n |-> 1 + floor[i] + (IF Cardinality(ahead[i]) < leftover THEN 1 ELSE 0)]

\* Equal weights for a split that names none (sizes = <<>>) or names too many or too few.
WeightsFor(node) ==
    IF Len(node.sizes) = Len(node.children) THEN node.sizes
    ELSE [i \in DOMAIN node.children |-> 1]

\* Where the i-th child starts: after the children before it and a separator for each.
OffsetOf(sizes, i) == SumOf(SubSeq(sizes, 1, i - 1)) + (i - 1)

(* A template's node in a rectangle: leaves with no pane, which select-layout assigns by   *)
(* their position.                                                                         *)
RECURSIVE GeometryToCell(_, _, _, _, _)
GeometryToCell(node, sx, sy, x, y) ==
    LET gaps == Len(node.children) - 1
        across == DistributeSizes(sx - gaps, WeightsFor(node))
        down == DistributeSizes(sy - gaps, WeightsFor(node))
    IN  CASE node.kind = "pane" -> Leaf(sx, sy, x, y, NoPane)
          [] node.kind = "hsplit" ->
               Split("h", sx, sy, x, y, [i \in DOMAIN node.children |->
                   GeometryToCell(node.children[i], across[i], sy, x + OffsetOf(across, i), y)])
          [] node.kind = "vsplit" ->
               Split("v", sx, sy, x, y, [i \in DOMAIN node.children |->
                   GeometryToCell(node.children[i], sx, down[i], x, y + OffsetOf(down, i))])

SerializeGeometry(node, cols, rows) == DumpLayout(GeometryToCell(node, cols, rows, 0, 0))

-------------------------------------------------------------------------------
(* From cells to the wire's tree and to a template's.                                      *)

RECURSIVE LeavesOf(_)
LeavesOf(c) ==
    IF c.dir = "leaf" THEN <<c>> ELSE FlattenSeq([i \in DOMAIN c.kids |-> LeavesOf(c.kids[i])])

\* layout_check of tmux: the children and their separators fill the split exactly.
RECURSIVE LayoutCheck(_)
LayoutCheck(c) ==
    \/ /\ c.dir = "leaf"
       /\ c.w >= 1 /\ c.h >= 1
    \/ LET size(k) == IF c.dir = "h" THEN k.w ELSE k.h
           span(k) == IF c.dir = "h" THEN k.h ELSE k.w
       IN  /\ c.dir /= "leaf"
           /\ SumOf([i \in DOMAIN c.kids |-> size(c.kids[i])]) + Len(c.kids) - 1 = size(c)
           /\ \A i \in DOMAIN c.kids : span(c.kids[i]) = span(c) /\ LayoutCheck(c.kids[i])

KindOf(dir) == CASE dir = "leaf" -> "pane" [] dir = "h" -> "hsplit" [] dir = "v" -> "vsplit"

\* The tree the model stores: a leaf with no pane is an error (Unassigned).
Unassigned(c) == \E i \in DOMAIN LeavesOf(c) : LeavesOf(c)[i].pane = NoPane
Rect(c) == [x |-> c.x, y |-> c.y, cols |-> c.w, rows |-> c.h]
LayoutPane(paneId, rect) == [kind |-> "pane", paneId |-> paneId, rect |-> rect]
LayoutSplit(kind, rect, children) == [kind |-> kind, rect |-> rect, children |-> children]
WindowLayout(cols, rows, root) == [cols |-> cols, rows |-> rows, root |-> root]

RECURSIVE LayoutCellToNode(_, _)
LayoutCellToNode(c, wireId) ==
    IF c.dir = "leaf" THEN LayoutPane(wireId[c.pane], Rect(c))
    ELSE LayoutSplit(KindOf(c.dir), Rect(c),
                     [i \in DOMAIN c.kids |-> LayoutCellToNode(c.kids[i], wireId)])
ParsedLayoutToWindowLayout(c, wireId) == WindowLayout(c.w, c.h, LayoutCellToNode(c, wireId))

(* A template's node out of the actual cells: the sizes of the children become weights, a  *)
(* leaf keeps the directory of its pane when the query has one.  Commands are not frozen.  *)
Omitted == "omitted"
PaneSpec(cwd, command) == [cwd |-> cwd, command |-> command]
TemplateSplit(kind, children, sizes) == [kind |-> kind, children |-> children, sizes |-> sizes]
TemplatePane(spec) == [kind |-> "pane", children |-> <<>>, sizes |-> <<>>, spec |-> spec]
RECURSIVE ActualToDesiredNode(_, _)
ActualToDesiredNode(c, cwdOf) ==
    IF c.dir = "leaf"
    THEN TemplatePane(PaneSpec(IF c.pane \in DOMAIN cwdOf THEN cwdOf[c.pane] ELSE Omitted, Omitted))
    ELSE TemplateSplit(KindOf(c.dir),
                       [i \in DOMAIN c.kids |-> ActualToDesiredNode(c.kids[i], cwdOf)],
                       [i \in DOMAIN c.kids |-> IF c.dir = "h" THEN c.kids[i].w ELSE c.kids[i].h])
===============================================================================
