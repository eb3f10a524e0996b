------------------------------ MODULE MCTemplate ------------------------------
(* A claim with a template, a second client that previews and applies another one to the   *)
(* live session, and users in between; and the pure part of Layout and Template over       *)
(* bounded trees, strings, sizes and weights.                                              *)
EXTENDS Template

CONSTANTS a, b

P(command) == TemplatePane(PaneSpec(Omitted, command))
H(children, sizes) == TemplateSplit("hsplit", children, sizes)
V(children, sizes) == TemplateSplit("vsplit", children, sizes)
W(name, geometry) == WindowTemplate(name, geometry)
T(name, ws) == SessionTemplate(name, ws)

Ide == T("ide", <<W("edit", H(<<P("vi"), V(<<P("make"), P("log")>>, <<1, 2>>)>>, <<3, 1>>)),
                 W(Unnamed, NoGeometry)>>)
Ops == T(Unnamed, <<W("edit", NoGeometry), W("top", V(<<P("top"), P("tail")>>, <<>>))>>)
\* Two weights for three children.
Broken == T("bad", <<W("x", H(<<P("x"), P("y"), P("z")>>, <<1, 1>>))>>)

MCRequests ==
    (a :> <<[verb |-> "claim", template |-> Ide], [verb |-> "apply", template |-> Broken]>>) @@
    (b :> <<[verb |-> "apply", template |-> Ops], [verb |-> "preview", template |-> Ops]>>)
MCSizes == {<<20, 10>>, <<2, 1>>}

-------------------------------------------------------------------------------
(* The pure part.  Desired trees of up to two levels, their cells in a few rectangles, and  *)
(* the same with panes in some of the leaves.                                              *)

Flat == {TemplateSplit(kind, kids, sizes) :
           kind \in {"hsplit", "vsplit"}, kids \in {<<P("x"), P("y")>>},
           sizes \in {<<>>, <<1, 2>>, <<3, 1>>, <<9, 1>>}}
        \cup {H(<<P("x"), P("y"), P("z")>>, sizes) : sizes \in {<<>>, <<1, 5, 1>>}}
Nested == {TemplateSplit(kind, <<one, two>>, sizes) :
             kind \in {"hsplit", "vsplit"}, one \in {P("w")} \cup Flat, two \in Flat,
             sizes \in {<<>>, <<3, 1>>}}
Nodes == {P("x")} \cup Flat \cup Nested
Rects == {<<20, 11>>, <<9, 7>>}
Cells == {GeometryToCell(n, r[1], r[2], 0, 0) : n \in Nodes, r \in Rects}

\* A cell with pane k in its k-th leaf, for the k that keep allows.
RECURSIVE WithPanes(_, _, _)
WithPanes(c, from, keep) ==
    IF c.dir = "leaf" THEN [c EXCEPT !.pane = IF from \in keep THEN from ELSE NoPane]
    ELSE [c EXCEPT !.kids = [i \in DOMAIN @ |->
            WithPanes(@[i], from + SumOf([j \in 1 .. i - 1 |-> Len(LeavesOf(@[j]))]), keep)]]
Assigning == {WithPanes(c, 1, keep) : c \in Cells, keep \in {{}, {1, 3}, 1 .. 9}}

\* The golden strings of layout-string.test.ts.
ASSUME ChecksumIsTmux ==
    /\ LayoutChecksum(DumpCell(Leaf(159, 48, 0, 0, 4))) = 53313
    /\ LayoutChecksum(DumpCell(Split("h", 159, 48, 0, 0,
         <<Leaf(79, 48, 0, 0, 1), Leaf(79, 48, 80, 0, 2)>>))) = 21608

(* A layout string parses to the cells it was written from, a leaf with no pane before a    *)
(* sibling included, with the checksum right (parseCell's backtracking at ",digits x").     *)
ASSUME ParseUndoesDump ==
    \A c \in Assigning :
        LET parsed == ParseLayout(DumpLayout(c))
        IN  parsed.ok /\ parsed.root = c /\ parsed.checksum = parsed.computed

\* A split's string cut short, or with something after it, is never taken for a layout.
ASSUME NoPartialParse ==
    \A c \in {d \in Assigning : d.dir /= "leaf"} :
        LET text == DumpLayout(c)
        IN  /\ \A k \in {1, 2, 5, Len(text) - 4, Len(text) - 1} : ~ParseLayout(SubSeq(text, 1, k)).ok
            /\ ~ParseLayout(Append(text, Mark(","))).ok

Weights == [1 .. 2 -> 0 .. 4] \cup [1 .. 3 -> {0, 1, 2, 7}]
(* The parts are exactly the whole, nobody gets nothing while there is enough, and more      *)
(* weight never means less room (distributeSizes).                                          *)
ASSUME PartsAreTheWhole ==
    \A w \in Weights, total \in 0 .. 12 :
        LET d == DistributeSizes(total, w)
        IN  /\ SumOf(d) = total
            /\ total >= Len(w) => \A i \in DOMAIN w : d[i] >= 1
            /\ \A i, j \in DOMAIN w : w[i] > w[j] /\ total >= Len(w) => d[i] >= d[j]

\* One level of panes that has room is accepted by tmux.
ASSUME FlatLayoutsFit ==
    \A n \in Flat, r \in Rects : LayoutCheck(GeometryToCell(n, r[1], r[2], 0, 0))
\* With two levels a small weight can starve a split that needs more: tmux refuses.
ASSUME StarvedSplit ==
    ~LayoutCheck(GeometryToCell(H(<<P("x"), H(<<P("y"), P("z")>>, <<>>)>>, <<9, 1>>), 6, 4, 0, 0))

NoCwd == [p \in {} |-> Omitted]
(* Freezing and applying again keeps the tree and its leaves, and is off by less than a cell *)
(* for each further child; it is not exact, as freeze.ts says: 9 and 1 come back as 8 and 2. *)
ASSUME FreezeKeepsShape ==
    \A c \in {d \in Cells : LayoutCheck(d)} :
        LET again == GeometryToCell(ActualToDesiredNode(c, NoCwd), c.w, c.h, 0, 0)
        IN  /\ Len(LeavesOf(again)) = Len(LeavesOf(c))
            /\ [again EXCEPT !.kids = <<>>] = [c EXCEPT !.kids = <<>>]
            /\ \A i \in DOMAIN c.kids :
                 /\ again.kids[i].dir = c.kids[i].dir
                 /\ again.kids[i].w - c.kids[i].w \in -Len(c.kids) .. Len(c.kids)
ASSUME FreezeIsNotExact == DistributeSizes(10, <<9, 1>>) = <<8, 2>>

\* A frozen session is a template that compiles, and applying it where it came from is a no-op.
ASSUME FrozenIsSatisfied ==
    \A c \in {d \in Assigning : LayoutCheck(d)} :
        LET listed == <<[name |-> "n", root |-> c]>>
            frozen == BuildFrozenTemplate(ListSessionForFreeze(listed, [p \in {3} |-> "/src"]), "t")
        IN  /\ Valid(frozen)
            /\ Len(CompileTemplate(frozen)[1].panes) = Len(LeavesOf(c))
            /\ TemplateDiff(frozen, {"n"}) = <<>>
            /\ \A i \in DOMAIN LeavesOf(c) :
                 CompileTemplate(frozen)[1].panes[i].cwd
                   = IF LeavesOf(c)[i].pane = 3 THEN "/src" ELSE Omitted

\* The wire's tree has the panes of the cells in their rectangles, unless a leaf has none.
ASSUME WireKeepsRects ==
    \A c \in Assigning : Unassigned(c) \/
        LET wire == ParsedLayoutToWindowLayout(c, [p \in 1 .. 9 |-> p])
        IN  /\ wire.root.rect = [x |-> 0, y |-> 0, cols |-> wire.cols, rows |-> wire.rows]
            /\ \A i \in DOMAIN c.kids : wire.root.children[i].rect.x = c.kids[i].x
===============================================================================
