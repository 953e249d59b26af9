------------------------------ MODULE MCDocument ------------------------------
(* The pages and marks of the instances Document is checked on. *)
EXTENDS Document

Res(kind, value, names, shows) == [kind |-> kind, value |-> value, names |-> names, shows |-> shows]
Page(resources, shows, annots) ==
    [resources |-> resources, shows |-> shows,
     annots |-> [k \in DOMAIN annots |-> [page |-> annots[k], nul |-> FALSE]]]

\* A resident face and an embedded font, with links to this and a later page.
TextPage(cid) ==
    Page(<<Res("resident", "Helvetica", {}, {}), Res("embedded", "E", {}, {})>>, {<<2, cid>>}, <<1, 2>>)

\* A fallback font, shown by the page and by a cell that names itself.
FallbackPage(cid) ==
    Page(<<Res("fallback", "K", {}, {}), Res("pattern", "cell", {1, 2}, {<<1, 2>>}),
           Res("composite", "C", {}, {})>>, {<<1, cid>>, <<3, cid>>}, <<>>)

\* A Type 3 font whose glyph paints with a pattern over a colour space.
GlyphPage(space) ==
    Page(<<Res("space", space, {}, {}), Res("pattern", "cell", {1}, {}),
           Res("type3", "G", {2, 4}, {<<4, 1>>}), Res("embedded", "E", {}, {}),
           Res("image", "I", {1}, {})>>, {}, <<>>)

\* A Type 3 font whose glyph shows text in another, whose glyph uses a space.
NestedPage(space) ==
    Page(<<Res("space", space, {}, {}), Res("type3", "inner", {1}, {}), Res("type3", "outer", {2}, {})>>,
         {}, <<>>)

MCPages == {TextPage(1), TextPage(2), FallbackPage(1), FallbackPage(3),
            GlyphPage("spot"), GlyphPage("tint"), GlyphPage("nul")}
NestedPages == {NestedPage("spot"), NestedPage("tint")}

MCMarks ==
    {[kind |-> "outline", count |-> c, page |-> 1, nul |-> FALSE] : c \in {-1, 0, 2}}
    \cup {[kind |-> "outline", count |-> 1, page |-> 2, nul |-> FALSE],
          [kind |-> "dest", name |-> "d", page |-> 2, nul |-> FALSE],
          [kind |-> "dest", name |-> "n", page |-> 1, nul |-> TRUE],
          [kind |-> "open", page |-> 1, nul |-> FALSE]}
===============================================================================
