------------------------------- MODULE Document -------------------------------
(***************************************************************************)
(* The PDF document of a job (efterscript-remelt over efterscript-pdf):    *)
(* pages and document marks arrive one by one, a page and what it names is *)
(* written at once, and what depends on every page -- embedded fonts,      *)
(* annotations, the outline tree, destinations, the page tree -- is        *)
(* written when the document closes, over ids handed out long before.      *)
(*                                                                         *)
(* An object is its kind, the resource it was written for, and the objects *)
(* it refers to; what its bytes say otherwise is left out.  A page is a    *)
(* list of resources, the indices its contents name and the characters     *)
(* they show.                                                              *)
(***************************************************************************)
EXTENDS Integers, Sequences, FiniteSetsExt, SequencesExt, Functions

CONSTANTS
    PageInputs,    \* the pages the graphics layer may deliver
    MarkInputs,    \* the document marks it may deliver
    Outlined,      \* the resident faces with an outline asset in this build
    FallbackSize,  \* glyphs a Type 3 fallback holds, 255 in the program
    MaxPages,      \* bound: pages delivered
    MaxDelivered   \* bound: pages, marks and parameters delivered

ASSUME DocumentAssumption ==
    FallbackSize \in Nat /\ MaxPages \in Nat /\ MaxDelivered \in Nat

VARIABLES
    doc,       \* the object table: objects by id, and the first error
    kids,      \* ids of the pages written, in order (PageTree)
    fonts,     \* font objects shared between pages, and the resident faces
               \* written unembedded as pages came (FontTable)
    deferred,  \* embedded and composite fonts, written at the end
    marks,     \* the marks recorded and the annotations put off
    embedAll,  \* EmbedAllFonts as it stands
    stage,     \* "open", "closed" or "failed"
    delivered  \* history: the pages delivered, with the objects they got

vars == <<doc, kids, fonts, deferred, marks, embedAll, stage, delivered>>
-----------------------------------------------------------------------------
(* The object table (ObjectTable, Document).                               *)

NoSpec == [kind |-> "none", value |-> "none", names |-> {}, shows |-> {}]

\* uses: the resource dictionary, by page index; refs: every other
\* reference; texts: one-byte codes a fallback font was shown with; links:
\* what the kinds below keep besides.
Object(kind, spec, uses, refs) ==
    [kind |-> kind, spec |-> spec, uses |-> uses, refs |-> refs, texts |-> {}, links |-> <<>>]

Unwritten == Object("unwritten", NoSpec, <<>>, {})

Plain(kind, refs) == Object(kind, NoSpec, <<>>, refs)

\* Document::alloc; the new id is the length of the result.
Alloc(d) == [d EXCEPT !.objects = Append(@, Unwritten)]

Reserved(d, n) == [d EXCEPT !.objects = @ \o [k \in 1 .. n |-> Unwritten]]

\* Document::write_obj, write_stream and emit, and the `?` after each: the
\* first error ends the writing.
Emit(d, id, object, nul) ==
    CASE d.error # "none" -> d
      [] d.error = "none" /\ nul -> [d EXCEPT !.error = "name"]
      [] d.error = "none" /\ ~nul /\ d.objects[id] # Unwritten -> [d EXCEPT !.error = "twice"]
      [] OTHER -> [d EXCEPT !.objects[id] = object]

AllocEmit(d, object, nul) == Emit(Alloc(d), Len(d.objects) + 1, object, nul)

\* ObjectTable::unwritten.
Dangling(d) == {id \in DOMAIN d.objects : d.objects[id] = Unwritten}
-----------------------------------------------------------------------------
(* What a page's contents refer to (Refs, collect, Key, cids_used).        *)

Kinds == {"space", "image", "shading", "pattern", "form",
          "type3", "resident", "embedded", "composite", "fallback"}
FontKinds == {"type3", "resident", "embedded", "composite", "fallback"}

Of(page, kinds) == {i \in DOMAIN page.resources : page.resources[i].kind \in kinds}

\* collect with `deep`: the names, and those of every pattern and form met.
RECURSIVE Deep(_, _)
Deep(page, names) ==
    LET more == UNION {page.resources[i].names : i \in names \cap Of(page, {"pattern", "form"})}
    IN  IF more \subseteq names THEN names ELSE Deep(page, names \cup more)

\* Mutant: the key stops at what the glyphs name themselves.
Key_direct(page, i) ==
    [spec |-> page.resources[i],
     values |-> [n \in page.resources[i].names |-> page.resources[n]]]

\* Key::of: the spec and the values of what its glyphs refer to.
Key(page, i) ==
    [spec |-> page.resources[i],
     values |-> [n \in Deep(page, page.resources[i].names) |-> page.resources[n]]]

\* cids_used: in the page, its glyph procedures, cells and bodies.
CidsUsed(page, i) ==
    {s[2] : s \in {t \in page.shows \cup
                     UNION {page.resources[r].shows : r \in Of(page, {"type3", "pattern", "form"})} :
                   t[1] = i}}
-----------------------------------------------------------------------------
(* Writing a page.  w is the work so far: the document, the id behind each *)
(* resource index (0 where there is none), the two font tables, and the    *)
(* codes of the page's fallback fonts.                                     *)

Start(page) ==
    [doc |-> doc, at |-> [i \in DOMAIN page.resources |-> 0], fonts |-> fonts.written,
     unembedded |-> fonts.unembedded, deferred |-> deferred, recode |-> [i \in {} |-> <<>>]]

\* A space with a colorant name that has a NUL byte spoils every object its
\* array is put in.
HasNul(page, names) == \E i \in names : page.resources[i].value = "nul"

\* Objects::resources_dict over the indices named.
Listed(w, names) == [i \in {n \in names : w.at[n] # 0} |-> w.at[i]]

Put(w, i, kind, page, names, texts) ==
    [w EXCEPT !.doc = Emit(w.doc, w.at[i],
                           [Object(kind, page.resources[i], Listed(w, names), {}) EXCEPT !.texts = texts],
                           HasNul(page, names))]

\* write_space: a tint function where the space has one.
WriteSpace(w, i, page) ==
    IF page.resources[i].value = "device" THEN w
    ELSE [w EXCEPT !.doc = AllocEmit(w.doc, Object("space", page.resources[i], <<>>, {}), FALSE),
                   !.at[i] = Len(w.doc.objects) + 1]

\* write_image and write_shading, which put their space into the object.
WriteNow(w, i, page) ==
    LET names == page.resources[i].names
    IN  [w EXCEPT !.doc = AllocEmit(w.doc, Object(page.resources[i].kind, page.resources[i],
                                                  Listed(w, names), {}), HasNul(page, names)),
                  !.at[i] = Len(w.doc.objects) + 1]

\* Patterns and forms get their ids before the fonts are written.
AllocLater(w, i, page) ==
    [w EXCEPT !.doc = Alloc(w.doc), !.at[i] = Len(w.doc.objects) + 1]

\* The codes content::render shows the characters of fallback fonts with.
Texts(w, shows) ==
    {<<s[1], s[2], IF s[2] \in DOMAIN w.recode[s[1]] THEN w.recode[s[1]][s[2]] ELSE 0>> :
       s \in {t \in shows : t[1] \in DOMAIN w.recode}}

\* A cell or a body, with its own resource dictionary.
WriteContent(w, i, page) ==
    Put(w, i, page.resources[i].kind, page, page.resources[i].names,
        Texts(w, page.resources[i].shows))

\* CompositeFont::record: the next one-byte codes, in order of CID, while
\* the fallback has room.
Assigned(codes, cids) ==
    FoldSet(LAMBDA n, c : IF Cardinality(DOMAIN c) < FallbackSize
                          THEN LET new == Min((cids \ DOMAIN codes) \ DOMAIN c)
                               IN  [k \in DOMAIN c \cup {new} |->
                                      IF k = new THEN Cardinality(DOMAIN c) + 1 ELSE c[k]]
                          ELSE c,
            codes, 1 .. Cardinality(cids \ DOMAIN codes))

Recoded(entry, cids) == Assigned(entry.codes, cids)

\* Mutant: a font met again keeps the characters of its first page.
Joined_first(entry, cids) == entry.cids

Joined(entry, cids) == entry.cids \cup cids

\* EmbeddedTable::use_font: one font per spec, its characters collected.
UseFont(w, i, page) ==
    LET spec == [page.resources[i] EXCEPT !.names = {}]
        cids == CidsUsed(page, i)
        found == {k \in DOMAIN w.deferred : w.deferred[k].spec = spec}
        fresh == [spec |-> spec, id |-> Len(w.doc.objects) + 1, cids |-> {}, codes |-> [c \in {} |-> 0]]
        table == IF found # {} THEN w.deferred ELSE Append(w.deferred, fresh)
        k == IF found # {} THEN Min(found) ELSE Len(table)
        codes == IF spec.kind = "fallback" THEN Recoded(table[k], cids) ELSE table[k].codes
    IN  [w EXCEPT !.doc = IF found # {} THEN @ ELSE Alloc(@),
                  !.deferred = [table EXCEPT ![k].cids = Joined(table[k], cids), ![k].codes = codes],
                  !.at[i] = table[k].id,
                  !.recode = IF spec.kind # "fallback" THEN @
                             ELSE [n \in DOMAIN @ \cup {i} |-> IF n = i THEN codes ELSE @[n]]]

IsDeferred(spec) ==
    \/ spec.kind \in {"embedded", "composite", "fallback"}
    \/ spec.kind = "resident" /\ embedAll /\ spec.value \in Outlined

\* The first half of write_fonts: the objects of fonts already written are
\* found by their key, others get an id.
PlaceFont(w, i, page) ==
    LET found == {k \in DOMAIN w.fonts : w.fonts[k].key = Key(page, i)}
    IN  CASE IsDeferred(page.resources[i]) -> UseFont(w, i, page)
          [] ~IsDeferred(page.resources[i]) /\ found # {} ->
                [w EXCEPT !.at[i] = w.fonts[Min(found)].id]
          [] OTHER ->
                [w EXCEPT !.doc = Alloc(w.doc),
                          !.fonts = Append(@, [key |-> Key(page, i), id |-> Len(w.doc.objects) + 1]),
                          !.at[i] = Len(w.doc.objects) + 1]

\* write_resident: the descriptor and the ToUnicode map, then the font.
WriteResident(d, id, spec) ==
    Emit(AllocEmit(AllocEmit(d, Plain("descriptor", {}), FALSE), Plain("tounicode", {}), FALSE),
         id, Object("resident", spec, <<>>, {Len(d.objects) + 1, Len(d.objects) + 2}), FALSE)

\* write_type3: the glyph procedures, then the font with its resources.
WriteType3(w, i, page) ==
    LET spec == page.resources[i]
        procs == [w EXCEPT !.doc = AllocEmit(w.doc, Plain("charproc", {}), FALSE)]
    IN  [w EXCEPT !.doc = Emit(procs.doc, w.at[i],
                               [Object("type3", spec, Listed(w, spec.names), {Len(w.doc.objects) + 1})
                                  EXCEPT !.texts = Texts(w, spec.shows)],
                               HasNul(page, spec.names))]

\* FontTable::unembedded.
Noted(faces, face) == faces \cup {face}

\* The second half of write_fonts: those placed new on this page.
WritePlaced(w, i, page) ==
    CASE ~(\E k \in (Len(fonts.written) + 1) .. Len(w.fonts) :
             w.fonts[k].id = w.at[i] /\ \A j \in 1 .. (i - 1) : w.at[j] # w.at[i]) -> w
      [] page.resources[i].kind = "type3" -> WriteType3(w, i, page)
      [] OTHER -> [w EXCEPT !.doc = WriteResident(w.doc, w.at[i], page.resources[i]),
                            !.unembedded = Noted(@, page.resources[i].value)]

Each(w, page, kinds, Step(_, _, _)) ==
    FoldLeft(LAMBDA v, i : Step(v, i, page), w, SetToSortSeq(Of(page, kinds), <))

\* Objects::write, in its order.
WriteObjects(page) ==
    LET spaces == Each(Start(page), page, {"space"}, WriteSpace)
        images == Each(spaces, page, {"image"}, WriteNow)
        shadings == Each(images, page, {"shading"}, WriteNow)
        later == Each(Each(shadings, page, {"pattern"}, AllocLater), page, {"form"}, AllocLater)
        placed == Each(later, page, FontKinds, PlaceFont)
        faces == Each(placed, page, {"type3", "resident"}, WritePlaced)
    IN  Each(Each(faces, page, {"pattern"}, WriteContent), page, {"form"}, WriteContent)

\* PdfSink::write_page after the resources: ids for the annotations
\* (Marks::defer), the contents and the page (PageTree::add_page_with).
PageWritten(w, page) ==
    LET n == Len(w.doc.objects)
        a == Len(page.annots)
        reserved == Reserved(w.doc, a)
        content == AllocEmit(reserved, [Plain("content", {}) EXCEPT !.texts = Texts(w, page.shows)], FALSE)
    IN  AllocEmit(content,
                  Object("page", NoSpec, Listed(w, DOMAIN page.resources),
                         {1, n + a + 1} \cup ((n + 1) .. (n + a))),
                  HasNul(page, DOMAIN page.resources))

Deferrable(w, page) ==
    [k \in 1 .. Len(page.annots) |-> [id |-> Len(w.doc.objects) + k, target |-> page.annots[k]]]
-----------------------------------------------------------------------------
(* Closing.                                                                *)

\* page_ref: the id of page n, if the document has it.
PageRef(n) == IF n \in DOMAIN kids THEN {kids[n]} ELSE {}

\* write_annot.
WriteAnnot(d, annot) ==
    Emit(d, annot.id, [Plain("annot", PageRef(annot.target.page)) EXCEPT !.links = <<annot.target.page>>],
         annot.target.nul)

\* An embedded simple font, a Type 0 font with its descendant, or the Type 3
\* fallback (embedded::write_font, composite::write_font,
\* write_type3_fallback).
WriteSimple(d, f) ==
    LET n == Len(d.objects)
        parts == AllocEmit(AllocEmit(AllocEmit(d, Plain("program", {}), FALSE),
                                     Plain("descriptor", {n + 1}), FALSE), Plain("tounicode", {}), FALSE)
    IN  Emit(parts, f.id, [Object("embedded", f.spec, <<>>, {n + 2, n + 3}) EXCEPT !.links = f.cids], FALSE)

WriteType0(d, f) ==
    LET n == Len(d.objects)
        parts == AllocEmit(AllocEmit(AllocEmit(d, Plain("program", {}), FALSE),
                                     Plain("descriptor", {n + 1}), FALSE), Plain("tounicode", {}), FALSE)
        descendant == AllocEmit(parts, Plain("descendant", {n + 2}), FALSE)
    IN  Emit(descendant, f.id, [Object("composite", f.spec, <<>>, {n + 3, n + 4}) EXCEPT !.links = f.cids], FALSE)

WriteFallback(d, f) ==
    LET n == Len(d.objects)
        procs == FoldLeft(LAMBDA v, k : AllocEmit(v, Plain("charproc", {}), FALSE), d,
                          [k \in 1 .. Cardinality(DOMAIN f.codes) |-> k])
        m == Len(procs.objects)
        tounicode == AllocEmit(procs, Plain("tounicode", {}), FALSE)
    IN  Emit(tounicode, f.id,
             [Object("fallback", f.spec, <<>>, (n + 1) .. (m + 1)) EXCEPT !.links = f.codes], FALSE)

\* EmbeddedTable::write_all: a resident face put off is embedded if
\* EmbedAllFonts still holds; the simple fonts come before the composites.
WriteDeferred(d, f) ==
    CASE f.spec.kind = "resident" /\ ~embedAll -> WriteResident(d, f.id, f.spec)
      [] f.spec.kind \in {"resident", "embedded"} /\ (f.spec.kind = "resident" => embedAll) ->
            WriteSimple(d, f)
      [] f.spec.kind = "composite" -> WriteType0(d, f)
      [] f.spec.kind = "fallback" -> WriteFallback(d, f)

\* Mutant: the composite fonts are forgotten.
WriteFonts_simple(d) ==
    FoldLeft(WriteDeferred, d, SelectSeq(deferred, LAMBDA f : f.spec.kind \in {"resident", "embedded"}))

WriteFonts(d) ==
    FoldLeft(WriteDeferred, d,
             SelectSeq(deferred, LAMBDA f : f.spec.kind \in {"resident", "embedded"})
             \o SelectSeq(deferred, LAMBDA f : f.spec.kind \in {"composite", "fallback"}))

(* The outline tree (Node, nest, write_items, write_outlines).  The items  *)
(* of a branch are given by their positions among the marks; item k has    *)
(* the id root + k, since ids are handed out in mark order.                *)

Abs(n) == IF n < 0 THEN -n ELSE n

RECURSIVE Nest(_, _)
\* The nodes from position `at`, at most `wanted` of them, and where they end.
Nest(at, wanted) ==
    IF wanted = 0 \/ at > Len(marks.items) THEN [nodes |-> <<>>, at |-> at]
    ELSE LET inner == Nest(at + 1, Abs(marks.items[at].count))
             rest == Nest(inner.at, wanted - 1)
         IN  [nodes |-> << [item |-> at, children |-> inner.nodes] >> \o rest.nodes, at |-> rest.at]

IsOpen(node) == marks.items[node.item].count >= 0

RECURSIVE Visible_deep(_)
\* Mutant: closed children show theirs too.
Visible_deep(node) ==
    Len(node.children) + FoldLeft(LAMBDA n, c : n + Visible_deep(c), 0, node.children)

RECURSIVE Visible(_)
\* Node::visible.
Visible(node) ==
    Len(node.children)
      + FoldLeft(LAMBDA n, c : n + (IF IsOpen(c) THEN Visible(c) ELSE 0), 0, node.children)

Edge(nodes, root) ==
    IF nodes = <<>> THEN <<0, 0>> ELSE <<root + nodes[1].item, root + Last(nodes).item>>

RECURSIVE WriteItems(_, _, _, _)
WriteItems(d, nodes, parent, root) ==
    FoldLeft(LAMBDA v, k :
               LET node == nodes[k]
                   item == marks.items[node.item]
                   links == [parent |-> parent,
                             prev |-> IF k > 1 THEN root + nodes[k - 1].item ELSE 0,
                             next |-> IF k < Len(nodes) THEN root + nodes[k + 1].item ELSE 0,
                             first |-> Edge(node.children, root)[1],
                             last |-> Edge(node.children, root)[2],
                             count |-> IF IsOpen(node) THEN Visible(node) ELSE -Visible(node),
                             page |-> item.page]
               IN  WriteItems(Emit(v, root + node.item,
                                   [Plain("item", PageRef(item.page)) EXCEPT !.links = links], item.nul),
                              node.children, root + node.item, root),
             d, [k \in 1 .. Len(nodes) |-> k])

WriteOutlines(d) ==
    IF marks.items = <<>> THEN d
    ELSE LET root == Len(d.objects) + 1
             nodes == Nest(1, Len(marks.items)).nodes
             shown == Len(nodes) + FoldLeft(LAMBDA n, c : n + (IF IsOpen(c) THEN Visible(c) ELSE 0), 0, nodes)
             reserved == Reserved(d, Len(marks.items) + 1)
             links == [parent |-> 0, prev |-> 0, next |-> 0, first |-> Edge(nodes, root)[1],
                       last |-> Edge(nodes, root)[2], count |-> shown, page |-> 0]
         IN  WriteItems(Emit(reserved, root, [Plain("outlines", {}) EXCEPT !.links = links], FALSE),
                        nodes, root, root)

\* Marks::write: the Dests dictionary.
WriteDests(d) ==
    IF marks.dests = {} THEN d
    ELSE AllocEmit(d, [Plain("dests", UNION {PageRef(m.page) : m \in marks.dests})
                         EXCEPT !.links = marks.dests],
                   \E m \in marks.dests : m.nul)

\* PageTree::finish_with and Catalog::entries: the Pages node, whose id is 1,
\* and the catalog.
WriteTree(d) ==
    LET outlines == {id \in DOMAIN d.objects : d.objects[id].kind \in {"outlines", "dests"}}
        open == UNION {PageRef(m.page) : m \in marks.open}
    IN  AllocEmit(Emit(d, 1, [Plain("pages", Range(kids)) EXCEPT !.links = kids], FALSE),
                  [Plain("catalog", {1} \cup outlines \cup open) EXCEPT !.links = marks.open],
                  \E m \in marks.open : m.nul)

\* Document::finish refuses while an id has no object.
Complete(d) ==
    IF d.error = "none" /\ Dangling(d) # {} THEN [d EXCEPT !.error = "dangling"] ELSE d

\* PdfSink::finish from the fonts on; the Info dictionary comes last.
Closed ==
    Complete(AllocEmit(WriteTree(WriteDests(WriteOutlines(FoldLeft(WriteAnnot, WriteFonts(doc), marks.annots)))),
                       Plain("info", {}), FALSE))
-----------------------------------------------------------------------------
(* What arrives at the sink.                                               *)

Arrived == Len(delivered.pages) + delivered.marks

\* Mutant: a page after a failure is written all the same.
Accepts_always == TRUE

\* After the first failure pages are ignored.
Accepts == doc.error = "none"

\* The page's own object is the last one written for it.
PageId(d) == Len(d.objects)

\* PdfSink::page.
DeliverPage(page, w, d) ==
    /\ doc' = d
    /\ fonts' = [written |-> w.fonts, unembedded |-> w.unembedded]
    /\ deferred' = w.deferred
    /\ kids' = IF d.error = "none" THEN Append(kids, PageId(d)) ELSE kids
    /\ marks' = [marks EXCEPT !.annots = @ \o Deferrable(w, page)]
    /\ delivered' = [delivered EXCEPT
          !.pages = Append(@, [page |-> page, at |-> w.at, written |-> d.error = "none"])]

PageArrives(page) ==
    /\ stage = "open" /\ Arrived < MaxDelivered /\ Len(delivered.pages) < MaxPages
    /\ IF Accepts
       THEN \E w \in {WriteObjects(page)} : DeliverPage(page, w, PageWritten(w, page))
       ELSE /\ delivered' = [delivered EXCEPT
                  !.pages = Append(@, [page |-> page, at |-> <<>>, written |-> FALSE])]
            /\ UNCHANGED <<doc, kids, fonts, deferred, marks>>
    /\ UNCHANGED <<embedAll, stage>>

\* PdfSink::document, Marks::record.
MarkArrives(mark) ==
    /\ stage = "open" /\ Arrived < MaxDelivered
    /\ marks' = CASE mark.kind = "outline" -> [marks EXCEPT !.items = Append(@, mark)]
                  [] mark.kind = "dest" -> [marks EXCEPT !.dests = {m \in @ : m.name # mark.name} \cup {mark}]
                  [] mark.kind = "open" -> [marks EXCEPT !.open = {mark}]
    /\ delivered' = [delivered EXCEPT !.marks = @ + 1]
    /\ UNCHANGED <<doc, kids, fonts, deferred, embedAll, stage>>

\* PdfSink::document with parameters: they are in force at once.
ParamsArrive ==
    /\ stage = "open" /\ Arrived < MaxDelivered
    /\ embedAll' = ~embedAll
    /\ delivered' = [delivered EXCEPT !.marks = @ + 1]
    /\ UNCHANGED <<doc, kids, fonts, deferred, marks, stage>>

\* PdfSink::finish: a failure of a page is returned at once.
Finish ==
    /\ stage = "open"
    /\ \E d \in {IF doc.error = "none" THEN Closed ELSE doc} :
          /\ doc' = d
          /\ stage' = IF d.error = "none" THEN "closed" ELSE "failed"
    /\ UNCHANGED <<kids, fonts, deferred, marks, embedAll, delivered>>
-----------------------------------------------------------------------------
\* PdfSink::start: the page tree's id is the first.
Init ==
    /\ doc = [objects |-> <<Unwritten>>, error |-> "none"]
    /\ kids = <<>>
    /\ fonts = [written |-> <<>>, unembedded |-> {}]
    /\ deferred = <<>>
    /\ marks = [items |-> <<>>, annots |-> <<>>, dests |-> {}, open |-> {}]
    /\ embedAll \in BOOLEAN
    /\ stage = "open"
    /\ delivered = [pages |-> <<>>, marks |-> 0]

Next ==
    \/ \E page \in PageInputs : PageArrives(page)
    \/ \E mark \in MarkInputs : MarkArrives(mark)
    \/ ParamsArrive
    \/ Finish

Spec == Init /\ [][Next]_vars
-----------------------------------------------------------------------------
(* Properties.                                                             *)

TypeOK ==
    /\ doc.error \in {"none", "name", "twice", "dangling"}
    /\ Range(kids) \subseteq DOMAIN doc.objects
    /\ \A k \in DOMAIN deferred : deferred[k].id \in DOMAIN doc.objects
    /\ stage \in {"open", "closed", "failed"} /\ embedAll \in BOOLEAN

ObjectAt(id) == doc.objects[id]

\* Whatever arrives in whichever order, every id handed out is written once
\* by the time the document closes: the errors "allocated but never
\* written" and "written twice" of the pdf crate are never its caller's
\* (Document::finish, ObjectTable::record).  Ids are handed out for fonts,
\* annotations, patterns and outline items long before they are written.
EveryIdWrittenOnce == TypeOK /\ doc.error \notin {"twice", "dangling"}

\* What leads to page n in a closed document -- a kid of the page tree, a
\* link, an outline item, a destination, the open action -- leads to the
\* n-th page shown, also when it was made before that page existed, and
\* nowhere if there is none (page_ref).
TargetsArePages ==
    stage = "closed" =>
        /\ \A n \in DOMAIN delivered.pages :
              /\ n \in DOMAIN kids /\ ObjectAt(kids[n]).kind = "page"
              /\ Range(delivered.pages[n].at) \ {0} = Range(ObjectAt(kids[n]).uses)
        /\ \A k \in DOMAIN marks.annots :
              LET annot == ObjectAt(marks.annots[k].id)
                  n == marks.annots[k].target.page
              IN  /\ annot.kind = "annot"
                  /\ annot.refs = IF n \in 1 .. Len(delivered.pages) THEN {kids[n]} ELSE {}
                  /\ \E p \in Range(kids) : marks.annots[k].id \in ObjectAt(p).refs

Items == {id \in DOMAIN doc.objects : doc.objects[id].kind = "item"}
Roots == {id \in DOMAIN doc.objects : doc.objects[id].kind = "outlines"}
Children(id) == {i \in Items : ObjectAt(i).links.parent = id}
RECURSIVE Above(_)
Above(id) ==
    LET parent == ObjectAt(id).links.parent
    IN  IF parent \in Items THEN {parent} \cup Above(parent) ELSE {}

\* The outline written is the items in mark order, nested by their counts
\* (ISO 32000-1 12.3.3, marks.rs nest and write_items): siblings form a
\* list from First to Last in order, an item has as many children as its
\* count says while items last, and the counts written are what a viewer
\* shows: every descendant no closed item is above.
OutlineIsTheItems ==
    stage = "closed" /\ marks.items # <<>> =>
        \A root \in Roots :
        /\ Items = (root + 1) .. (root + Len(marks.items))
        /\ \A id \in Items \cup {root} :
              LET l == ObjectAt(id).links
                  kin == SetToSortSeq(Children(id), <)
              IN  /\ kin = <<>> <=> l.first = 0
                  /\ kin # <<>> => l.first = kin[1] /\ l.last = Last(kin)
                  /\ \A k \in DOMAIN kin :
                        /\ ObjectAt(kin[k]).links.prev = IF k = 1 THEN 0 ELSE kin[k - 1]
                        /\ ObjectAt(kin[k]).links.next = IF k = Len(kin) THEN 0 ELSE kin[k + 1]
        /\ \A id \in Items :
              LET wanted == Abs(marks.items[id - root].count)
                  below == {i \in Items : id \in Above(i)}
                  shown == {i \in below : \A a \in Above(i) : a > id => marks.items[a - root].count >= 0}
              IN  /\ \/ Cardinality(Children(id)) = wanted
                     \/ Cardinality(Children(id)) < wanted /\ below = (id + 1) .. (root + Len(marks.items))
                  /\ Abs(ObjectAt(id).links.count) = Cardinality(shown)
                  /\ marks.items[id - root].count < 0 => ObjectAt(id).links.count <= 0
        /\ ObjectAt(root).links.count
              = Cardinality({i \in Items : \A a \in Above(i) : marks.items[a - root].count >= 0})

\* Marks made before, with and after their pages lead where they say, in the
\* order and the nesting they were made in.
MarksResolve == TargetsArePages /\ OutlineIsTheItems

\* The pairs of a font object and a page resource it stands for, following
\* what its glyphs name.
RECURSIVE Standing(_, _)
Standing(page, pairs) ==
    LET more == UNION {{<<ObjectAt(p[1]).uses[n], n>> : n \in DOMAIN ObjectAt(p[1]).uses \cap page.resources[p[2]].names} :
                       p \in pairs}
    IN  IF more \subseteq pairs THEN pairs ELSE Standing(page, pairs \cup more)

\* A font object found by its key draws on every page what that page's own
\* font says: "two pages with different resource layouts share an object
\* only when it means the same thing on both" (fonts.rs 140).
SharedFontsMean ==
    stage = "closed" =>
        \A k \in DOMAIN delivered.pages :
            LET page == delivered.pages[k].page
                at == delivered.pages[k].at
            IN  \A p \in Standing(page, {<<at[i], i>> : i \in Of(page, {"type3"})}) :
                    ObjectAt(p[1]).spec.value = page.resources[p[2]].value

\* The one-byte code a page wrote for a character of a fallback font is the
\* code the font, written only when the document closes, has for it;
\* characters beyond the fallback's size are shown as its notdef.
CodesStayTrue ==
    stage = "closed" =>
        \A id \in DOMAIN doc.objects : \A t \in ObjectAt(id).texts :
            LET used == {u \in {ObjectAt(id).uses} : t[1] \in DOMAIN u}
                codes == UNION {{ObjectAt(u[t[1]]).links} : u \in used}
            IN  \A c \in codes :
                    IF t[3] = 0 THEN Cardinality(DOMAIN c) = FallbackSize /\ t[2] \notin DOMAIN c
                    ELSE t[2] \in DOMAIN c /\ c[t[2]] = t[3]

\* The fonts written when the document closes hold what was shown in them,
\* whichever page came first: an embedded font every character of any page, cell,
\* body or glyph procedure, a fallback font each character at the code written.
FontsHoldWhatIsShown ==
    /\ stage = "closed" =>
        \A k \in DOMAIN delivered.pages :
            LET page == delivered.pages[k].page
                at == delivered.pages[k].at
            IN  \A i \in Of(page, {"embedded", "composite"}) :
                    CidsUsed(page, i) \subseteq ObjectAt(at[i]).links
    /\ CodesStayTrue

\* With EmbedAllFonts in force when the document closes, every resident
\* face that is in it unembedded is one the sink reports (not_honoured,
\* FontTable::unembedded), however often the parameter was switched.
UnembeddedReported ==
    stage = "closed" /\ embedAll =>
        \A id \in DOMAIN doc.objects :
            ObjectAt(id).kind = "resident" => ObjectAt(id).spec.value \in fonts.unembedded

\* Every font of a closed document is accounted for: it holds what was shown in it, or
\* it is a face the sink reports.
FontsAccountedFor == FontsHoldWhatIsShown /\ UnembeddedReported

\* The first failure of a page is what finish reports, whatever arrives
\* after it: no later page replaces it and no document is handed out
\* (sink.rs 7: "the first failure is kept and every later page ignored").
FirstFailureReported ==
    [][doc.error # "none" => doc' = doc /\ kids' = kids /\ stage' # "closed"]_vars
=============================================================================
