# EfterScript: a TLA+ verification project

EfterScript is a PostScript interpreter that distils programs to PDF, written
in Rust. This directory models the parts of it whose correctness depends on
order: what `save` and `restore` share and revert, how a job that ran out of
input takes its reads back, how errors and exits unwind the execution stack and
what they leave, how one interpreter is lent from job to job, and how settings,
glyphs, fonts and marks that arrive in one order are written in another. Source
paths below are relative to `crates/efterscript-vm/src/` unless they name
another crate.

## Inventory

| component | state | operations | interacts with | what is hard | what makes it correct |
|---|---|---|---|---|---|
| virtual memory (`memory.rs`, `ops/vm.rs`) | local and global arena, save stack, allocation mode | alloc, put, copy, get, setglobal, save, restore | file table (closed by restore), stacks (checked by restore) | references outlive reverted slots in stacks, slots, snapshots and tables; saves nest and only some cover global VM | nothing reachable dangles; handles are never issued twice; no global slot holds a local object |
| persistent map (`memory.rs` 40-174) | trie of `Rc` nodes | get, get_mut, insert, clone | arenas | a write reaches a snapshot if one shared node is not copied | a clone behaves as a deep copy |
| file table (`files.rs`, `decoders.rs`, `encoders.rs`, `ops/file.rs`, `ops/filter.rs`, `ops/image.rs`) | entries, read snapshots, the wanted procedure | open, read, peek, consume, write, close, commit, rollback | execution (suspends on NeedMore), job server (closes and empties) | filters stack on sources that grow; an operator that starves is undone and run again; bytes are peeked, held back and given back | no byte is lost, repeated or misdecoded; what starves has read nothing |
| execution (`interp/exec.rs`, `interp/frame.rs`, `interp/mod.rs`, `ops/control.rs`, `ops/errors.rs`) | frame stack, counted depth, budget, stop and error flags | fetch, raise, stop, exit, quit, suspend, resume | all of them: frames carry captures, sections, loads | errors in handlers, unwinding past frames with side effects, budgets inside handlers | counters match frames; side effects end with their frame; a budgeted run ends |
| job server (`interp/job.rs`) | the open job, derived tables beside saves | begin_job, end_job, startjob, vm_save, vm_restore | memory, execution, graphics states, embedding | a job is ended from inside itself; saves left pending; half a restore | an encapsulated job leaves nothing behind |
| graphics states (`interp/mod.rs`, `graphics.rs`, `ops/graphics.rs`) | backend stack, VM-side stack, floors | gsave, grestore, grestoreall, grestore_to | save and restore, captures | three stacks follow the save stack | aligned with the save stack |
| recording backend (crate `efterscript-graphics`) | graphics states, the content of a page, what it has set, captures, resources | settings, clips, paints, captures, page operators | show, patterns and forms, PDF writer | only differences are recorded, and a content starts from settings of where it is used | what was recorded paints what the program meant |
| patterns and forms (`ops/pattern.rs`, `ops/form.rs`) | captures open in the backend | capture_cell, finish, abandon | execution frames, graphics states | left by error, stop, quit, overflow | a capture is open exactly as long as its frame |
| fonts and show (`ops/show.rs`, `ops/font.rs`) | show frames, the run being gathered, the glyph running | show, kshow, xshow, stringwidth, charpath, setcachedevice | execution, backend | glyph procedures run in the middle, may show text and be left at any point | a run is drawn where its glyphs were; a capture ends with its procedure |
| resources, CMaps (`ops/resource.rs`, `ops/cidinit.rs`) | categories, caches | findresource, defineresource | execution, memory | programs run in the middle of an operator | only the loading as a program is modelled |
| objects, dictionaries, operators on them (`object.rs`, `dict.rs`, `ops/stack.rs`, `ops/array.rs`, `ops/dict.rs`, `ops/types.rs`, `ops/arith.rs`) | the operand and dictionary stacks, the items of arrays and strings, entries and the index over them | the operators, and the loops that read containers while they run | memory, execution | an operator fails half-way; intervals share storage and access is the object's; containers change under a loop | what fails has done nothing, access only tightens, a loop takes every element |
| scanner (`scanner.rs`, `numbers.rs`, `source.rs`) | the source position | next | file table | suspended mid-token | tokens do not depend on how the input was cut |
| printer (crate `efterscript-platen`) | the slot that lends the interpreter, job handles, captured output | job, feed, finish, read, free, panic | job server, PDF writer | abandoned, failed and panicking jobs, called again | one job at a time, the interpreter comes back, no byte of output is lost |
| PDF writer (crates `efterscript-remelt`, `efterscript-pdf`) | object table, font tables, marks, the latched error | page, mark, finish | backend, printer | ids handed out before their objects, fonts and links put off to the end | every id is written once, and means what the pages meant |
| codecs (crate `efterscript-codec`, `encoders.rs`, `decoders.rs`) | what an encoder holds back, what a decoder has of a code, a header or a row | write, flush, close; feed, end | file table, PDF writer | both sides keep the same state from opposite ends of a stream; a decoder stops anywhere | what is read back is what was written, however it was cut |
| fonts crate (`efterscript-fonts`) | the state of the interpreter of a charstring | interpret, trace, subset, renumber, write | show, PDF writer | programs call each other by numbers under a bias; some calls cannot be rewritten; hint masks have lengths only a run can tell | what is embedded draws what was shown, and holds no more than that needs |

`PROJECT.json` lists every component with its status, and each hazard found in
the code with the line where it bites.

## Modules

| module | models | extends / uses |
|---|---|---|
| `VM` | slots, objects, save records, the files restore closes | - |
| `MCVM` | bounds for TLC over `VM` | `VM` |
| `VMProofs` | theorems about `VM` | `VM`, `SequenceFacts` |
| `SequenceFacts` | sequences, tallies and least elements, for the proofs | TLAPS |
| `SnapshotStore` | abstract: a store that copies everything at save | - |
| `CowArena` | the reference-counted trie; implements `SnapshotStore` | `SnapshotStore` by INSTANCE |
| `MCCowArena` | symmetry for TLC over `CowArena` | `CowArena` |
| `CowArenaProofs` | theorems about `CowArena`, and the refinement | `CowArena`, `SequenceFacts` |
| `Exec` | the execution stack, the error machinery, the budget, the host | - |
| `ExecProofs` | theorems about `Exec` | `Exec`, `SequenceFacts` |
| `JobServer` | jobs, saves and restores at the level of whole states | - |
| `MCJobServer` | bounds and symmetry for TLC over `JobServer` | `JobServer` |
| `JobServerProofs` | theorems about `JobServer` | `JobServer`, `SequenceFacts` |
| `FileTable` | the reading side of the file table with its operators | - |
| `MCFileTable` | which files appear together | `FileTable` |
| `Printer` | the printer, its job handles, a host that calls in any order | - |
| `PrinterProofs` | theorems about `Printer` | `Printer`, TLAPS |
| `Document` | the PDF document behind a job | - |
| `MCDocument` | pages and marks delivered | `Document` |
| `Glyphs` | numbers and outlines of charstrings | - |
| `Type2`, `Type1`, `TrueType` | the interpreters of glyph programs; the last two with their subset writers | `Glyphs` |
| `CffSubset` | the subset writers of CFF programs, by name and by CID | `Type2` |
| `Embedding` | a font that is shown and then embedded | the subset writers by INSTANCE |
| `MCEmbedding` | the document, or ten fonts | `MCDocument`, `Embedding` by INSTANCE |
| `Graphics` | the recording backend and the operators that drive it | - |
| `MCGraphics` | the programs | `Graphics` |
| `GraphicsProofs` | theorems about `Graphics` | `Graphics`, `SequenceFacts` |
| `Show` | the show family as frames, over states and glyph captures | - |
| `ShowProofs` | theorems about `Show` | `Show`, `SequenceFacts` |
| `Bits`, `Lzw`, `Flate`, `Predictor`, `Filters` | the encoders and decoders, as operators on their states | - |
| `Codecs` | an encoder, the stream it writes, a decoder fed from it | the operators |
| `MCCodecs` | the codecs and what is written | `Codecs` |
| `Scanner` | the tokens of an input that arrives in pieces | - |
| `Grammar` | the reference: the tokens of a whole text | - |
| `MCReaders` | the codecs or the scanner, and the texts | `MCCodecs`, `Scanner`, `Grammar` |
| `Composites` | objects, the storage of arrays, strings and dictionaries, the checked ways to it | - |
| `Operators` | the operators on stacks, arrays, strings and dictionaries, and the loops | `Composites` |
| `MCOperators` | the programs | `Operators` |

The modules describe one system at different resolutions. `CowArena` justifies
that `VM` treats a snapshot as a value. `VM` justifies that `JobServer` treats
the content of a space as one value that a restore puts back whole. `JobServer`
says what `Printer` takes its interpreter for: a job begins if a save can be
taken, and leaves what it made permanent. `Document` says what `Printer` takes
a document for: it closes unless something failed to be written. `Exec`
abstracts reading to "a byte is there, or may come, or not"; `FileTable` says
what the bytes are and how a starved operator's reads are undone. `Exec` says
when a paint capture opens and ends, `Show` when that of a glyph does, and
`Graphics` what a capture records and leaves behind. `Operators` says what `VM`
and `Exec` leave open: what the operators and the loops do with the slots and the
operand stack.

### VM

`arena[s]` is `Memory::local` or `Memory::global`: `live` the keys of the
persistent map, `slots` what they hold, `next` the handle counter that restore
keeps. Cells stand for places that can hold an object; arrays, dictionaries,
strings and gstates differ only in sizes and access, which are left out.
`held` is what the operand, dictionary and execution stacks hold together, the
three slices `Memory::restore` is given. A file entry is a stream or an encode
filter with its target, since closing it writes to the target. `BootObjects`
is the raw insert by which construction stores local dictionaries in the
global systemdict: the one exception to the rule.

### CowArena

`mem.nodes` and `mem.cells` are the two levels of `Rc`, each a heap: a function
from addresses in use. `mem.maps[1]` is the arena's map and the others the
snapshots'. A node is owned by places, the root of a map or a child of a branch,
and its count is the number of places it is at. `MakeMut` is `Rc::make_mut`: in
place when that is one. `Insert` and `Mutate` are the two write paths of the
code; `Descend` is what they share, `get_mut` finding every node there because
it looks the key up first. `Freed` drops what has no owner, and `Collected`
repeats it, since what is dropped may have owned something; it ends every action
that can drop a node. Loops over levels are functions of the level, and
a key is divided by the width where the code shifts and masks. The refinement
reads the maps through the trie.

### Exec

A frame is `[kind, what, n, mode]`; `n` is the elements left of a procedure,
whether a paint or data frame has started, or the dictionary depth of an eexec
section. The operator a program executes next is chosen freely among `Ops`, so
a run covers every program over those operators. `handled` says whether
errordict has an entry for the error. All loops are one kind: the thirteen
kinds of the code differ in what they push. History fields: `uncaught`, that
this run was stopped at its boundary.

### JobServer

`state` is a content for each space and one for the derived tables. `held` is the deepest save level of anything on the stacks, which
is all that restore's check depends on. `broken` is the levels at which a file
that will fail to close was opened (`LoseTarget`: an encode filter whose
target was closed before it). History fields: `began`, `seen`. Contents are
interchangeable, so `MCJobServer` takes their permutations as symmetry.

### FileTable

Entries of six kinds: the run's own source, a string, a procedure, a reusable
stream, the hexadecimal filter and the cipher layer. The last two stand for
all decoders: one ends at a marker of its own, the other before the first byte
that is not its own, which it gives back. Reading is by byte, as in
`layer_byte`. An operator is performed whole on the table and its result is
kept, or undone by `Rollback` if it starved. `seen` is history: what each
entry was ever fed and what the last operator delivered; the properties
compare the table with it. `Decoded` is the reference decoder.

### Printer

`interp` is the interpreter wherever it is: in the slot, with a job, or lost to
a panic. Its `changes` carry the job that made them and whether it was
encapsulated then. `job[j]` is what is behind a handle: a stage (`unused`,
`running`, `finished`, `poisoned`, `freed`), the document and the bytes waiting
to be read; `capture` is the stream all jobs share. `Feed` and `Finish` run the
program and collect what it wrote; each may panic, which the C boundary
catches. `history` is what each job wrote and showed and what the host read.

### Document

`doc` is the object table: what is written for each id, and the first error.
An object is its kind, the resource it was written for and the ids it refers
to. `PageArrives` writes a page with what its contents name, handing out ids for
fonts that are only written by `Finish`, as are the annotations, the outline
tree, the destinations and the page tree. `PageInputs` are lists of resources
with the indices the contents name and the characters they show: fonts of
every kind, on the page or inside a cell, a body or a glyph. `delivered` is
history: the pages with the objects they got.

### Embedding

`Show` adds a glyph to those a font must have, `Write` replaces the font by the
program that is embedded for it: `Subset` of its kind. Everything else is in
the operators. `Run` is the loop of an interpreter over a stack of frames, each
a position in a charstring or a subroutine, until it ends or fails; `reached` is
the trace that the subset writer takes of it: the subroutines called and the
length of each mask, by where it stands. `Pruned` of `CffSubset` and of `Type1` has the outcomes of the
code: subroutines renumbered densely and their calls rewritten, or called
through what no rewrite can see and replaced by a stub, or kept, since a glyph
cannot be run at all. In a composite font each dictionary has its own local
subroutines and all share the global ones. A composite TrueType glyph is a
record with the numbers of its parts, which the subset renumbers; bytes of
records are words, and the outline of a simple glyph is one value. Charstrings
are bytes, numbers are in halves; the counts at which the bias changes are 3
and 6, a mask has a byte per stem, stacks and depths shrink in proportion.
`Means` operators compare: a glyph of the subset, found as a viewer would,
draws the outline and the advance of the glyph that was shown.

### Graphics

A content is not kept operation by operation but as what a renderer that has
read it so far would paint with: a stack of settings and clips. The emitter is
the code's: what it believes set, which clips it has open, and the floor below
which a capture may not close them. `BeginCapture` swaps content and emitter,
`Ended` puts them back. `vm` is the stack the interpreter
keeps beside the backend's. `faithful` compares, at each paint, the renderer's
settings with the program's, `closed` says that every content stored ended with
its saves restored. A program is a set of features, chosen once; overprint,
the line width, stroke adjustment and colour stand for the settings that are
needed by every paint, by strokes, stated once in a content, and compared by
resource.

### Show

`frames` is the execution stack above the program: shows, procedures and
stopped contexts. A show frame has the glyphs pending in its run and the sum of
their displacements, the origin read when the run began and the glyph whose
procedure runs, with the depth of graphics states to come back to. `Step` takes
the show on top off the stack; if it runs a procedure it is pushed again below
it, and if it fails it is gone. `NextGlyph` adds the glyphs of an outline font
to the run or, with `BeginGlyph`, opens a capture and runs a procedure;
`FinishGlyph` closes it, `Flush` draws a run; `Abandon` is what `pop_frame`
(`Popped`) does to a show that is discarded, and an error, stop and exit pop
frames one by one (`Truncated`). Space has one dimension and a font's matrix is the identity.
`landed` and `complete` are ghosts: that each run was drawn where its glyphs'
procedures ran, and that a show that ended handed on each glyph and moved the
current point by their widths, or left it where it was if it only measured.

### Codecs

`kind` names a codec with its parameters. `meant` is what the program wants
written, `source` what it has written, `encoder` the state of the encoder and
`written` the bytes it passed on; `decoder`, `fed` and `cut` are the same on the
other side. `Write` gives the encoder some bytes in one piece, `Flush` is
flushfile, `Close` closes it; `Feed` brings the decoder one byte, `BaseEnds` the
end of what it reads. The states and the steps are those of the code: an
LZW encoder with its table and width, an inflater with the block, code or copy
it stopped in, a run length with what it gathered. Bytes are 2 or 4 bits wide
and alphabets, code widths, blocks and windows shrink in proportion, so that
each limit is met within a few bytes. Prediction is undone by the code's reader
and produced by the writer of the PDF; the filters for which the code has only
one side are paired with an external one: prediction on the encoding side, the
reference of a sub-file, hexadecimal eexec.

### Scanner

`reader` is the text still to come, what the source has buffered, the scanner's
position, and the tokens answered so far. `AppendPiece` and `Finish` are the
host's; `Call` is one call of `next`, which answers a token, an error, the end
or that it needs more. In the last case it has taken every byte there was, and
what it gathered of the token stays in `reader`, where the next call goes on.
The source is `ChunkSource`, which cannot fail: left out is what `next` does
when a file it reads from fails (scanner.rs:496-499), an error at the unread
byte after which it is between tokens. The alternatives of the code are kept in
its order: comments, strings in their three notations, hexadecimal, base 85,
names of both kinds, numbers in their three notations, braces counted. Bytes are
codes; a number is kept as a mantissa and an exponent; integers are three bits
wide and the limits of names, strings and nesting shrink in proportion, base-85
groups have three digits for two bytes. `Grammar` says in one step, of a whole
text and by another division of it, what its tokens are; the resolution of
immediately evaluated names is external.

### Operators

`machine` has the operand stack, the dictionary stack, the slots, the loops that
run, and the name and the error of what ran last. An operator is a function from
machine to machine that checks in the order of the code: its signature, its
operands by `Peek`, the access of what it stores into, and only then pops. An
error goes to a `stopped` context around the program, which pushes `true`
without asking for room and goes on. A program is a vocabulary: the operators
and objects it uses, in any order. A body is an empty procedure, and `Iterate`
is the next turn of the innermost loop; between two turns any operators of the
vocabulary run. A name is its text, as a number; bytes are below 3, integers
below 8, reals are integral. All slots are local: what may be stored where is in
`VM`. Left out are the copies of the stacks in `$error`, text made of numbers
and numbers of text (`cvs`, `cvrs`, `cvi`, `cvr`), names of types, and real
arithmetic. `complete` is history: that each loop that ended had taken what it
should.

`MayLose` names the operators that do lose operands when they fail:
`dict` of a negative size and `copy` of more than there is, which pop before
they check (`ops/dict.rs:37`, `ops/stack.rs:42`), `search`, `anchorsearch` and
`where`, which push more than they popped, loops that find the execution stack
full, and any operator after an error caught on a full operand stack.

## Runs

Bounds are in the `.cfg` files; every cfg names them. Deadlock is not checked:
bounds on handles, feeds and runs stop every model, and a job may end.

| run | question | bounds, and why they suffice |
|---|---|---|
| `vm` | does anything dangle, break the global/local rule, come back from the dead or stay open after a restore? | two nested saves, covering or not, restored in any order; beside the slots and the file of construction a slot in each space, made under either save, or two filters chained over that file. The proofs cover every bound |
| `cow` | does sharing show, does growth keep the shape? | width 2, three handles, 2 snapshots: a node shared by none, one and both, and a level grown before, between and after the snapshots. Contents are symmetric: no definition looks at one. The proofs cover every bound |
| `exec` | do limits count what they should within a run, and do side effects end with their frame? | execution limit 3, 2 nested handlers, control operators below 4 frames: the limit is met in handlers, loops and stopped contexts, and a section, a load or a capture stands in another |
| `exec_budget` | does every budgeted run end? | limit 2, grace 2, three runs, the first the prelude: the budget is exceeded before, in and after the grace |
| `job` | does a job leave what it should, do floors and tables follow the saves? | 3 save levels and 3 saves: the job's and two inside it, or a new job's by startjob; 2 graphics states, so that a gsave and a save compete; one level at a time with a file that cannot be closed |
| `files` | is each byte read once, in order, decoded right? | either the job's source with one more file, two bytes each and two jobs, so that a position can be set back behind a peeked byte and the next job meets what the first left; or three entries and three bytes: a filter over a procedure or a string, both running dry |
| `printer` | does the interpreter come back clean, and is nothing a job wrote or showed lost? | 2 jobs, so that each call may name the job that has the interpreter or the other; 2 outputs and 2 pages, so that one waits while the next is written; up to two saves left by the prelude, so that a job may find none to take. The proofs cover every bound |
| `document` | does what is written at the end fit what the pages said? | 3 pages among 5 deliveries: a font first seen on the page, first seen inside a cell, and seen with other resources; marks before and after their page; fallback fonts of 2 glyphs, so that the third opens another. Beside them 10 fonts with up to 3 glyphs shown of each: CFF by name with 4 and 6 local subroutines and by CID with two dictionaries, Type 1 with and without `.notdef`, simple and composite TrueType; subsets on either side of each change of bias, glyphs that fail, accents of which no part was shown, every operator |
| `graphics` | does what was recorded paint what was meant? | 17 programs of up to 7 features, each pair of features in some program; 2 clips, 2 saved states and 2 captures, so that each is below, at and above the other |
| `show` | is text drawn where and when it should be? | 2 texts of 2 glyphs, one inside the other's procedure or after it; 4 more operators, so that a procedure can save, change and restore, or open a stopped context and leave it. The proofs cover every bound |
| `codecs` | is what is read back what was written, does the encoder choose well, and are the tokens of a text the same however it is cut? | inputs of up to 6 bytes written and fed in any pieces: tables fill and widen, runs and lines reach their lengths, blocks of each type are closed, copies reach back over the window; texts of up to 7 bytes in pieces of one and four: a cut inside every token, escape and group |
| `operators` | does a failing operator leave everything alone, can access be regained, does a dictionary find what it holds, do loops end right? | 13 vocabularies of up to 14 operators, 5 to 8 steps: 5 operands, 2 dictionaries on the stack, 2 loops, and 3 for the length of what is made by its size, below what `]` can make; each operator meets operands of each wrong type and access, a full stack and an empty one |

Each property has a mutant: the definition named in `PROJECT.json` with a
plausible bug (a dropped guard, an off-by-one, a missing reset), which TLC
finds under the same bounds.

### Known disagreements

The code and its comments disagree in some places within reach of these modules.
No run is kept for them; the property is stated in the module, and TLC refutes
it with the constants given (the others as in the module's cfg). Rows without
constants are read off the code.

| property | what happens | constants |
|---|---|---|
| `OutlivedIsCreatedAfter` (`VM`) | a file object of global VM is judged by the handle counter of the global arena, or by nothing, when restore looks for newer objects (`memory.rs:364`) | `Cells = {c1}`, `MaxFiles = 3`, `MaxSaveDepth = 2`, `MaxSerial = 2`, `MaxHeld = 3`, `MaxStored = 1` |
| `JobsRevert` without its exception (`JobServer`) | a file that cannot be closed stops restore half way (`memory.rs:560`), and derived tables of a job survive it | as `job` |
| `PendingReverts`, `JobSaveLive` (`JobServer`) | saves the prelude leaves open are below a job's (`interp/job.rs:277`, `:177`) | `PreludeSaves = 1`, `MaxSerial = 4` |
| `ExecCountIsFrames` (`Exec`) | end_job empties the execution stack with `estack.clear()` (`interp/job.rs:175`) and leaves `exec_count` behind | `Ops = {"exec", "proc", "stopped", "fail", "read"}`, `ExecLimit = 3`, `MaxNested = 1`, `MaxFeeds = 1`, `MaxRuns = 2` |
| `ErrorIsTheRuns` (`Exec`) | `quit` in the prelude's error handler becomes the first job's error (`interp/exec.rs:962`) | `Ops = {"plain", "fail", "quit"}`, `Prelude = TRUE`, `MaxRuns = 2` |
| `JobStartsEmpty` (`FileTable`) | of several bytes a layer gave back all but one reach the next job (`interp/mod.rs:1450`) | `Bytes = {"d", "_", "f"}`, `Kinds = {"cipher"}`, `MaxFed = 5`, `MaxJobs = 2` |
| `PositionExact` (`FileTable`) | a position underflows when lookahead is given back after setfileposition (`files.rs:820`) | `Kinds = {"reusable", "cipher"}`, `Behind = TRUE`, `Contents = 4` |
| `RunStaysOpen` (`FileTable`) | CloseSource closes the job's source for good (`files.rs:826`) | `Kinds = {"hex", "close"}`, `MaxFiles = 2`, `MaxFed = 2` |
| `MemoryCloses` (`Printer`) | a document whose bookmark or destination has a NUL in its name cannot be closed, although it is in memory: finish returns the error and the interpreter is gone for good (`efterscript-platen/src/lib.rs:289` says memory does not fail) | as `printer` |
| `SharedFontsMean` (`Document`) | a shared font's key looks one level deep into the resources its glyphs name (`efterscript-remelt/src/fonts.rs:196`) | `PageInputs <- NestedPages` |
| `Subset` never fails (`TrueType`) | the whole program is embedded when a sidebearing is missing or glyph 0 is broken, neither of which the interpreter reads (`efterscript-remelt/src/composite.rs:277`: "it cannot for glyphs the VM interpreted"); a simple font then lacks the cmap of its codes (`embedded.rs:388`), so `SimpleMeans` speaks of subsets that succeed | - |
| `SubsetOrder` (`CffSubset`) | "Glyphs are written in old index order" (`efterscript-fonts/src/cff/write.rs:749`), and are sorted by CID ten lines below | - |
| `PaintsAsMeant` (`Graphics`) | a procedure that measures a glyph captures it under settings that are not those of the page (`efterscript-graphics/src/backend.rs:35`) | `Programs <- MeasuringPrograms` |
| `ContentsClosed` (`Graphics`) | a capture under a matrix without inverse is left with a save open (`backend.rs:407`, `:478`) | `Programs <- SingularPrograms`, `Ctms = {"default", "singular"}` |
| `CapturesAreRunning` (`Show`) | a grestore too many in a glyph procedure takes back a state of the caller | `Uses` with `"pop"` |
| `RunsLand` (`Show`) | setfont in a procedure of kshow: the run is measured in the frame's font and drawn in the current one (`backend.rs:1227`) | `Uses` with `"refont"` |

The passing runs exclude exactly these: `job` has a prelude without saves and
its properties name the failed close; `ReadsUndone` excepts operators reading
two sources (`files.rs:514`: rollback does not cover sources that are already
complete), `files` has no cipher over two jobs' bytes that gives back several
and does not close the job's source; the programs of `graphics` do not measure
under another matrix, do not repeat in a form or an uncoloured glyph the value
it inherits (`backend.rs:28`) and do not call initclip inside a capture; those
of `show` restore no more than they saved and kshow's procedure selects no
font. They say that nothing else goes wrong. `AllOrNothing` excepts the operators
of `MayLose`, where a comment says that "operands stay on the stack when the
operation fails" of arithmetic (`ops/arith.rs:56`) and the others mostly keep to it.

## Fairness

Two properties are liveness properties.

`BudgetEnds`: `FairSpec` of `Exec` asks weak fairness of `Step`, since
`execute_until_boundary` is a loop that only returns by ending or suspending,
and of `Resume`, since a host that started a run feeds it or ends its data
(`Job::finish`). It says nothing about which operator the program chooses or
how large a chunk the host feeds.

`ComesBack`: `FairSpec` of `Printer` asks weak fairness of freeing each job,
which is the one call the header obliges a host to make. Feeding and finishing
are the host's choice, and so is the order.

## Proofs

`VMProofs` proves, for every set of cells and every bound that satisfies the
assumptions of `VM`: `TypeCorrect`, `InvariantHolds`, `NothingDangles`,
`GlobalRuleHolds`, `SnapshotsStayClosed` and `HandlesNeverReissued`. Nothing
is assumed but `CellsAssumption` and `BoundsAssumption`; the constraints of
`MCVM` are not used.

`NoDangling` is not inductive: a restore can make a slot dangle if a snapshot
refers to something the restored arena lacks. Two facts strengthen it to
`VMInv`. `SavesNested`: a snapshot's live handles are those of every later
snapshot, and of the current arena, below its counter - because handles are
only added at the counter and restore keeps it. `SavesClosed`: the local
snapshot of a level refers only to what is live in itself, in the current
global arena, and in the global snapshot of every covering save above or at
its level - those are the arenas it may find itself beside when it is put
back. Restore then preserves closure because whatever the stacks hold below
the counter of the restored snapshot is live in it, by nesting. The step
lemmas are one per operation (`AllocInv`, `WriteInv`, `SaveInv`, `RestoreInv`)
with `QuietInv` for those that leave the arenas alone.

`LevelsClose` proves `LevelFilesClosed` of `VM`: a step that restores a
save leaves no file open that was taken since. Closing a filter closes its target, which may be a filter again;
`LeftOpen` is a recursive function over handles and a target is older than the
filter over it (`FilesInv`), so what closing does to a chain is shown by strong
induction over handles (`NaturalsIn` of `SequenceFacts`, which is well-founded
induction stated for a set, since the provers cannot instantiate the library's
for a predicate).

`PrinterProofs` proves, for every set of jobs, every set of acts and every
bound: `OneHolderHolds`, `OnlyPermanentStaysHolds`, `NothingLostHolds` and
`FinishedStaysHolds`. It assumes `PrinterAssumption`. The inductive invariant
`IInv` adds to the types: `Lending`, that the interpreter is with the job whose
stage is running and that this is the only one; `Clean`, that an interpreter in
the slot, or with an unencapsulated job, holds only what was made permanent; `CaptureDrained`, that the
shared capture is empty between calls unless the interpreter is lost; and `Kept(j)`, that what a job wrote is
what was read followed by what waits, and that a document has the pages shown.
Without `CaptureDrained` a job could receive what another wrote; without
`Lending` a free could give back an interpreter that another job holds. The step lemmas are one per call of the host.

`JobServerProofs` proves, for any contents and every bound: `JobSaves`
(`Consistent`), `JobsReverted` (`JobsRevert`) and `AlignmentHolds`
(`AlignmentKept`). The invariant says of the machine as one record that saves
and kept tables are in order and that no covering save lacks its tables
(`Sound`), of the job that its save is the outermost and saw what the job began
with (`JobHolds`), and that floors are not raised without a backend
(`FloorsUnused`). `Sound` is shown of `VMSave` and `VMRestore`, functions from
machine to machine, before any action. The theorems suppose `PreludeSaves = 0`:
a save left by the prelude is below the job's, and the disagreement above is
what happens then.

`ExecProofs` proves, for every vocabulary, limit, budget and number of runs:
`Types`, `RunsClose` (`NothingLeftOpen`), `LimitsKept` (`LimitsHold`) and
`SectionsEnd` (`SectionsLeaveNothing`). The counters are compared with tallies
of frames, so `Sound` holds of any interpreter between two operations and not
only between two steps. A paint frame is pushed before its capture is open and
starts when it is first continued; the invariant therefore speaks of
`Settled(interp)`, in which the frame on top has started. `Within` bounds the
stack frame by frame: errors push a handler and an object above the limit, and
only `MaxNested` of them stand at once. `SectionsLeaveNothing` asks of a step
that, seen from the ground or from a section that stays with all those below it,
the mode and the dictionaries to return to are what they were; so it speaks of a
marker that is popped alone and replaced in the same step as of many that are
unwound. Looked at from a height, the mode to return to is that which the lowest
load above it came upon, the dictionaries are the fewest that any section above
it came upon; cutting the stack down to any height leaves both (`CutUnder`), and
a section that begins notes what is there (`BeginTraced`). `Traced` states it of
any two interpreters on the way, and is carried through each operation.
`LimitsKept` supposes `NoneGivenUp`: a run that is given up suspended leaves its
count behind, the disagreement on `exec_count` above.

`GraphicsProofs` proves, for every set of programs, patterns, forms, glyphs,
colour spaces and bound: `StatesInStep` (`StacksAgree`), `DeliveredClosed`
(`ContentsClosed`) and `DrawnRight` (`PaintsAsMeant`). The backend compares a
setting with its emitter and never looks at the content, so what has to be
invariant is that the two say the same: `Mirrors`, level by level of the stack
of saves. `Suspended` says it of every recording a capture interrupted, each
with the floor of the clips it began under, and `Recorded` of the one under
way. From there `EmissionFacts` follows a paint through the closing and opening
of clips and each step of flush, and `EmissionMeant` compares the outcome with
the program's state. What remains is the space of patterns: the page keeps one
resource for a pattern and a context, in the space of the capture in which the
two first met. `SpaceInv` says why that is the right one later: a program leaves
the space alone, or has no patterns, or has no glyphs, and then a context is
captured in one space only. `DrawnRight` supposes that each program is of one of
these sorts (`SpacesApart`), and `DeliveredClosed` that transformations have an
inverse (`Invertible`): without it each is one of the disagreements above.

`CowArenaProofs` proves, for every width, range of handles, set of contents and
number of saves: `WellFormedAlways` (`WellFormed`) and `CopiesArePrivate`
(`ImplementsSnapshots`). It assumes `StorageAssumption`, and the invariant is
`WellFormed` itself: what makes a write private is not a fact about states
between operations but about the memory halfway through one. The argument is
about one memory and another that comes of it. `Adds` says that a node was added
in one place; if it `Stands` for what was there - a clone, an empty node, a root
over the old root - then every way through the trie meets the same cell at its
end, and the two are `Alike`: no lookup in any map tells them apart. So the way
down (`DescendFacts`) changes nothing that can be seen. What it establishes is
`Owned`: each node on it has one owner, the place above. Two keys whose digits
are the same at every level are the same key (`SameDigits`), so a leaf owned like
that is met on one way only, from the arena's root with that key (`OnlyWay`,
`OnlyKey`), and what is put there shows in the arena, at that key, and nowhere
else (`Written`, `Inserted`). Dropping keeps whatever some place holds, and a
lookup goes from place to place, so it too is unseen (`CollectedFacts`). Each
action is then one of the store's, map by map.

`ShowProofs` proves, for every text, width, place and number of shows and
operators: `CapturesRun` (`CapturesAreRunning`) and `TextLands`
(`ShowsDeliver`). Both suppose `KeptStates`, that the program uses neither
`"pop"` nor `"refont"`: with them each is one of the disagreements above. The
saved states and the current one are taken as one stack (`Stack`). A glyph whose
procedure runs has a `Mark` in it, the state the glyph was given a copy of, and
leaving the glyph cuts the stack there. The invariant, `Good`, says that there
are as many captures as frames that run a glyph, that marks grow with the
frames, and that a run fits the state it will be drawn in (`RunFits`): the
places where its glyphs were run are those where they will be drawn, the sums
add up, and the state is the one the show found, or has had outlines added to
its path. That state is not the current one while a procedure runs: it is the
one at the mark (`GlyphsRun`), which procedures nested to any depth cannot reach
without `"pop"`. A show that waits for the procedure of kshow has handed on its
run and fits any state in its font (`Waits`, `FontsKept`); every other show that
waits is on top. `ScalesGrow` is why the width declared can be carried into the
space of the glyph without a rest. A step is followed operation by operation
with the show off the stack (`InHand`): each of the lemmas `PopFrame`,
`FinishGlyphFits`, `ConsumedFits`, `FlushFits`, `BeginGlyphFits` takes work that
is `Good` to work that is. The glyphs of a run and the frames an error discards
are consumed by recursive functions; that they are what iterating a step gives
is `IterateFrom` of `SequenceFacts`.

Only model-checked: the two liveness properties, `ComesBack` and `BudgetEnds`,
since fairness and ENABLED are out of the prover's reach; and
`FileTable`, `Document`, `Embedding`, `Operators`, `Scanner` and the codecs, whose
operators over chains of layers, nested resources, charstrings, nested
procedures and bytes are RECURSIVE, which it cannot expand. They would first have
to be written as recursive functions, as those of `Show` and `VM` are.

## Not modelled

- Access attributes, contents and sizes in `VM` (they are in `Operators`), and
  which space a slot is in, in `Operators` (it is in `VM`).
- What colour and images compute, and the image codecs (`jpeg.rs`). Of the fonts
  crate: the parsers, the layout of files, encryption, point lists, bitmaps.
- Operand stack contents in `Exec`, except by what an iteration finds (`fits`).
- Paths, arcs, matrices and marks of the backend; the bytes of PDF objects,
  downsampling and Info; the lookup of fonts, glyphs and encodings.
- Resource categories and their instances; strings of encoded numbers
  (`numbers.rs`).
- Tools, the site and the corpus: no core logic.

## Plan

1. `Resources`: local and global instances of a category under save and
   restore.
2. The composition of `Show` with `Graphics`: the settings a glyph capture
   inherits while its run is pending.
3. `BindFrom` of `Operators` as a recursive function, and `StorageAgrees` as a
   theorem; then `EveryIdWrittenOnce` of `Document` in the same way.
