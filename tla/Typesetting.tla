---------------------------- MODULE Typesetting ----------------------------
(***************************************************************************)
(* Compiling a template: the bundle becomes a file system and fonts, a world *)
(* is built around the entrypoint, and a batch keeps one world warm from     *)
(* item to item, losing it when an item times out.  Typst itself is a        *)
(* function of what the world shows it.                                      *)
(*                                                                           *)
(* Sources: papermake/src/render.rs, papermake/src/typst.rs, the hydration   *)
(* in registry/render.rs and render_one in registry/batch.rs.                *)
(***************************************************************************)
EXTENDS Inquiry

\* A bundle maps paths to contents; these are the paths there may be, in the
\* order hydration sorts them by.
PathOrder == <<"a.ttf", "b.otf", "header.typ", "main.typ">>
Paths == {PathOrder[i] : i \in DOMAIN PathOrder}
IsFontPath(path) == path \in {"a.ttf", "b.otf"}
Contents == {"x", "y"}

\* How a line of the entrypoint starts: the two prefixes of binds_data ended
\* by no identifier character, one that goes on (database, data-table), text.
Lines == {"#let data", "let data", "#let database", "text"}

Templates == [lines : {ls \in SUBSET Lines : Cardinality(ls) <= 1},
              bundle : UNION {[S \cup {"main.typ"} -> Contents] : S \in SUBSET (Paths \ {"main.typ"})},
              asks : {{}, {"header.typ"}}]

-----------------------------------------------------------------------------
(* Hydration and the world                                                   *)

BindsData(lines) == lines \cap {"#let data", "let data"} # {}

\* Each file is found under its path and under the path from the root.
Rooted(path) == <<"/", path>>
FileSystem(bundle) == [p \in {Rooted(path) : path \in DOMAIN bundle} |-> bundle[p[2]]]

\* The faces of the font files, in the order of their paths.
FontsOf(bundle) ==
    LET paths == SelectSeq(PathOrder, LAMBDA path : path \in DOMAIN bundle /\ IsFontPath(path))
    IN [i \in DOMAIN paths |-> bundle[paths[i]]]

\* with_file_system_and_fonts: the prelude binds data unless the template
\* does; the date is taken once.
World(t, data, day) ==
    [prelude |-> ~BindsData(t.lines), data |-> data, fonts |-> FontsOf(t.bundle),
     fs |-> FileSystem(t.bundle), today |-> day]

UpdateData(world, data) == [world EXCEPT !.data = data]

\* BatchCtx::build_world.
BuildWorldWithoutFonts(t, day) == [World(t, "{}", day) EXCEPT !.fonts = <<>>] \* mutant
BuildWorld(t, day) == World(t, "{}", day)

-----------------------------------------------------------------------------
(* PDF options                                                               *)

Versions == {"1.7", "2.0"}
PdfA == {"a-2b", "a-3b"}
Standards == Versions \cup PdfA \cup {"ua-1"}
OptionLists == UpTo(Standards, 2)

Plain == <<>>
Canonicalized(opts) == IF opts = <<"1.7">> THEN Plain ELSE opts
NamesOf(opts) == {opts[i] : i \in DOMAIN opts}
\* PdfStandards::new of typst_pdf: no duplicates, one version and one PDF/A.
ValidStandards(opts) ==
    /\ Cardinality(NamesOf(opts)) = Len(opts)
    /\ Cardinality(NamesOf(opts) \cap Versions) <= 1
    /\ Cardinality(NamesOf(opts) \cap PdfA) <= 1
    /\ ~("2.0" \in NamesOf(opts) /\ NamesOf(opts) \cap PdfA # {})

\* The exporter's view of the options: PDF/A gets a timestamp.
PdfOptions(opts) ==
    [standards |-> NamesOf(Canonicalized(opts)) \ {"1.7"}, stamped |-> NamesOf(opts) \cap PdfA # {}]

\* render_options_tag: the names in sorted order, with repetitions.
FirstOptionTag(opts) == \* mutant
    IF opts = Plain \/ Canonicalized(opts) = Plain THEN <<>> ELSE [s \in {opts[1]} |-> 1]
OptionsTag(opts) ==
    [s \in NamesOf(Canonicalized(opts)) |-> Cardinality({i \in DOMAIN opts : opts[i] = s})]
\* content_render_id_with_options, for one template and one input.
RenderIdFor(opts) == <<"manifest", "data", OptionsTag(opts)>>

-----------------------------------------------------------------------------
(* Rendering                                                                 *)

Missing == "missing"
Read(world, path) == IF Rooted(path) \in DOMAIN world.fs THEN world.fs[Rooted(path)] ELSE Missing

\* compile_world: a missing file is a diagnostic, and then there is no PDF.
CompileWorld(world, t, opts) ==
    LET reads == [p \in t.asks |-> Read(world, p)] IN
    [success |-> \A p \in t.asks : reads[p] # Missing,
     prelude |-> world.prelude, data |-> world.data, fonts |-> world.fonts, reads |-> reads,
     pdf |-> PdfOptions(opts), today |-> world.today]

ConfigError == [success |-> FALSE, why |-> "config"]
TimedOutRender == [success |-> FALSE, why |-> "timeout"]

\* render_template_with_fonts_and_options: a render of its own.
RenderOnce(t, data, opts, day) ==
    IF ValidStandards(opts) THEN CompileWorld(World(t, data, day), t, opts) ELSE ConfigError

\* render_template_with_cache_and_options: the options are looked at first.
RenderWarm(world, t, item, opts) ==
    IF item.late THEN TimedOutRender
    ELSE IF ValidStandards(opts) THEN CompileWorld(UpdateData(world, item.data), t, opts)
    ELSE ConfigError

\* A late item keeps its world; the next one gets a world built anew.
WorldAfter(world, t, item, opts) ==
    IF item.late THEN BuildWorld(t, item.day)
    ELSE IF ValidStandards(opts) THEN UpdateData(world, item.data) ELSE world

RenderBatch(t, items, opts) ==
    LET worlds[n \in 1..Len(items)] ==
            IF n = 1 THEN BuildWorld(t, items[1].day)
            ELSE WorldAfter(worlds[n - 1], t, items[n - 1], opts)
    IN [n \in DOMAIN items |-> RenderWarm(worlds[n], t, items[n], opts)]

-----------------------------------------------------------------------------
Items == {[data |-> d, late |-> l, day |-> 1] : d \in {"d1", "d2"}, l \in BOOLEAN}
Batches == {<<i, j, [data |-> "d3", late |-> FALSE, day |-> 2]>> : i, j \in Items}

TypesettingQuestions ==
    [kind : {"batch"}, template : Templates, items : Batches, opts : {Plain, <<"a-3b">>, <<"a-2b", "a-3b">>}]
    \cup [kind : {"options"}, first : OptionLists, second : OptionLists]

AnswerBatch == Answer("batch", RenderBatch(question.template, question.items, question.opts))
AnswerOptions == Answer("options", RenderIdFor(question.first) = RenderIdFor(question.second))
TypesettingNext == AnswerBatch \/ AnswerOptions

-----------------------------------------------------------------------------
\* An item of a batch comes out as it would alone: with its own data, and with
\* the template's files and fonts also after an item before it timed out.
\* Only the date may be older, that of the day the world was built.
WarmIsFresh == Replied("batch") =>
    \A n \in DOMAIN question.items :
        LET item == question.items[n]
            alone == RenderOnce(question.template, item.data, question.opts, item.day)
        IN item.late \/ (IF "why" \in DOMAIN alone THEN answer[n] = alone
                         ELSE /\ answer[n].today \in 1..item.day
                              /\ [answer[n] EXCEPT !.today = 0] = [alone EXCEPT !.today = 0])

\* "A PDF/A render never collides with the plain render": two requests share a
\* render id only if the export options they ask for are the same.
SameIdSameRender == (Replied("options") /\ answer) =>
    /\ ValidStandards(question.first) = ValidStandards(question.second)
    /\ ValidStandards(question.first) => PdfOptions(question.first) = PdfOptions(question.second)
=============================================================================
