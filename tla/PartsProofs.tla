---------------------------- MODULE PartsProofs ----------------------------
(***************************************************************************)
(* The pure functions, proved for every question and not only for those     *)
(* that fit the bounds of a run.                                            *)
(***************************************************************************)
EXTENDS References, Typesetting, Bundles, Summaries, Api, LeastNumber, SequenceTheorems

-----------------------------------------------------------------------------
(***************************************************************************)
(* Publishing: a bundle that passes its validation makes a manifest that    *)
(* passes its own, and no file of the form is lost on the way.              *)
(***************************************************************************)
BundleSpec == Asked(BundleQuestions) /\ [][BundleNext]_inquiry

\* What a reply to a publish form is.
Published ==
    /\ question \in BundleQuestions
    /\ reply = <<>> \/ reply = <<Publish(question.form)>>

\* The validation of the form is the stricter one.
LEMMA ValidBundleMakesValidManifest ==
    ASSUME NEW form \in Forms, ValidBundle(BundleOf(form))
    PROVE  /\ ValidManifest(ManifestOf(BundleOf(form)))
           /\ Entrypoint \notin DOMAIN BundleOf(form).files
<1> DEFINE bundle == BundleOf(form)
           manifest == ManifestOf(bundle)
<1>1. DOMAIN manifest.files = {Entrypoint} \cup DOMAIN bundle.files
  BY DEF ManifestOf
<1>2. manifest.metadata = bundle.metadata
  BY DEF ManifestOf
<1>3. \A path \in DOMAIN bundle.files : BundlePath(path)
  BY DEF ValidBundle
<1>4. ManifestPath(Entrypoint)
  BY DEF ManifestPath, Entrypoint, Blank, Absolute, Dotted
<1>5. \A path \in DOMAIN manifest.files : ManifestPath(path)
  BY <1>1, <1>3, <1>4 DEF BundlePath, ManifestPath
<1>6. QED
  BY <1>1, <1>2, <1>3, <1>5 DEF ValidManifest, ValidBundle, BundlePath

\* The files of the form are in the bundle, and the bundle is in the manifest.
LEMMA ManifestKeepsFiles ==
    ASSUME NEW form \in Forms, Entrypoint \notin DOMAIN BundleOf(form).files
    PROVE  LET bundle == BundleOf(form)
               files == ManifestOf(bundle).files
           IN  /\ files[Entrypoint] = form.main
               /\ \A path \in DOMAIN FilesOfForm(form.fields) :
                     files[path] = FilesOfForm(form.fields)[path]
               /\ {files[path] : path \in DOMAIN files}
                     \subseteq {bundle.main} \cup {bundle.files[path] : path \in DOMAIN bundle.files}
<1> DEFINE bundle == BundleOf(form)
           files == ManifestOf(bundle).files
           given == FilesOfForm(form.fields)
<1>1. bundle.main = form.main /\ DOMAIN given \subseteq DOMAIN bundle.files
  BY DEF BundleOf
<1>2. \A path \in DOMAIN given : bundle.files[path] = given[path]
  BY <1>1 DEF BundleOf
<1>3. files = [path \in {Entrypoint} \cup DOMAIN bundle.files |->
                  IF path \in DOMAIN bundle.files THEN bundle.files[path] ELSE bundle.main]
  BY DEF ManifestOf
<1> HIDE DEF bundle, files, given
<1>4. files[Entrypoint] = form.main
  BY <1>1, <1>3 DEF bundle
<1>5. \A path \in DOMAIN given : files[path] = given[path]
  BY <1>1, <1>2, <1>3
<1>6. {files[path] : path \in DOMAIN files}
          \subseteq {bundle.main} \cup {bundle.files[path] : path \in DOMAIN bundle.files}
  BY <1>3
<1>7. QED
  BY <1>4, <1>5, <1>6 DEF bundle, files, given

\* What publish lets through is a template that can be loaded, whatever the
\* form holds (publish_template, TemplateBundle::validate, Manifest::new).
THEOREM PublishedAreLoadable == BundleSpec => []PublishedIsLoadable
<1>1. Asked(BundleQuestions) => Published
  BY DEF Asked, Published
<1>2. Published /\ [BundleNext]_inquiry => Published'
  BY DEF Published, BundleNext, AnswerPublish, Answer, inquiry
<1>3. Published => PublishedIsLoadable
  <2> SUFFICES ASSUME Published, Replied("publish") PROVE PublishedIsLoadable
    BY DEF PublishedIsLoadable
  <2> DEFINE form == question.form
             bundle == BundleOf(form)
             manifest == ManifestOf(bundle)
  <2>1. form \in Forms /\ answer = Publish(form)
    BY DEF Published, Replied, BundleQuestions, answer
  <2>2. CASE Absent \in {form.main, form.metadata} \/ ~ValidBundle(bundle)
    <3>1. answer.outcome = "refused"
      BY <2>1, <2>2 DEF Publish
    <3>2. QED
      BY <3>1 DEF PublishedIsLoadable
  <2>3. CASE ~(Absent \in {form.main, form.metadata} \/ ~ValidBundle(bundle))
    <3>1. ValidManifest(manifest) /\ Entrypoint \notin DOMAIN bundle.files
      BY <2>1, <2>3, ValidBundleMakesValidManifest
    <3>2. answer = [outcome |-> "published", manifest |-> manifest,
                    stored |-> {bundle.main} \cup {bundle.files[path] : path \in DOMAIN bundle.files}]
      BY <2>1, <2>3, <3>1 DEF Publish
    <3> HIDE DEF bundle, manifest, form
    <3>3. /\ answer.outcome = "published" /\ answer.manifest = manifest
          /\ answer.stored = {bundle.main} \cup {bundle.files[path] : path \in DOMAIN bundle.files}
      BY <3>2
    <3>4. /\ manifest.files[Entrypoint] = form.main
          /\ \A path \in DOMAIN FilesOfForm(form.fields) :
                manifest.files[path] = FilesOfForm(form.fields)[path]
          /\ {manifest.files[path] : path \in DOMAIN manifest.files} \subseteq answer.stored
      BY <2>1, <3>1, <3>3, ManifestKeepsFiles DEF bundle, manifest
    <3>5. QED
      BY <3>1, <3>3, <3>4 DEF PublishedIsLoadable, form
  <2>4. QED
    BY <2>2, <2>3
<1>4. QED
  BY <1>1, <1>2, <1>3, PTL DEF BundleSpec

-----------------------------------------------------------------------------
(***************************************************************************)
(* Warm worlds: whatever the items of a batch are, and whichever of them    *)
(* time out, the world an item gets is the template's, but for the date.    *)
(***************************************************************************)
TypesettingSpec == Asked(TypesettingQuestions) /\ [][TypesettingNext]_inquiry

\* What the items of a batch are, for any data and at days that never go back.
AnyItem(Data) == [data : Data, late : BOOLEAN, day : Nat \ {0}]
InOrder(items) == \A i, j \in DOMAIN items : i <= j => items[i].day <= items[j].day

\* The worlds of a batch, one for each item, as RenderBatch computes them.
Chain(w, m, t, items, opts) ==
    w = [n \in 1..m |-> IF n = 1 THEN BuildWorld(t, items[1].day)
                        ELSE WorldAfter(w[n - 1], t, items[n - 1], opts)]
Worlds(t, items, opts) == CHOOSE w : Chain(w, Len(items), t, items, opts)

\* A world of template t that was built on one of the days up to the given one.
Warm(world, t, day) ==
    \E data : \E today \in 1..day : world = World(t, data, today)

\* A world as it was built, and as it is after more items.
LEMMA WarmBuilt ==
    ASSUME NEW t, NEW data, NEW day \in Nat, NEW today \in 1..day
    PROVE  Warm(World(t, data, today), t, day)
BY Zenon DEF Warm

\* A world built on a day is warm on that day and later.
LEMMA BuiltIsWarm ==
    ASSUME NEW t, NEW day \in Nat, NEW today \in 1..day
    PROVE  Warm(BuildWorld(t, today), t, day)
BY WarmBuilt DEF BuildWorld

\* What was warm stays so for a later item.
LEMMA WarmLater ==
    ASSUME NEW t, NEW world, NEW day \in Nat, NEW later \in Nat, day <= later,
           Warm(world, t, day)
    PROVE  Warm(world, t, later)
<1>1. PICK data : \E today \in 1..day : world = World(t, data, today)
  BY Zenon DEF Warm
<1>2. PICK today \in 1..day : world = World(t, data, today)
  BY <1>1
<1>3. today \in 1..later
  OBVIOUS
<1>4. QED
  BY <1>2, <1>3, WarmBuilt, Zenon

\* The worlds exist: each is made of the one before.
LEMMA ChainExists ==
    ASSUME NEW t, NEW items, NEW opts
    PROVE  \A m \in Nat : \E w : Chain(w, m, t, items, opts)
<1> DEFINE S == {m \in Nat : \E w : Chain(w, m, t, items, opts)}
<1>1. 0 \in S
  <2>1. Chain([n \in 1..0 |-> 0], 0, t, items, opts)
    BY DEF Chain
  <2>2. QED
    BY <2>1
<1>2. ASSUME NEW m \in Nat, m \in S PROVE m + 1 \in S
  <2>1. PICK w : Chain(w, m, t, items, opts)
    BY <1>2
  <2> DEFINE new == IF m + 1 = 1 THEN BuildWorld(t, items[1].day)
                    ELSE WorldAfter(w[m], t, items[m], opts)
             v == [n \in 1..m + 1 |-> IF n = m + 1 THEN new ELSE w[n]]
  <2>2. ASSUME NEW n \in 1..m + 1
        PROVE  v[n] = IF n = 1 THEN BuildWorld(t, items[1].day)
                      ELSE WorldAfter(v[n - 1], t, items[n - 1], opts)
    <3>1. CASE n = m + 1
      <4>1. v[n] = new
        BY <3>1
      <4>2. n # 1 => n - 1 = m /\ v[n - 1] = w[m]
        BY <3>1
      <4>3. QED
        BY <3>1, <4>1, <4>2
    <3>2. CASE n # m + 1
      <4>1. n \in 1..m /\ v[n] = w[n] /\ (n # 1 => v[n - 1] = w[n - 1])
        BY <3>2
      <4>2. w[n] = IF n = 1 THEN BuildWorld(t, items[1].day)
                   ELSE WorldAfter(w[n - 1], t, items[n - 1], opts)
        BY <2>1, <4>1 DEF Chain
      <4>3. QED
        BY <4>1, <4>2
    <3>3. QED
      BY <3>1, <3>2
  <2> HIDE DEF new
  <2>3. v = [n \in 1..m + 1 |-> v[n]]
    OBVIOUS
  <2> HIDE DEF v
  <2>4. Chain(v, m + 1, t, items, opts)
    BY <2>2, <2>3 DEF Chain
  <2>5. QED
    BY <2>4
<1> HIDE DEF S
<1>3. \A m \in Nat : m \in S
  BY <1>1, <1>2, SetInduction
<1>4. QED
  BY <1>3 DEF S

\* RenderBatch gives each item its world.
LEMMA RenderBatchFacts ==
    ASSUME NEW t, NEW Data, NEW items \in Seq(AnyItem(Data)), NEW opts
    PROVE  /\ Chain(Worlds(t, items, opts), Len(items), t, items, opts)
           /\ RenderBatch(t, items, opts)
                = [n \in DOMAIN items |-> RenderWarm(Worlds(t, items, opts)[n], t, items[n], opts)]
<1>1. Chain(Worlds(t, items, opts), Len(items), t, items, opts)
  BY ChainExists DEF Worlds
<1>2. QED
  BY <1>1 DEF RenderBatch, Worlds, Chain

\* A world that is kept or built anew stays warm.
LEMMA WarmStays ==
    ASSUME NEW t, NEW opts, NEW Data, NEW item \in AnyItem(Data), NEW day \in Nat, item.day <= day,
           NEW world, Warm(world, t, day)
    PROVE  Warm(WorldAfter(world, t, item, opts), t, day)
<1>1. PICK data : \E today \in 1..day : world = World(t, data, today)
  BY DEF Warm
<1>2. Warm(BuildWorld(t, item.day), t, day)
  <2>1. item.day \in 1..day
    BY DEF AnyItem
  <2>2. QED
    BY <2>1, BuiltIsWarm
<1>3. Warm(UpdateData(world, item.data), t, day)
  <2>1. PICK today \in 1..day : world = World(t, data, today)
    BY <1>1
  <2>2. UpdateData(world, item.data) = World(t, item.data, today)
    BY <2>1 DEF UpdateData, World
  <2>3. QED
    BY <2>2, WarmBuilt
<1>4. QED
  BY <1>2, <1>3 DEF WorldAfter

\* So every item gets a warm one.
LEMMA WorldsAreWarm ==
    ASSUME NEW t, NEW Data, NEW items \in Seq(AnyItem(Data)), InOrder(items), NEW opts
    PROVE  \A n \in DOMAIN items : Warm(Worlds(t, items, opts)[n], t, items[n].day)
<1> DEFINE w == Worlds(t, items, opts)
           S == {n \in Nat : n \in DOMAIN items => Warm(w[n], t, items[n].day)}
<1>1. Chain(w, Len(items), t, items, opts) /\ DOMAIN items = 1..Len(items) /\ Len(items) \in Nat
  BY RenderBatchFacts
<1>2. \A n \in DOMAIN items : items[n] \in AnyItem(Data) /\ items[n].day \in Nat \ {0}
  <2>1. \A n \in DOMAIN items : items[n] \in AnyItem(Data)
    OBVIOUS
  <2>2. \A item \in AnyItem(Data) : item.day \in Nat \ {0}
    BY DEF AnyItem
  <2>3. QED
    BY <2>1, <2>2
<1> HIDE DEF w
<1>3. 0 \in S
  BY <1>1
<1>4. ASSUME NEW n \in Nat, n \in S PROVE n + 1 \in S
  <2> SUFFICES ASSUME n + 1 \in DOMAIN items PROVE Warm(w[n + 1], t, items[n + 1].day)
    OBVIOUS
  <2>1. CASE n = 0
    <3>1. w[n + 1] = BuildWorld(t, items[1].day) /\ items[1].day \in 1..items[1].day
      BY <1>1, <1>2, <2>1 DEF Chain
    <3>2. Warm(BuildWorld(t, items[1].day), t, items[1].day)
      BY <1>2, <3>1, BuiltIsWarm
    <3>3. QED
      BY <2>1, <3>1, <3>2
  <2>2. CASE n # 0
    <3>1. n \in DOMAIN items /\ w[n + 1] = WorldAfter(w[n], t, items[n], opts)
      BY <1>1, <2>2 DEF Chain
    <3>2. Warm(w[n], t, items[n].day) /\ items[n].day <= items[n + 1].day
      BY <1>4, <3>1 DEF InOrder
    <3>3. Warm(w[n], t, items[n + 1].day)
      BY <1>2, <3>1, <3>2, WarmLater
    <3>4. QED
      BY <1>2, <3>1, <3>2, <3>3, WarmStays
  <2>3. QED
    BY <2>1, <2>2
<1>5. \A n \in Nat : n \in S
  <2> HIDE DEF S
  <2> QED BY <1>3, <1>4, SetInduction
<1>6. QED
  BY <1>1, <1>5 DEF w

-----------------------------------------------------------------------------
\* What the code promises of an item: it comes out as it would alone, but for
\* the day of the world it was compiled in.
FreshRender(render, t, item, opts) ==
    LET alone == RenderOnce(t, item.data, opts, item.day)
    IN item.late \/ (IF "why" \in DOMAIN alone THEN render = alone
                     ELSE /\ render.today \in 1..item.day
                          /\ [render EXCEPT !.today = 0] = [alone EXCEPT !.today = 0])

\* Two worlds of a template with the same data differ only in their day, and
\* so does what they compile to.
LEMMA SameButForTheDay ==
    ASSUME NEW t, NEW data, NEW opts, NEW day, NEW today
    PROVE  LET one == CompileWorld(World(t, data, today), t, opts)
               other == CompileWorld(World(t, data, day), t, opts)
           IN  /\ one.today = today
               /\ [one EXCEPT !.today = 0] = [other EXCEPT !.today = 0]
               /\ "why" \notin DOMAIN other
<1>1. \A p : Read(World(t, data, today), p) = Read(World(t, data, day), p)
  BY DEF Read, World
<1> DEFINE reads == [p \in t.asks |-> Read(World(t, data, day), p)]
           compiled(x) == [success |-> \A p \in t.asks : reads[p] # Missing,
                           prelude |-> ~BindsData(t.lines), data |-> data,
                           fonts |-> FontsOf(t.bundle), reads |-> reads,
                           pdf |-> PdfOptions(opts), today |-> x]
<1>2. [p \in t.asks |-> Read(World(t, data, today), p)] = reads
  BY <1>1
<1>3. CompileWorld(World(t, data, day), t, opts) = compiled(day)
  BY DEF CompileWorld, World
<1>4. CompileWorld(World(t, data, today), t, opts) = compiled(today)
  BY <1>2 DEF CompileWorld, World
<1>5. compiled(today).today = today
  BY DEF compiled
<1>6. ASSUME NEW x PROVE [compiled(x) EXCEPT !.today = 0] = compiled(0)
  <2> DEFINE success == \A p \in t.asks : reads[p] # Missing
             prelude == ~BindsData(t.lines)
             fonts == FontsOf(t.bundle)
             pdf == PdfOptions(opts)
  <2> HIDE DEF success, prelude, fonts, pdf, reads
  <2>1. [[success |-> success, prelude |-> prelude, data |-> data, fonts |-> fonts,
          reads |-> reads, pdf |-> pdf, today |-> x] EXCEPT !.today = 0]
        = [success |-> success, prelude |-> prelude, data |-> data, fonts |-> fonts,
           reads |-> reads, pdf |-> pdf, today |-> 0]
    OBVIOUS
  <2>2. QED
    BY <2>1 DEF compiled, success, prelude, fonts, pdf
<1>7. "why" \notin DOMAIN compiled(day)
  <2> HIDE DEF reads
  <2> QED OBVIOUS
<1> HIDE DEF compiled
<1>8. QED
  BY <1>3, <1>4, <1>5, <1>6, <1>7

\* A warm world renders an item afresh.
LEMMA WarmRendersFresh ==
    ASSUME NEW t, NEW opts, NEW Data, NEW item \in AnyItem(Data), NEW world, Warm(world, t, item.day)
    PROVE  FreshRender(RenderWarm(world, t, item, opts), t, item, opts)
<1>1. PICK data : \E today \in 1..item.day : world = World(t, data, today)
  BY DEF Warm
<1>2. PICK today \in 1..item.day : world = World(t, data, today)
  BY <1>1
<1>3. UpdateData(world, item.data) = World(t, item.data, today)
  BY <1>2 DEF UpdateData, World
<1>4. CASE item.late
  BY <1>4 DEF FreshRender
<1>5. CASE ~item.late /\ ~ValidStandards(opts)
  <2>1. /\ RenderWarm(world, t, item, opts) = ConfigError
        /\ RenderOnce(t, item.data, opts, item.day) = ConfigError
    BY <1>5 DEF RenderWarm, RenderOnce
  <2>2. "why" \in DOMAIN ConfigError
    BY DEF ConfigError
  <2>3. QED
    BY <2>1, <2>2 DEF FreshRender
<1>6. CASE ~item.late /\ ValidStandards(opts)
  <2>1. /\ RenderWarm(world, t, item, opts) = CompileWorld(World(t, item.data, today), t, opts)
        /\ RenderOnce(t, item.data, opts, item.day)
             = CompileWorld(World(t, item.data, item.day), t, opts)
    BY <1>3, <1>6 DEF RenderWarm, RenderOnce
  <2>2. QED
    BY <2>1, SameButForTheDay DEF FreshRender
<1>7. QED
  BY <1>4, <1>5, <1>6

\* However many items a batch has, in whatever template, and whichever of them
\* time out (BatchCtx in papermake-registry/src/registry/batch.rs).
THEOREM BatchIsFresh ==
    ASSUME NEW t, NEW Data, NEW items \in Seq(AnyItem(Data)), InOrder(items), NEW opts
    PROVE  \A n \in DOMAIN items :
              FreshRender(RenderBatch(t, items, opts)[n], t, items[n], opts)
<1> TAKE n \in DOMAIN items
<1>1. items[n] \in AnyItem(Data)
  OBVIOUS
<1>2. Warm(Worlds(t, items, opts)[n], t, items[n].day)
  BY WorldsAreWarm
<1>3. RenderBatch(t, items, opts)[n] = RenderWarm(Worlds(t, items, opts)[n], t, items[n], opts)
  BY RenderBatchFacts
<1>4. QED
  BY <1>1, <1>2, <1>3, WarmRendersFresh

\* The data of the items that are asked about.
ItemData == {"d1", "d2", "d3"}

\* The batches that are asked about are such batches.
LEMMA BatchesAreInOrder ==
    ASSUME NEW items \in Batches
    PROVE  items \in Seq(AnyItem(ItemData)) /\ InOrder(items)
<1>1. PICK i \in Items, j \in Items : items = <<i, j, [data |-> "d3", late |-> FALSE, day |-> 2]>>
  BY DEF Batches
<1>2. i \in AnyItem(ItemData) /\ j \in AnyItem(ItemData) /\ i.day = 1 /\ j.day = 1
  BY DEF Items, AnyItem, ItemData
<1>3. [data |-> "d3", late |-> FALSE, day |-> 2] \in AnyItem(ItemData)
  BY DEF AnyItem, ItemData
<1>4. items \in Seq(AnyItem(ItemData))
  BY <1>1, <1>2, <1>3
<1>5. DOMAIN items = 1..3 /\ items[1] = i /\ items[2] = j /\ items[3].day = 2
  BY <1>1
<1>6. QED
  BY <1>2, <1>4, <1>5 DEF InOrder

\* What a reply about a batch is.
Batched ==
    /\ question \in TypesettingQuestions
    /\ question.kind = "batch" =>
          reply = <<>> \/ reply = <<RenderBatch(question.template, question.items, question.opts)>>

\* An item of a batch comes out as it would alone, also after an item before
\* it timed out (render_one and BatchCtx::build_world).
THEOREM BatchesAreFresh == TypesettingSpec => []WarmIsFresh
<1>1. Asked(TypesettingQuestions) => Batched
  BY DEF Asked, Batched
<1>2. Batched /\ [TypesettingNext]_inquiry => Batched'
  BY DEF Batched, TypesettingNext, AnswerBatch, AnswerOptions, Answer, inquiry
<1>3. Batched => WarmIsFresh
  <2> SUFFICES ASSUME Batched, Replied("batch") PROVE WarmIsFresh
    BY DEF WarmIsFresh
  <2>1. /\ question.items \in Batches
        /\ answer = RenderBatch(question.template, question.items, question.opts)
    BY DEF Batched, Replied, TypesettingQuestions, answer
  <2>2. \A n \in DOMAIN question.items :
           FreshRender(answer[n], question.template, question.items[n], question.opts)
    BY <2>1, BatchesAreInOrder, BatchIsFresh
  <2>3. QED
    BY <2>2 DEF FreshRender, WarmIsFresh
<1>4. QED
  BY <1>1, <1>2, <1>3, PTL DEF TypesettingSpec

-----------------------------------------------------------------------------
(***************************************************************************)
(* Render ids: the option tag tells apart what the exporter tells apart, for *)
(* any list of option names.                                                 *)
(***************************************************************************)
\* A list repeats no name if each of its names is there once.
LEMMA OnceEach ==
    ASSUME NEW S, NEW opts \in Seq(S)
    PROVE  Cardinality(NamesOf(opts)) = Len(opts)
             <=> \A s \in NamesOf(opts) : Cardinality({i \in DOMAIN opts : opts[i] = s}) = 1
<1> DEFINE n == Len(opts)
           at(s) == {i \in 1..n : opts[i] = s}
<1>1. n \in Nat /\ DOMAIN opts = 1..n
  OBVIOUS
<1>2. IsFiniteSet(1..n) /\ Cardinality(1..n) = n
  BY <1>1, FS_Interval
<1>3. opts \in Surjection(1..n, NamesOf(opts))
  <2>1. opts \in [1..n -> NamesOf(opts)]
    BY <1>1 DEF NamesOf
  <2>2. QED
    BY <1>1, <2>1 DEF Surjection, NamesOf
<1>4. Cardinality(NamesOf(opts)) = n <=> opts \in Injection(1..n, NamesOf(opts))
  BY <1>2, <1>3, FS_Surjection
<1>5. opts \in Injection(1..n, NamesOf(opts)) <=> \A i, j \in 1..n : opts[i] = opts[j] => i = j
  <2>1. opts \in [1..n -> NamesOf(opts)]
    BY <1>1 DEF NamesOf
  <2>2. QED
    BY <2>1 DEF Injection, IsInjective
<1>6. \A s : IsFiniteSet(at(s))
  BY <1>2, FS_Subset
<1>7. ASSUME \A i, j \in 1..n : opts[i] = opts[j] => i = j, NEW s \in NamesOf(opts)
      PROVE  Cardinality(at(s)) = 1
  <2>1. PICK i \in 1..n : opts[i] = s
    BY <1>1 DEF NamesOf
  <2>2. at(s) = {i}
    BY <1>7, <2>1
  <2>3. QED
    BY <2>2, FS_Singleton
<1>8. ASSUME \A s \in NamesOf(opts) : Cardinality(at(s)) = 1,
             NEW i \in 1..n, NEW j \in 1..n, opts[i] = opts[j]
      PROVE  i = j
  <2>1. opts[i] \in NamesOf(opts)
    BY <1>1 DEF NamesOf
  <2>2. PICK x : at(opts[i]) = {x}
    <3>1. IsFiniteSet(at(opts[i])) /\ Cardinality(at(opts[i])) = 1
      BY <1>6, <1>8, <2>1
    <3> HIDE DEF at
    <3>2. QED
      BY <3>1, FS_Singleton
  <2>3. i \in at(opts[i]) /\ j \in at(opts[i])
    BY <1>8
  <2>4. QED
    BY <2>2, <2>3
<1>9. (\A i, j \in 1..n : opts[i] = opts[j] => i = j)
        <=> \A s \in NamesOf(opts) : Cardinality(at(s)) = 1
  <2> HIDE DEF at
  <2> QED BY <1>7, <1>8
<1>10. QED
  BY <1>1, <1>4, <1>5, <1>9

\* The list that is taken for none, and its neighbour.
LEMMA PlainLists ==
    ASSUME NEW opts \in {Plain, <<"1.7">>}
    PROVE  ValidStandards(opts) /\ PdfOptions(opts) = [standards |-> {}, stamped |-> FALSE]
<1>1. CASE opts = Plain
  <2>1. NamesOf(opts) = {} /\ Canonicalized(opts) = Plain /\ Len(opts) = 0
    BY <1>1 DEF NamesOf, Canonicalized, Plain
  <2>2. NamesOf(Canonicalized(opts)) = {}
    BY <1>1, <2>1
  <2>3. Cardinality({}) = 0
    BY FS_EmptySet
  <2>4. NamesOf(opts) \cap Versions = {} /\ NamesOf(opts) \cap PdfA = {}
    BY <2>1
  <2>5. /\ Cardinality(NamesOf(opts)) = 0 /\ "2.0" \notin NamesOf(opts)
        /\ Cardinality(NamesOf(opts) \cap Versions) = 0 /\ Cardinality(NamesOf(opts) \cap PdfA) = 0
    BY <2>1, <2>3, <2>4, Zenon
  <2>6. ValidStandards(opts)
    BY <2>1, <2>5 DEF ValidStandards
  <2>7. QED
    BY <2>2, <2>4, <2>6 DEF PdfOptions
<1>2. CASE opts = <<"1.7">>
  <2>1. NamesOf(opts) = {"1.7"} /\ Len(opts) = 1
    BY <1>2 DEF NamesOf
  <2>2. NamesOf(Canonicalized(opts)) = {}
    BY <1>2 DEF NamesOf, Canonicalized, Plain
  <2>3. Cardinality({"1.7"}) = 1 /\ Cardinality({}) = 0
    BY FS_Singleton, FS_EmptySet
  <2>4. NamesOf(opts) \cap Versions = {"1.7"} /\ NamesOf(opts) \cap PdfA = {}
    BY <2>1 DEF Versions, PdfA
  <2>5. /\ Cardinality(NamesOf(opts)) = 1
        /\ Cardinality(NamesOf(opts) \cap Versions) = 1 /\ Cardinality(NamesOf(opts) \cap PdfA) = 0
    BY <2>1, <2>3, <2>4, Zenon
  <2>6. "2.0" \notin NamesOf(opts)
    BY <2>1
  <2>7. ValidStandards(opts)
    BY <2>1, <2>5, <2>6 DEF ValidStandards
  <2>8. QED
    BY <2>2, <2>4, <2>7 DEF PdfOptions
<1>3. QED
  BY <1>1, <1>2

\* Only these two have the tag of no options.
LEMMA TagOfNone ==
    ASSUME NEW S, NEW opts \in Seq(S)
    PROVE  NamesOf(Canonicalized(opts)) = {} <=> opts \in {Plain, <<"1.7">>}
<1>1. CASE opts = <<"1.7">>
  BY <1>1 DEF NamesOf, Canonicalized, Plain
<1>2. CASE opts # <<"1.7">>
  <2>1. Canonicalized(opts) = opts
    BY <1>2 DEF Canonicalized
  <2>2. NamesOf(opts) = {} <=> Len(opts) = 0
    <3>1. DOMAIN opts = 1..Len(opts) /\ Len(opts) \in Nat
      OBVIOUS
    <3>2. Len(opts) # 0 => opts[1] \in NamesOf(opts)
      BY <3>1 DEF NamesOf
    <3>3. Len(opts) = 0 => NamesOf(opts) = {}
      BY <3>1 DEF NamesOf
    <3>4. NamesOf(opts) = {} => Len(opts) = 0
      BY <3>2
    <3>5. QED
      BY <3>3, <3>4
  <2>3. Len(opts) = 0 <=> opts = Plain
    BY DEF Plain
  <2>4. QED
    BY <1>2, <2>1, <2>2, <2>3
<1>3. QED
  BY <1>1, <1>2

\* "A PDF/A render never collides with the plain render", for option lists of
\* any length (render_options_tag in papermake-registry).
THEOREM TagTellsOptionsApart ==
    ASSUME NEW S, NEW first \in Seq(S), NEW second \in Seq(S),
           OptionsTag(first) = OptionsTag(second)
    PROVE  /\ ValidStandards(first) = ValidStandards(second)
           /\ PdfOptions(first) = PdfOptions(second)
<1> DEFINE times(opts, s) == Cardinality({i \in DOMAIN opts : opts[i] = s})
<1>1. NamesOf(Canonicalized(first)) = NamesOf(Canonicalized(second))
  <2>1. \A opts : DOMAIN OptionsTag(opts) = NamesOf(Canonicalized(opts))
    BY DEF OptionsTag
  <2>2. QED
    BY <2>1
<1>2. CASE NamesOf(Canonicalized(first)) = {}
  <2>1. first \in {Plain, <<"1.7">>} /\ second \in {Plain, <<"1.7">>}
    BY <1>1, <1>2, TagOfNone
  <2>2. ValidStandards(first) = TRUE /\ ValidStandards(second) = TRUE
    BY <2>1, PlainLists DEF ValidStandards
  <2>3. QED
    BY <2>1, <2>2, PlainLists
<1>3. CASE NamesOf(Canonicalized(first)) # {}
  <2>1. first # <<"1.7">> /\ second # <<"1.7">>
    BY <1>1, <1>3, TagOfNone
  <2>2. Canonicalized(first) = first /\ Canonicalized(second) = second
    BY <2>1 DEF Canonicalized
  <2>3. NamesOf(first) = NamesOf(second)
    BY <1>1, <2>2
  <2>4. \A s \in NamesOf(first) : times(first, s) = times(second, s)
    <3>1. \A s \in NamesOf(first) : OptionsTag(first)[s] = times(first, s)
      BY <2>2 DEF OptionsTag
    <3>2. \A s \in NamesOf(second) : OptionsTag(second)[s] = times(second, s)
      BY <2>2 DEF OptionsTag
    <3>3. QED
      BY <2>3, <3>1, <3>2
  <2>5. Cardinality(NamesOf(first)) = Len(first) <=> \A s \in NamesOf(first) : times(first, s) = 1
    BY OnceEach
  <2>6. Cardinality(NamesOf(second)) = Len(second) <=> \A s \in NamesOf(second) : times(second, s) = 1
    BY OnceEach
  <2>7. Cardinality(NamesOf(first)) = Len(first) <=> Cardinality(NamesOf(second)) = Len(second)
    <3> HIDE DEF times
    <3> QED BY <2>3, <2>4, <2>5, <2>6
  <2>8. ValidStandards(first) = ValidStandards(second)
    BY <2>3, <2>7, Zenon DEF ValidStandards
  <2>9. PdfOptions(first) = PdfOptions(second)
    BY <2>2, <2>3 DEF PdfOptions
  <2>10. QED
    BY <2>8, <2>9
<1>4. QED
  BY <1>2, <1>3

\* What a reply about two lists of options is.
Compared ==
    /\ question \in TypesettingQuestions
    /\ question.kind = "options" =>
          reply = <<>> \/ reply = <<RenderIdFor(question.first) = RenderIdFor(question.second)>>

\* Two requests share a render id only if the options they ask for are the
\* same (content_render_id_with_options).
THEOREM SameIdsSameRenders == TypesettingSpec => []SameIdSameRender
<1>1. Asked(TypesettingQuestions) => Compared
  BY DEF Asked, Compared
<1>2. Compared /\ [TypesettingNext]_inquiry => Compared'
  BY DEF Compared, TypesettingNext, AnswerBatch, AnswerOptions, Answer, inquiry
<1>3. Compared => SameIdSameRender
  <2> SUFFICES ASSUME Compared, Replied("options"), answer PROVE SameIdSameRender
    BY DEF SameIdSameRender
  <2>1. question.first \in OptionLists /\ question.second \in OptionLists
    BY DEF Compared, Replied, TypesettingQuestions
  <2>2. RenderIdFor(question.first) = RenderIdFor(question.second)
    <3>1. reply = <<RenderIdFor(question.first) = RenderIdFor(question.second)>>
      BY Zenon DEF Compared, Replied
    <3>2. \A x : <<x>>[1] = x
      OBVIOUS
    <3>3. QED
      BY <3>1, <3>2, Zenon DEF answer
  <2>3. OptionsTag(question.first) = OptionsTag(question.second)
    BY <2>2 DEF RenderIdFor
  <2>4. ASSUME NEW opts \in OptionLists PROVE opts \in Seq(Standards)
    <3>1. PICK k \in 0..2 : opts \in [1..k -> Standards]
      BY DEF OptionLists, UpTo
    <3>2. k \in Nat
      OBVIOUS
    <3> HIDE DEF Standards
    <3>3. QED
      BY <3>1, <3>2
  <2>5. QED
    BY <2>1, <2>3, <2>4, TagTellsOptionsApart DEF SameIdSameRender
<1>4. QED
  BY <1>1, <1>2, <1>3, PTL DEF TypesettingSpec

-----------------------------------------------------------------------------
(***************************************************************************)
(* Keys: a listing takes no kind of object for another.                     *)
(***************************************************************************)
\* A sequence of one element.
LEMMA OneSegment ==
    ASSUME NEW S, NEW key \in Seq(S), Len(key) = 1
    PROVE  key = <<key[1]>>
OBVIOUS

\* Of two.
LEMMA TwoSegments ==
    ASSUME NEW S, NEW key \in Seq(S), Len(key) = 2
    PROVE  key = <<key[1], key[2]>>
OBVIOUS

\* Of four.
LEMMA FourSegments ==
    ASSUME NEW S, NEW key \in Seq(S), Len(key) = 4
    PROVE  key = <<key[1], key[2], key[3], key[4]>>
OBVIOUS

\* Of five.
LEMMA FiveSegments ==
    ASSUME NEW S, NEW key \in Seq(S), Len(key) = 5
    PROVE  key = <<key[1], key[2], key[3], key[4], key[5]>>
OBVIOUS

\* What it means for a key to be under jobs/ or under jobs/pending/.
LEMMA Prefixes ==
    ASSUME NEW S, NEW key \in Seq(S)
    PROVE  /\ HasPrefix(key, <<"jobs">>) <=> Len(key) >= 1 /\ key[1] = "jobs"
           /\ HasPrefix(key, <<"jobs", "pending">>) <=>
                Len(key) >= 2 /\ key[1] = "jobs" /\ key[2] = "pending"
<1>1. Len(key) \in Nat
  OBVIOUS
<1>2. ASSUME Len(key) >= 1 PROVE SubSeq(key, 1, 1) = <<key[1]>>
  <2>1. SubSeq(key, 1, 1) \in Seq(S) /\ Len(SubSeq(key, 1, 1)) = 1 /\ SubSeq(key, 1, 1)[1] = key[1]
    BY <1>1, <1>2
  <2>2. SubSeq(key, 1, 1) = <<SubSeq(key, 1, 1)[1]>>
    BY <2>1, OneSegment, Zenon
  <2>3. QED
    BY <2>1, <2>2, Zenon
<1>3. ASSUME Len(key) >= 2 PROVE SubSeq(key, 1, 2) = <<key[1], key[2]>>
  <2>1. /\ SubSeq(key, 1, 2) \in Seq(S) /\ Len(SubSeq(key, 1, 2)) = 2
        /\ SubSeq(key, 1, 2)[1] = key[1] /\ SubSeq(key, 1, 2)[2] = key[2]
    BY <1>1, <1>3
  <2>2. SubSeq(key, 1, 2) = <<SubSeq(key, 1, 2)[1], SubSeq(key, 1, 2)[2]>>
    BY <2>1, TwoSegments, Zenon
  <2>3. QED
    BY <2>1, <2>2, Zenon
<1>4. HasPrefix(key, <<"jobs">>) <=> Len(key) >= 1 /\ SubSeq(key, 1, 1) = <<"jobs">>
  BY <1>1 DEF HasPrefix
<1>5. HasPrefix(key, <<"jobs">>) <=> Len(key) >= 1 /\ key[1] = "jobs"
  <2>1. ASSUME Len(key) >= 1 PROVE SubSeq(key, 1, 1) = <<"jobs">> <=> key[1] = "jobs"
    <3>1. <<key[1]>> = <<"jobs">> <=> key[1] = "jobs"
      OBVIOUS
    <3>2. QED
      BY <1>2, <2>1, <3>1
  <2>2. QED
    BY <1>4, <2>1
<1>6. HasPrefix(key, <<"jobs", "pending">>) <=> Len(key) >= 2 /\ key[1] = "jobs" /\ key[2] = "pending"
  <2>1. HasPrefix(key, <<"jobs", "pending">>) <=>
           Len(key) >= 2 /\ SubSeq(key, 1, 2) = <<"jobs", "pending">>
    BY <1>1 DEF HasPrefix
  <2>2. ASSUME Len(key) >= 2
        PROVE  SubSeq(key, 1, 2) = <<"jobs", "pending">> <=> key[1] = "jobs" /\ key[2] = "pending"
    <3>1. <<key[1], key[2]>> = <<"jobs", "pending">> <=> key[1] = "jobs" /\ key[2] = "pending"
      OBVIOUS
    <3>2. QED
      BY <1>3, <2>2, <3>1
  <2>3. QED
    BY <2>1, <2>2
<1>7. QED
  BY <1>5, <1>6

\* A pending marker's key is read back, and no other key is taken for one.
LEMMA PendingKeyReadsBack ==
    ASSUME NEW S, NEW key \in Seq(S), NEW job, NEW shard
    PROVE  ParsePendingKey(key) = Shard(job, shard) <=> key = PendingKey(job, shard)
<1>1. Shard(job, shard) # Refused("key")
  BY DEF Shard, Refused
<1>2. ASSUME key = PendingKey(job, shard) PROVE ParsePendingKey(key) = Shard(job, shard)
  <2>1. Len(key) = 4 /\ key[1] = "jobs" /\ key[2] = "pending" /\ key[3] = job /\ key[4] = shard
    BY <1>2 DEF PendingKey
  <2>2. QED
    BY <2>1, Prefixes DEF ParsePendingKey
<1>3. ASSUME ParsePendingKey(key) = Shard(job, shard) PROVE key = PendingKey(job, shard)
  <2>1. /\ HasPrefix(key, <<"jobs", "pending">>) /\ Len(key) = 4
        /\ Shard(key[3], key[4]) = Shard(job, shard)
    BY <1>1, <1>3 DEF ParsePendingKey
  <2>2. key[3] = job /\ key[4] = shard
    BY <2>1 DEF Shard
  <2>3. key[1] = "jobs" /\ key[2] = "pending"
    BY <2>1, Prefixes
  <2>4. QED
    BY <2>1, <2>2, <2>3, FourSegments DEF PendingKey
<1>4. QED
  BY <1>2, <1>3

\* So is a shard's, among all the objects under jobs/.
LEMMA ShardKeyReadsBack ==
    ASSUME NEW S, NEW key \in Seq(S), NEW job, NEW shard
    PROVE  ParseShardKey(key) = Shard(job, shard) <=> key = ShardKey(job, shard)
<1>1. Shard(job, shard) # Refused("key")
  BY DEF Shard, Refused
<1>2. ASSUME key = ShardKey(job, shard) PROVE ParseShardKey(key) = Shard(job, shard)
  <2>1. /\ Len(key) = 5 /\ key[1] = "jobs" /\ key[2] = job /\ key[3] = "shards"
        /\ key[4] = shard /\ key[5] = "shard.json"
    BY <1>2 DEF ShardKey
  <2>2. QED
    BY <2>1, Prefixes DEF ParseShardKey
<1>3. ASSUME ParseShardKey(key) = Shard(job, shard) PROVE key = ShardKey(job, shard)
  <2>1. /\ HasPrefix(key, <<"jobs">>) /\ Len(key) = 5
        /\ key[3] = "shards" /\ key[5] = "shard.json"
        /\ Shard(key[2], key[4]) = Shard(job, shard)
    BY <1>1, <1>3 DEF ParseShardKey
  <2>2. key[2] = job /\ key[4] = shard
    BY <2>1 DEF Shard
  <2>3. key[1] = "jobs"
    BY <2>1, Prefixes
  <2>4. QED
    BY <2>1, <2>2, <2>3, FiveSegments DEF ShardKey
<1>4. QED
  BY <1>2, <1>3

\* A key with one date in it is read as that date, one without as none.
LEMMA DateReadsBack ==
    ASSUME NEW S, NEW key \in Seq(S)
    PROVE  /\ (\A i \in 1..Len(key) : key[i] \notin Dates) => ParseDt(key) = Refused("key")
           /\ \A k \in 1..Len(key) :
                 (\A i \in 1..Len(key) : key[i] \in Dates <=> i = k) =>
                 ParseDt(key) = [ok |-> TRUE, date |-> key[k]]
<1> DEFINE dated == {i \in DOMAIN key : key[i] \in Dates}
<1>1. DOMAIN key = 1..Len(key) /\ Len(key) \in Nat
  OBVIOUS
<1>2. ASSUME \A i \in 1..Len(key) : key[i] \notin Dates PROVE ParseDt(key) = Refused("key")
  <2>1. dated = {}
    BY <1>1, <1>2
  <2>2. QED
    BY <2>1 DEF ParseDt
<1>3. ASSUME NEW k \in 1..Len(key), \A i \in 1..Len(key) : key[i] \in Dates <=> i = k
      PROVE  ParseDt(key) = [ok |-> TRUE, date |-> key[k]]
  <2>1. dated = {k}
    BY <1>1, <1>3
  <2>2. (CHOOSE i \in dated : \A j \in dated : i <= j) = k
    BY <2>1
  <2>3. QED
    BY <2>1, <2>2 DEF ParseDt
<1>4. QED
  BY <1>2, <1>3

\* What a key is made of.
Segment ==
    {"jobs", "job.json", "pending", "shards", "shard.json", "inputs.json", "results.json",
     "analytics", "raw", "instance", "expiry"} \cup Jobs \cup Shards \cup Dates

\* Neither the job's nor a shard's objects are filed by date.
LEMMA JobKeyHasNoDate ==
    ASSUME NEW job \in Jobs
    PROVE  LET key == JobKey(job) IN
           /\ key \in Seq(Segment)
           /\ \A i \in 1..Len(key) : key[i] \notin Dates
           /\ \A d \in Dates : key # RawKey(d, "0") /\ key # ExpiryKey(d, "0")
BY DEF JobKey, RawKey, ExpiryKey, Segment, Jobs, Dates

\* Nor the marker, the descriptor, the inputs or the results of a shard.
LEMMA ShardKeysHaveNoDate ==
    ASSUME NEW job \in Jobs, NEW shard \in Shards,
           NEW key \in {PendingKey(job, shard), ShardKey(job, shard),
                        ShardInputsKey(job, shard), ShardResultsKey(job, shard)}
    PROVE  /\ key \in Seq(Segment)
           /\ \A i \in 1..Len(key) : key[i] \notin Dates
           /\ \A d \in Dates : key # RawKey(d, "0") /\ key # ExpiryKey(d, "0")
<1> USE DEF RawKey, ExpiryKey, Segment, Jobs, Shards, Dates
<1>1. CASE key = PendingKey(job, shard)
  BY <1>1 DEF PendingKey
<1>2. CASE key = ShardKey(job, shard)
  BY <1>2 DEF ShardKey
<1>3. CASE key = ShardInputsKey(job, shard)
  BY <1>3 DEF ShardInputsKey
<1>4. CASE key = ShardResultsKey(job, shard)
  BY <1>4 DEF ShardResultsKey
<1>5. QED
  BY <1>1, <1>2, <1>3, <1>4

\* The kinds of keys.
LEMMA KindsOfKeys ==
    ASSUME NEW key \in Keys
    PROVE  /\ key \in Seq(Segment)
           /\ \/ /\ \A i \in 1..Len(key) : key[i] \notin Dates
                 /\ \A d \in Dates : key # RawKey(d, "0") /\ key # ExpiryKey(d, "0")
              \/ \E d \in Dates : key = RawKey(d, "0") \/ key = ExpiryKey(d, "0")
<1>1. CASE \E j \in Jobs : key = JobKey(j)
  BY <1>1, JobKeyHasNoDate, Zenon
<1>2. CASE \E j \in Jobs, n \in Shards :
              key \in {PendingKey(j, n), ShardKey(j, n), ShardInputsKey(j, n), ShardResultsKey(j, n)}
  BY <1>2, ShardKeysHaveNoDate, Zenon
<1>3. CASE \E d \in Dates : key = RawKey(d, "0") \/ key = ExpiryKey(d, "0")
  <2>1. PICK d \in Dates : key = RawKey(d, "0") \/ key = ExpiryKey(d, "0")
    BY <1>3
  <2>2. key \in Seq(Segment)
    <3>1. RawKey(d, "0") \in Seq(Segment)
      BY DEF RawKey, Segment, Shards
    <3>2. ExpiryKey(d, "0") \in Seq(Segment)
      BY DEF ExpiryKey, Segment, Shards
    <3>3. QED
      BY <2>1, <3>1, <3>2, Zenon
  <2>3. QED
    BY <1>3, <2>2, Zenon
<1>4. \/ \E j \in Jobs : key = JobKey(j)
      \/ \E j \in Jobs, n \in Shards :
            key \in {PendingKey(j, n), ShardKey(j, n), ShardInputsKey(j, n), ShardResultsKey(j, n)}
      \/ \E d \in Dates : key \in {RawKey(d, "0"), ExpiryKey(d, "0")}
  <2> DEFINE Of(j, n) == {PendingKey(j, n), ShardKey(j, n), ShardInputsKey(j, n), ShardResultsKey(j, n)}
             By(d) == {RawKey(d, "0"), ExpiryKey(d, "0")}
             OfJobs == {JobKey(j) : j \in Jobs}
             OfShards == UNION {Of(j, n) : j \in Jobs, n \in Shards}
             OfDates == UNION {By(d) : d \in Dates}
  <2>1. Keys = OfJobs \cup OfShards \cup OfDates
    BY DEF Keys
  <2> HIDE DEF Of, By
  <2>2. key \in OfShards => \E j \in Jobs, n \in Shards : key \in Of(j, n)
    OBVIOUS
  <2>3. key \in OfDates => \E d \in Dates : key \in By(d)
    OBVIOUS
  <2>4. key \in OfJobs => \E j \in Jobs : key = JobKey(j)
    OBVIOUS
  <2> HIDE DEF OfJobs, OfShards, OfDates
  <2>5. QED
    BY <2>1, <2>2, <2>3, <2>4 DEF Of, By
<1>5. QED
  BY <1>1, <1>2, <1>3, <1>4, Zenon

\* A date is read from the objects that are filed by date and from no other.
LEMMA DatedKeyReadsBack ==
    ASSUME NEW key \in Keys, NEW d \in Dates
    PROVE  ParseDt(key) = [ok |-> TRUE, date |-> d] <=> key \in {RawKey(d, "0"), ExpiryKey(d, "0")}
<1>1. key \in Seq(Segment)
  BY KindsOfKeys
<1>2. Refused("key") # [ok |-> TRUE, date |-> d]
  BY DEF Refused
<1>3. CASE /\ \A i \in 1..Len(key) : key[i] \notin Dates
           /\ key # RawKey(d, "0") /\ key # ExpiryKey(d, "0")
  BY <1>1, <1>2, <1>3, DateReadsBack
<1>4. ASSUME NEW e \in Dates, key = RawKey(e, "0") \/ key = ExpiryKey(e, "0")
      PROVE  ParseDt(key) = [ok |-> TRUE, date |-> d] <=> key \in {RawKey(d, "0"), ExpiryKey(d, "0")}
  <2>1. CASE key = RawKey(e, "0")
    <3>1. Len(key) = 5 /\ \A i \in 1..5 : key[i] \in Dates <=> i = 3
      BY <2>1 DEF RawKey, Dates
    <3>2. ParseDt(key) = [ok |-> TRUE, date |-> e]
      <4>1. key[3] = e
        BY <2>1 DEF RawKey
      <4>2. 3 \in 1..Len(key) /\ \A i \in 1..Len(key) : key[i] \in Dates <=> i = 3
        BY <3>1
      <4>3. ParseDt(key) = [ok |-> TRUE, date |-> key[3]]
        BY <1>1, <4>2, DateReadsBack, Zenon
      <4>4. QED
        BY <4>1, <4>3
    <3>3. key \in {RawKey(d, "0"), ExpiryKey(d, "0")} <=> d = e
      BY <2>1 DEF RawKey, ExpiryKey
    <3>4. [ok |-> TRUE, date |-> e] = [ok |-> TRUE, date |-> d] <=> d = e
      OBVIOUS
    <3>5. QED
      BY <3>2, <3>3, <3>4, Zenon
  <2>2. CASE key = ExpiryKey(e, "0")
    <3>1. Len(key) = 4 /\ \A i \in 1..4 : key[i] \in Dates <=> i = 2
      BY <2>2 DEF ExpiryKey, Dates
    <3>2. ParseDt(key) = [ok |-> TRUE, date |-> e]
      <4>1. key[2] = e
        BY <2>2 DEF ExpiryKey
      <4>2. 2 \in 1..Len(key) /\ \A i \in 1..Len(key) : key[i] \in Dates <=> i = 2
        BY <3>1
      <4>3. ParseDt(key) = [ok |-> TRUE, date |-> key[2]]
        BY <1>1, <4>2, DateReadsBack, Zenon
      <4>4. QED
        BY <4>1, <4>3
    <3>3. key \in {RawKey(d, "0"), ExpiryKey(d, "0")} <=> d = e
      BY <2>2 DEF RawKey, ExpiryKey
    <3>4. [ok |-> TRUE, date |-> e] = [ok |-> TRUE, date |-> d] <=> d = e
      OBVIOUS
    <3>5. QED
      BY <3>2, <3>3, <3>4, Zenon
  <2>3. QED
    BY <1>4, <2>1, <2>2
<1>5. QED
  BY <1>3, <1>4, KindsOfKeys

RefSpec == Asked(RefQuestions) /\ [][RefNext]_inquiry

\* What a reply to a question about references and keys is.
Referred ==
    /\ question \in RefQuestions
    /\ \/ reply = <<>>
       \/ question.kind = "parse" /\ reply = <<Parse(question.text)>>
       \/ question.kind = "publishable" /\ reply = <<ValidRefParts(question.name, question.tag)>>
       \/ /\ question.kind = "key"
          /\ reply = <<[pending |-> ParsePendingKey(question.key),
                        shard |-> ParseShardKey(question.key), dt |-> ParseDt(question.key)]>>

\* A reply is what the function asked about returns.
LEMMA AlwaysReferred == RefSpec => []Referred
<1>1. Asked(RefQuestions) => Referred
  BY DEF Asked, Referred
<1>2. Referred /\ [RefNext]_inquiry => Referred'
  <2> SUFFICES ASSUME Referred, [RefNext]_inquiry PROVE Referred'
    OBVIOUS
  <2>1. CASE AnswerParse
    BY <2>1 DEF Referred, AnswerParse, Answer
  <2>2. CASE AnswerPublishable
    BY <2>2 DEF Referred, AnswerPublishable, Answer
  <2>3. CASE AnswerKey
    BY <2>3 DEF Referred, AnswerKey, Answer
  <2>4. CASE UNCHANGED inquiry
    BY <2>4 DEF Referred, inquiry
  <2>5. QED
    BY <2>1, <2>2, <2>3, <2>4 DEF RefNext
<1>3. QED
  BY <1>1, <1>2, PTL DEF RefSpec

\* A sequence of at most n elements is a sequence.
LEMMA UpToIsSeq ==
    ASSUME NEW n \in Nat, NEW S, NEW T, S \subseteq T
    PROVE  UpTo(S, n) \subseteq Seq(T)
<1>1. SUFFICES ASSUME NEW s \in UpTo(S, n) PROVE s \in Seq(T)
  OBVIOUS
<1>2. PICK k \in 0..n : s \in [1..k -> S]
  BY <1>1 DEF UpTo
<1>3. k \in Nat /\ s \in [1..k -> T]
  BY <1>2
<1>4. QED
  BY <1>3

\* The kind of a question says what is asked.
LEMMA RefQuestionKinds ==
    ASSUME NEW q \in RefQuestions
    PROVE  /\ q.kind = "parse" => q.text \in Seq(Tokens)
           /\ q.kind = "publishable" => q.name \in Seq(Tokens) /\ q.tag \in Seq(Tokens)
           /\ q.kind = "key" => q.key \in Keys
<1> DEFINE Texts == UpTo(Tokens, MaxText) \cup {t \o e : t \in UpTo(Tokens, 3), e \in Endings}
           Names == UpTo({"s", "S", ".", "/", ":"}, MaxPart)
           TagTexts == UpTo({"s", "S", ".", "/"}, 2)
<1>1. Texts \subseteq Seq(Tokens)
  <2>1. UpTo(Tokens, MaxText) \subseteq Seq(Tokens) /\ UpTo(Tokens, 3) \subseteq Seq(Tokens)
    BY UpToIsSeq, TextBoundsAssumption
  <2>2. \A e \in Endings : e \in Seq(Tokens)
    <3>1. <<"@", "s", ":", "h">> \in Seq(Tokens) /\ <<"@", "s", ":">> \in Seq(Tokens)
      BY DEF Tokens
    <3>2. <<"@", "h">> \in Seq(Tokens) /\ <<":", "S", "@", "s", ":", "h">> \in Seq(Tokens)
      BY DEF Tokens
    <3>3. QED
      BY <3>1, <3>2, Zenon DEF Endings
  <2>3. ASSUME NEW t \in UpTo(Tokens, 3), NEW e \in Endings PROVE t \o e \in Seq(Tokens)
    <3>1. t \in Seq(Tokens) /\ e \in Seq(Tokens)
      BY <2>1, <2>2, Zenon
    <3>2. QED
      BY <3>1, ConcatProperties, Zenon
  <2> DEFINE Joined(t, e) == t \o e
             Ended == {Joined(t, e) : t \in UpTo(Tokens, 3), e \in Endings}
  <2>4. Ended \subseteq Seq(Tokens)
    <3>1. \A t \in UpTo(Tokens, 3), e \in Endings : Joined(t, e) \in Seq(Tokens)
      BY <2>3
    <3> HIDE DEF Joined
    <3>2. QED
      BY <3>1
  <2>5. Texts = UpTo(Tokens, MaxText) \cup Ended
    OBVIOUS
  <2> HIDE DEF Texts, Ended
  <2>6. QED
    BY <2>1, <2>4, <2>5
<1>2. Names \subseteq Seq(Tokens) /\ TagTexts \subseteq Seq(Tokens)
  <2>1. {"s", "S", ".", "/", ":"} \subseteq Tokens /\ {"s", "S", ".", "/"} \subseteq Tokens
    BY DEF Tokens
  <2>2. QED
    BY <2>1, UpToIsSeq, TextBoundsAssumption
<1> HIDE DEF Texts, Names, TagTexts
<1>3. \/ q \in [kind : {"parse"}, text : Texts]
      \/ q \in [kind : {"publishable"}, name : Names, tag : TagTexts]
      \/ q \in [kind : {"key"}, key : Keys]
  BY DEF RefQuestions, Texts, Names, TagTexts
<1>4. QED
  BY <1>1, <1>2, <1>3

\* A listing of jobs/, expiry/ or analytics/raw/ takes no kind of object for
\* another.
THEOREM SpecKeysReadBack == RefSpec => []KeysReadBack
<1>1. Referred => KeysReadBack
  <2> SUFFICES ASSUME Referred, Replied("key") PROVE KeysReadBack
    BY DEF KeysReadBack
  <2> DEFINE key == question.key
  <2>1. key \in Keys
    BY RefQuestionKinds DEF Referred, Replied
  <2>2. answer = [pending |-> ParsePendingKey(key), shard |-> ParseShardKey(key), dt |-> ParseDt(key)]
    BY DEF Referred, Replied, answer
  <2>3. key \in Seq(Segment)
    BY <2>1, KindsOfKeys
  <2> HIDE DEF key
  <2>4. /\ answer.pending = ParsePendingKey(key) /\ answer.shard = ParseShardKey(key)
        /\ answer.dt = ParseDt(key)
    BY <2>2
  <2>5. /\ \A j \in Jobs, n \in Shards :
              /\ answer.pending = Shard(j, n) <=> key = PendingKey(j, n)
              /\ answer.shard = Shard(j, n) <=> key = ShardKey(j, n)
    <3>1. ASSUME NEW j \in Jobs, NEW n \in Shards
          PROVE  /\ answer.pending = Shard(j, n) <=> key = PendingKey(j, n)
                 /\ answer.shard = Shard(j, n) <=> key = ShardKey(j, n)
      <4>1. ParsePendingKey(key) = Shard(j, n) <=> key = PendingKey(j, n)
        BY <2>3, PendingKeyReadsBack
      <4>2. ParseShardKey(key) = Shard(j, n) <=> key = ShardKey(j, n)
        BY <2>3, ShardKeyReadsBack
      <4>3. QED
        BY <2>4, <4>1, <4>2, Zenon
    <3>2. QED
      BY <3>1
  <2>6. \A d \in Dates :
           answer.dt = [ok |-> TRUE, date |-> d] <=> key \in {RawKey(d, "0"), ExpiryKey(d, "0")}
    BY <2>1, <2>4, DatedKeyReadsBack, Zenon
  <2>7. QED
    BY <2>5, <2>6, Zenon DEF KeysReadBack, key
<1>2. QED
  BY <1>1, AlwaysReferred, PTL

-----------------------------------------------------------------------------
(***************************************************************************)
(* Texts: the last separator of a text, and what is before and after it.    *)
(***************************************************************************)
\* A text in which a token does not occur.
Avoids(text, token) == \A i \in 1..Len(text) : text[i] # token

\* A text is a, a token and b.
Joins(text, a, token, b) ==
    /\ Len(text) = Len(a) + 1 + Len(b)
    /\ \A i \in 1..Len(a) : text[i] = a[i]
    /\ text[Len(a) + 1] = token
    /\ \A i \in 1..Len(b) : text[Len(a) + 1 + i] = b[i]

\* A set of positions has a last one.
LEMMA LastExists ==
    ASSUME NEW n \in Nat, NEW P \in SUBSET (1..n), P # {}
    PROVE  \E i \in P : \A j \in P : j <= i
<1> DEFINE T == {n - i : i \in P}
<1>1. T \in SUBSET Nat /\ T # {}
  <2>1. \A i \in P : n - i \in Nat
    OBVIOUS
  <2>2. QED
    BY <2>1
<1>2. PICK m \in T : \A k \in T : m <= k
  BY <1>1, LeastNatural
<1>3. PICK i \in P : m = n - i
  BY <1>2
<1>4. ASSUME NEW j \in P PROVE j <= i
  <2>1. m <= n - j
    <3>1. n - j \in T
      OBVIOUS
    <3>2. QED
      BY <1>2, <3>1
  <2>2. i \in 1..n /\ j \in 1..n
    BY Zenon
  <2>3. QED
    BY <1>3, <2>1, <2>2
<1>5. QED
  BY <1>3, <1>4

\* rfind finds the last position, if there is one.
LEMMA LastOfFacts ==
    ASSUME NEW S, NEW text \in Seq(S), NEW token
    PROVE  /\ LastOf(text, token) \in 0..Len(text)
           /\ LastOf(text, token) = 0 => \A i \in 1..Len(text) : text[i] # token
           /\ LastOf(text, token) > 0 => text[LastOf(text, token)] = token
           /\ \A j \in 1..Len(text) : text[j] = token => j <= LastOf(text, token)
<1> DEFINE at == Positions(text, token)
<1>1. at = {i \in 1..Len(text) : text[i] = token} /\ Len(text) \in Nat
  BY DEF Positions
<1> HIDE DEF at
<1>2. CASE at = {}
  <2>1. LastOf(text, token) = 0
    BY <1>2 DEF LastOf, at
  <2>2. QED
    BY <1>1, <1>2, <2>1
<1>3. CASE at # {}
  <2>1. \E i \in at : \A j \in at : j <= i
    BY <1>1, <1>3, LastExists
  <2>2. LastOf(text, token) = CHOOSE i \in at : \A j \in at : j <= i
    BY <1>3 DEF LastOf, at
  <2>3. LastOf(text, token) \in at /\ \A j \in at : j <= LastOf(text, token)
    BY <2>1, <2>2, Zenon
  <2>4. QED
    BY <1>1, <2>3
<1>4. QED
  BY <1>2, <1>3

\* No separator, nothing found.
LEMMA LastOfNone ==
    ASSUME NEW S, NEW text \in Seq(S), NEW token, Avoids(text, token)
    PROVE  LastOf(text, token) = 0
<1>1. Len(text) \in Nat
  OBVIOUS
<1>2. QED
  BY <1>1, LastOfFacts DEF Avoids

\* The last separator splits a text into what is before and after it.
LEMMA SplitAtLast ==
    ASSUME NEW S, NEW a \in Seq(S), NEW token, NEW b \in Seq(S),
           NEW text \in Seq(S), Joins(text, a, token, b), Avoids(b, token)
    PROVE  /\ LastOf(text, token) = Len(a) + 1 /\ LastOf(text, token) # 0
           /\ Before(text, LastOf(text, token)) = a
           /\ After(text, LastOf(text, token)) = b
<1> DEFINE m == Len(a) + 1
<1>1. Len(a) \in Nat /\ Len(b) \in Nat /\ text \in Seq(S) /\ Len(text) = Len(a) + 1 + Len(b)
  BY DEF Joins
<1>2. \A i \in 1..Len(a) : text[i] = a[i]
  BY DEF Joins
<1>3. text[m] = token
  BY DEF Joins
<1>4. \A i \in 1..Len(b) : text[m + i] = b[i]
  BY DEF Joins
<1>5. LastOf(text, token) = m
  <2>1. LastOf(text, token) \in 0..Len(text) /\ m \in 1..Len(text)
    BY <1>1, LastOfFacts
  <2>2. m <= LastOf(text, token)
    BY <1>1, <1>3, <2>1, LastOfFacts
  <2>3. ASSUME LastOf(text, token) > m PROVE FALSE
    <3>1. text[LastOf(text, token)] = token
      BY <1>1, <2>1, <2>2, LastOfFacts
    <3>2. LastOf(text, token) - m \in 1..Len(b)
      BY <1>1, <2>1, <2>3
    <3>3. text[LastOf(text, token)] = b[LastOf(text, token) - m]
      <4>1. text[m + (LastOf(text, token) - m)] = b[LastOf(text, token) - m]
        BY <1>4, <3>2
      <4>2. m + (LastOf(text, token) - m) = LastOf(text, token)
        BY <1>1, <2>1
      <4>3. QED
        BY <4>1, <4>2
    <3>4. QED
      BY <3>1, <3>2, <3>3 DEF Avoids
  <2>4. QED
    BY <1>1, <2>1, <2>2, <2>3
<1>6. Before(text, m) = a
  <2>1. Before(text, m) = SubSeq(text, 1, Len(a))
    BY <1>1 DEF Before
  <2>2. SubSeq(text, 1, Len(a)) = a
    BY <1>1, <1>2
  <2>3. QED
    BY <2>1, <2>2
<1>7. After(text, m) = b
  <2>1. After(text, m) = SubSeq(text, m + 1, Len(text))
    BY DEF After
  <2>2. SubSeq(text, m + 1, Len(text)) \in Seq(S) /\ Len(SubSeq(text, m + 1, Len(text))) = Len(b)
    BY <1>1
  <2>3. \A i \in 1..Len(b) : SubSeq(text, m + 1, Len(text))[i] = b[i]
    BY <1>1, <1>4
  <2>4. QED
    BY <2>1, <2>2, <2>3, SeqEqual
<1>8. QED
  BY <1>1, <1>5, <1>6, <1>7

\* That is what was joined there.
LEMMA ConcatJoins ==
    ASSUME NEW S, NEW a \in Seq(S), NEW token \in S, NEW b \in Seq(S),
           NEW text, text = a \o <<token>> \o b
    PROVE  text \in Seq(S) /\ Joins(text, a, token, b)
<1>1. text \in Seq(S) /\ Len(text) = Len(a) + 1 + Len(b) /\ Len(a) \in Nat /\ Len(b) \in Nat
  OBVIOUS
<1>2. \A i \in 1..Len(a) : text[i] = a[i]
  BY <1>1
<1>3. text[Len(a) + 1] = token
  BY <1>1
<1>4. \A i \in 1..Len(b) : text[Len(a) + 1 + i] = b[i]
  BY <1>1
<1>5. QED
  BY <1>1, <1>2, <1>3, <1>4, Zenon DEF Joins

\* And any separator of a text joins what is before and after it.
LEMMA JoinAt ==
    ASSUME NEW S, NEW text \in Seq(S), NEW k \in 1..Len(text)
    PROVE  /\ Before(text, k) \in Seq(S) /\ After(text, k) \in Seq(S)
           /\ text = Before(text, k) \o <<text[k]>> \o After(text, k)
           /\ Len(Before(text, k)) = k - 1 /\ Len(After(text, k)) = Len(text) - k
           /\ \A i \in 1..k - 1 : Before(text, k)[i] = text[i]
           /\ \A i \in 1..Len(text) - k : After(text, k)[i] = text[k + i]
<1> DEFINE a == SubSeq(text, 1, k - 1)
           b == SubSeq(text, k + 1, Len(text))
<1>1. Len(text) \in Nat /\ k \in Nat
  OBVIOUS
<1>2. a \in Seq(S) /\ Len(a) = k - 1 /\ \A i \in 1..k - 1 : a[i] = text[i]
  BY <1>1
<1>3. b \in Seq(S) /\ Len(b) = Len(text) - k /\ \A i \in 1..Len(text) - k : b[i] = text[k + i]
  <2>1. b \in Seq(S)
    BY <1>1
  <2>2. Len(b) = Len(text) - k /\ \A i \in 1..Len(text) - k : b[i] = text[k + 1 + i - 1]
    BY <1>1
  <2>3. QED
    BY <1>1, <2>1, <2>2
<1>4. text[k] \in S
  OBVIOUS
<1> HIDE DEF a, b
<1>5. /\ a \o <<text[k]>> \o b \in Seq(S) /\ Len(a \o <<text[k]>> \o b) = Len(text)
      /\ \A i \in 1..Len(text) : (a \o <<text[k]>> \o b)[i] = text[i]
  <2>1. a \o <<text[k]>> \in Seq(S) /\ Len(a \o <<text[k]>>) = k
    BY <1>1, <1>2, <1>4
  <2>2. \A i \in 1..k : (a \o <<text[k]>>)[i] = text[i]
    BY <1>1, <1>2, <1>4
  <2> DEFINE c == a \o <<text[k]>>
  <2>3. c \in Seq(S) /\ Len(c) = k /\ \A i \in 1..k : c[i] = text[i]
    BY <2>1, <2>2
  <2> HIDE DEF c
  <2>4. /\ c \o b \in Seq(S) /\ Len(c \o b) = Len(text)
        /\ \A i \in 1..Len(text) : (c \o b)[i] = IF i <= k THEN c[i] ELSE b[i - k]
    <3>1. Len(c) + Len(b) = Len(text)
      BY <1>1, <1>3, <2>3
    <3>2. c \o b \in Seq(S) /\ Len(c \o b) = Len(c) + Len(b)
      BY <1>3, <2>3, ConcatProperties, Zenon
    <3>3. \A i \in 1..Len(c) + Len(b) : (c \o b)[i] = IF i <= Len(c) THEN c[i] ELSE b[i - Len(c)]
      BY <1>3, <2>3, ConcatProperties, Zenon
    <3>4. QED
      BY <2>3, <3>1, <3>2, <3>3
  <2>5. ASSUME NEW i \in 1..Len(text), i > k PROVE (c \o b)[i] = text[i]
    <3>1. i - k \in 1..Len(text) - k /\ k + (i - k) = i
      BY <1>1, <2>5
    <3>2. QED
      BY <1>1, <1>3, <2>4, <2>5, <3>1
  <2>6. ASSUME NEW i \in 1..Len(text), i <= k PROVE (c \o b)[i] = text[i]
    BY <1>1, <2>3, <2>4, <2>6
  <2>7. \A i \in 1..Len(text) : (c \o b)[i] = text[i]
    <3>1. \A i \in 1..Len(text) : i <= k \/ i > k
      BY <1>1
    <3>2. QED
      BY <2>5, <2>6, <3>1, Zenon
  <2>8. c \o b \in Seq(S) /\ Len(c \o b) = Len(text) /\ \A i \in 1..Len(text) : (c \o b)[i] = text[i]
    BY <2>4, <2>7
  <2>9. QED
    BY <2>8, Zenon DEF c
<1>6. text = a \o <<text[k]>> \o b
  BY <1>5, SeqEqual
<1>7. QED
  BY <1>2, <1>3, <1>6 DEF Before, After, a, b

\* The tokens of a text in lower case, and those of its parts.
Alphabet == Tokens \cup {"latest"}
Letters == Words \cup {"."}

\* The parts of a reference contain no separator.
LEMMA LettersAvoid ==
    ASSUME NEW part \in Seq(Alphabet), \A i \in DOMAIN part : part[i] \in Letters
    PROVE  Avoids(part, "@") /\ Avoids(part, ":") /\ Avoids(part, "/") /\ Avoids(part, "S")
BY DEF Letters, Words, Avoids

\* That holds of a name and of a namespace, which are not empty either.
LEMMA PartAvoids ==
    ASSUME NEW part \in Seq(Alphabet), ValidPart(part)
    PROVE  /\ Len(part) >= 1 /\ part # <<>>
           /\ Avoids(part, "@") /\ Avoids(part, ":") /\ Avoids(part, "/") /\ Avoids(part, "S")
<1>1. \A i \in DOMAIN part : part[i] \in Letters
  BY DEF ValidPart, Letters
<1>2. Len(part) >= 1 /\ part # <<>>
  BY TextBoundsAssumption DEF ValidPart
<1>3. QED
  BY <1>1, <1>2, LettersAvoid

\* And of a tag.
LEMMA TagAvoids ==
    ASSUME NEW tag \in Seq(Alphabet), ValidTag(tag)
    PROVE  /\ Len(tag) >= 1
           /\ Avoids(tag, "@") /\ Avoids(tag, ":") /\ Avoids(tag, "/") /\ Avoids(tag, "S")
<1>1. \A i \in DOMAIN tag : tag[i] \in Letters
  BY DEF ValidTag, Letters
<1>2. Len(tag) >= 1
  BY TextBoundsAssumption DEF ValidTag
<1>3. QED
  BY <1>1, <1>2, LettersAvoid

\* A token that avoids two texts and is not the separator avoids their join.
LEMMA JoinAvoids ==
    ASSUME NEW S, NEW a \in Seq(S), NEW b \in Seq(S), NEW sep \in S, NEW token,
           sep # token, Avoids(a, token), Avoids(b, token)
    PROVE  a \o <<sep>> \o b \in Seq(S) /\ Avoids(a \o <<sep>> \o b, token)
<1> DEFINE c == a \o <<sep>>
<1>1. Len(a) \in Nat /\ Len(b) \in Nat
  OBVIOUS
<1>2. c \in Seq(S) /\ Len(c) = Len(a) + 1 /\ c[Len(a) + 1] = sep /\ \A i \in 1..Len(a) : c[i] = a[i]
  OBVIOUS
<1> HIDE DEF c
<1>3. Avoids(c, token)
  <2>1. ASSUME NEW i \in 1..Len(c) PROVE c[i] # token
    <3>1. i \in 1..Len(a) \/ i = Len(a) + 1
      BY <1>1, <1>2
    <3>2. QED
      BY <1>2, <3>1 DEF Avoids
  <2>2. QED
    BY <2>1 DEF Avoids
<1>4. /\ c \o b \in Seq(S) /\ Len(c \o b) = Len(c) + Len(b)
      /\ \A i \in 1..Len(c) + Len(b) : (c \o b)[i] = IF i <= Len(c) THEN c[i] ELSE b[i - Len(c)]
  BY <1>2, ConcatProperties, Zenon
<1>5. ASSUME NEW i \in 1..Len(c) + Len(b)
      PROVE  (IF i <= Len(c) THEN c[i] ELSE b[i - Len(c)]) # token
  <2>1. CASE i <= Len(c)
    <3>1. i \in 1..Len(c)
      BY <1>1, <1>2, <2>1
    <3>2. QED
      BY <1>3, <2>1, <3>1 DEF Avoids
  <2>2. CASE i > Len(c)
    <3>1. i - Len(c) \in 1..Len(b) /\ ~(i <= Len(c))
      BY <1>1, <1>2, <2>2
    <3>2. QED
      BY <3>1 DEF Avoids
  <2>3. QED
    BY <1>1, <1>2, <2>1, <2>2
<1>6. Avoids(c \o b, token)
  BY <1>4, <1>5, Zenon DEF Avoids
<1>7. QED
  BY <1>4, <1>6, Zenon DEF c

\* Lower case changes the upper case tokens and nothing else.
LEMMA LowerFacts ==
    ASSUME NEW text \in Seq(Alphabet)
    PROVE  /\ Lower(text) \in Seq(Alphabet) /\ Len(Lower(text)) = Len(text)
           /\ Avoids(text, "S") => Lower(text) = text
<1>1. Len(text) \in Nat /\ DOMAIN text = 1..Len(text) /\ \A i \in 1..Len(text) : text[i] \in Alphabet
  OBVIOUS
<1>2. Lower(text) = [i \in 1..Len(text) |-> IF text[i] = "S" THEN "s" ELSE text[i]]
  BY <1>1 DEF Lower
<1>3. Lower(text) \in [1..Len(text) -> Alphabet]
  <2>1. "s" \in Alphabet
    BY DEF Alphabet, Tokens
  <2>2. QED
    BY <1>1, <1>2, <2>1
<1>4. Lower(text) \in Seq(Alphabet) /\ Len(Lower(text)) = Len(text)
  BY <1>1, <1>3
<1>5. ASSUME Avoids(text, "S") PROVE Lower(text) = text
  <2>1. \A i \in 1..Len(text) : Lower(text)[i] = text[i]
    BY <1>2, <1>5 DEF Avoids
  <2>2. QED
    BY <1>4, <2>1, SeqEqual
<1>6. QED
  BY <1>4, <1>5

-----------------------------------------------------------------------------
(***************************************************************************)
(* Reading a reference: what parse cuts it into, and that it can be cut in  *)
(* no other way.                                                            *)
(***************************************************************************)
\* The texts that parse cuts a reference into, from the end to the front.
MainOf(low) == IF LastOf(low, "@") = 0 THEN low ELSE Before(low, LastOf(low, "@"))
HashOf(low) == IF LastOf(low, "@") = 0 THEN NoPart ELSE After(low, LastOf(low, "@"))
PathOf(main) == IF LastOf(main, ":") = 0 THEN main ELSE Before(main, LastOf(main, ":"))
TagOf(main) == IF LastOf(main, ":") = 0 THEN Latest ELSE After(main, LastOf(main, ":"))
NamespaceOf(path) == IF LastOf(path, "/") = 0 THEN NoPart ELSE Before(path, LastOf(path, "/"))
NameOf(path) == After(path, LastOf(path, "/"))

\* What they have to be.
Acceptable(low) ==
    /\ low # <<>> /\ Head(low) # "@"
    /\ LastOf(low, "@") > 0 => ValidHash(HashOf(low))
    /\ ValidTag(TagOf(MainOf(low)))
    /\ LastOf(PathOf(MainOf(low)), "/") > 0 => ValidPart(NamespaceOf(PathOf(MainOf(low))))
    /\ ValidPart(NameOf(PathOf(MainOf(low))))

Cut(low) ==
    [ok |-> TRUE, namespace |-> NamespaceOf(PathOf(MainOf(low))),
     name |-> NameOf(PathOf(MainOf(low))), tag |-> TagOf(MainOf(low)), hash |-> HashOf(low)]

\* A reference is accepted if they are, and is those.
LEMMA ParseCuts ==
    ASSUME NEW text \in Seq(Alphabet)
    PROVE  LET low == Lower(text) IN
           /\ Acceptable(low) => Parse(text) = Cut(low)
           /\ ~Acceptable(low) => Parse(text).ok = FALSE
<1> DEFINE low == Lower(text)
           at == LastOf(low, "@")
           main == MainOf(low)
           hash == HashOf(low)
           path == PathOf(main)
           tag == TagOf(main)
           slash == LastOf(path, "/")
           namespace == NamespaceOf(path)
           name == NameOf(path)
<1>1. text = <<>> <=> low = <<>>
  BY LowerFacts, EmptySeq
<1>2. Parse(text) =
        CASE text = <<>> \/ Head(low) = "@" -> Refused("format")
          [] at > 0 /\ ~ValidHash(hash) -> Refused("hash")
          [] ~ValidTag(tag) -> Refused("tag")
          [] slash > 0 /\ ~ValidPart(namespace) -> Refused("namespace")
          [] ~ValidPart(name) -> Refused("format")
          [] OTHER -> [ok |-> TRUE, namespace |-> namespace, name |-> name, tag |-> tag, hash |-> hash]
  BY Zenon DEF Parse, MainOf, HashOf, PathOf, TagOf, NamespaceOf, NameOf
<1>3. Acceptable(low) <=> /\ ~(text = <<>> \/ Head(low) = "@")
                          /\ ~(at > 0 /\ ~ValidHash(hash))
                          /\ ValidTag(tag)
                          /\ ~(slash > 0 /\ ~ValidPart(namespace))
                          /\ ValidPart(name)
  BY <1>1, Zenon DEF Acceptable
<1>4. \A why : Refused(why).ok = FALSE
  BY DEF Refused
<1>5. Cut(low) = [ok |-> TRUE, namespace |-> namespace, name |-> name, tag |-> tag, hash |-> hash]
  BY Zenon DEF Cut
<1> HIDE DEF low, at, main, hash, path, tag, slash, namespace, name
<1>6. Acceptable(low) => Parse(text) = Cut(low)
  BY <1>2, <1>3, <1>5
<1>7. ~Acceptable(low) => Parse(text).ok = FALSE
  BY <1>2, <1>3, <1>4
<1>8. QED
  BY <1>6, <1>7, Zenon DEF low

\* A full name is cut into the namespace and the name it was joined from.
LEMMA FullNameCuts ==
    ASSUME NEW ref, ref.namespace \in Seq(Alphabet), ref.name \in Seq(Alphabet),
           ref.namespace = NoPart \/ ValidPart(ref.namespace), ValidPart(ref.name)
    PROVE  LET full == FullName(ref) IN
           /\ full \in Seq(Alphabet) /\ full # <<>>
           /\ Avoids(full, "@") /\ Avoids(full, ":")
           /\ NamespaceOf(full) = ref.namespace /\ NameOf(full) = ref.name
           /\ LastOf(full, "/") > 0 => ValidPart(ref.namespace)
<1> DEFINE full == FullName(ref)
<1>0. ref.name # <<>> /\ Avoids(ref.name, "@") /\ Avoids(ref.name, ":") /\ Avoids(ref.name, "/")
  BY PartAvoids
<1>1. CASE ref.namespace = NoPart
  <2>1. full = ref.name
    BY <1>1 DEF FullName
  <2>2. LastOf(full, "/") = 0
    BY <1>0, <2>1, LastOfNone
  <2>3. After(full, 0) = full
    BY <2>1, SubSeqFull DEF After
  <2>4. NamespaceOf(full) = NoPart /\ NameOf(full) = ref.name
    BY <2>1, <2>2, <2>3 DEF NamespaceOf, NameOf
  <2>5. ~(LastOf(full, "/") > 0)
    BY <2>2
  <2>6. QED
    BY <1>0, <1>1, <2>1, <2>4, <2>5, Zenon
<1>2. CASE ref.namespace # NoPart
  <2>1. full = ref.namespace \o <<"/">> \o ref.name
    BY <1>2 DEF FullName
  <2>2. ValidPart(ref.namespace) /\ Avoids(ref.namespace, "@") /\ Avoids(ref.namespace, ":")
    BY <1>2, PartAvoids
  <2>3. "/" \in Alphabet /\ "/" # "@" /\ "/" # ":"
    BY DEF Alphabet, Tokens
  <2>4. full \in Seq(Alphabet) /\ Avoids(full, "@") /\ Avoids(full, ":")
    BY <1>0, <2>1, <2>2, <2>3, JoinAvoids, Zenon
  <2> HIDE DEF full
  <2>5. /\ LastOf(full, "/") # 0
        /\ Before(full, LastOf(full, "/")) = ref.namespace
        /\ After(full, LastOf(full, "/")) = ref.name
    <3>1. Joins(full, ref.namespace, "/", ref.name)
      BY <2>1, <2>3, ConcatJoins, Zenon
    <3>2. QED
      BY <1>0, <2>4, <3>1, SplitAtLast
  <2>6. LastOf(full, "/") # 0
    BY <2>5
  <2>7. NamespaceOf(full) = ref.namespace /\ NameOf(full) = ref.name
    BY <2>5, <2>6 DEF NamespaceOf, NameOf
  <2>8. full # <<>>
    <3>1. LastOf(full, "/") \in 0..Len(full)
      BY <2>4, LastOfFacts
    <3>2. QED
      BY <2>6, <3>1, EmptySeq
  <2>9. QED
    BY <2>2, <2>4, <2>7, <2>8, Zenon DEF full
<1>3. QED
  BY <1>1, <1>2

\* Valid parts.
Sound(ref) ==
    /\ ref.namespace \in Seq(Alphabet) /\ ref.name \in Seq(Alphabet) /\ ref.tag \in Seq(Alphabet)
    /\ ref.namespace = NoPart \/ ValidPart(ref.namespace)
    /\ ValidPart(ref.name)
    /\ ValidTag(ref.tag)
    /\ ref.hash = NoPart \/ ValidHash(ref.hash)

\* The text before the hash, with or without a tag, and the whole text.
Tagged(ref, body) == body = FullName(ref) \o <<":">> \o ref.tag
NotTagged(ref, body) == body = FullName(ref) /\ ref.tag = Latest
Hashed(ref, body, low) ==
    IF ref.hash = NoPart THEN low = body ELSE low = body \o <<"@">> \o ref.hash

\* A text is cut into the parts it was joined from.
LEMMA CutReading ==
    ASSUME NEW ref, Sound(ref), NEW body, Tagged(ref, body) \/ NotTagged(ref, body),
           NEW low, Hashed(ref, body, low)
    PROVE  /\ Acceptable(low)
           /\ Cut(low) = [ok |-> TRUE, namespace |-> ref.namespace, name |-> ref.name,
                          tag |-> ref.tag, hash |-> ref.hash]
<1> DEFINE full == FullName(ref)
<1>1. /\ full \in Seq(Alphabet) /\ full # <<>>
      /\ Avoids(full, "@") /\ Avoids(full, ":")
      /\ NamespaceOf(full) = ref.namespace /\ NameOf(full) = ref.name
      /\ LastOf(full, "/") > 0 => ValidPart(ref.namespace)
  BY FullNameCuts, Zenon DEF Sound
<1>2. Avoids(ref.tag, "@") /\ Avoids(ref.tag, ":") /\ ref.tag \in Seq(Alphabet)
  BY TagAvoids DEF Sound
<1>3. ":" \in Alphabet /\ "@" \in Alphabet /\ ":" # "@"
  BY DEF Alphabet, Tokens
<1> HIDE DEF full
<1>4. body \in Seq(Alphabet) /\ Avoids(body, "@") /\ PathOf(body) = full /\ TagOf(body) = ref.tag
  <2>1. CASE Tagged(ref, body)
    <3>1. body \in Seq(Alphabet) /\ Avoids(body, "@")
      BY <1>1, <1>2, <1>3, <2>1, JoinAvoids, Zenon DEF Tagged, full
    <3>2. /\ LastOf(body, ":") # 0
          /\ Before(body, LastOf(body, ":")) = full
          /\ After(body, LastOf(body, ":")) = ref.tag
      <4>1. Joins(body, full, ":", ref.tag)
        BY <1>1, <1>2, <1>3, <2>1, ConcatJoins, Zenon DEF Tagged, full
      <4>2. QED
        BY <1>1, <1>2, <3>1, <4>1, SplitAtLast
    <3>3. QED
      BY <1>1, <3>1, <3>2, Zenon DEF PathOf, TagOf
  <2>2. CASE NotTagged(ref, body)
    <3>1. body = full /\ ref.tag = Latest
      BY <2>2 DEF NotTagged, full
    <3>2. LastOf(body, ":") = 0
      BY <1>1, <3>1, LastOfNone
    <3>3. QED
      BY <1>1, <3>1, <3>2 DEF PathOf, TagOf
  <2>3. QED
    BY <2>1, <2>2, Zenon
<1>5. Len(body) \in Nat /\ Len(body) > 0 /\ body[1] # "@"
  <2>1. Len(full) \in Nat /\ Len(full) >= 1
    <3>1. Len(full) \in Nat \ {0}
      BY <1>1, EmptySeq
    <3>2. QED
      BY <3>1
  <2>2. Len(body) > 0
    <3>1. CASE Tagged(ref, body)
      <4>1. Joins(body, full, ":", ref.tag)
        BY <1>1, <1>2, <1>3, <3>1, ConcatJoins, Zenon DEF Tagged, full
      <4> DEFINE n == Len(full)
                 t == Len(ref.tag)
                 b == Len(body)
      <4>2. b = n + 1 + t
        BY <4>1, Zenon DEF Joins
      <4>3. t \in Nat
        BY <1>2
      <4>4. n \in Nat
        BY <2>1
      <4> HIDE DEF n, t, b
      <4>5. b > 0
        BY <4>2, <4>3, <4>4
      <4>6. QED
        BY <4>5 DEF b
    <3>2. CASE NotTagged(ref, body)
      BY <2>1, <3>2 DEF NotTagged, full
    <3>3. QED
      BY <3>1, <3>2
  <2>3. Len(body) \in Nat /\ 1 \in 1..Len(body)
    BY <1>4, <2>2
  <2>4. QED
    BY <1>4, <2>2, <2>3 DEF Avoids
<1>6. /\ low \in Seq(Alphabet) /\ low # <<>> /\ Head(low) # "@"
      /\ MainOf(low) = body /\ HashOf(low) = ref.hash
      /\ LastOf(low, "@") > 0 => ValidHash(ref.hash)
  <2>1. CASE ref.hash = NoPart
    <3>1. low = body
      BY <2>1 DEF Hashed
    <3>2. LastOf(low, "@") = 0
      BY <1>4, <3>1, LastOfNone
    <3>3. MainOf(low) = body /\ HashOf(low) = ref.hash /\ ~(LastOf(low, "@") > 0)
      BY <2>1, <3>1, <3>2 DEF MainOf, HashOf
    <3>4. body # <<>> /\ Head(body) # "@"
      BY <1>4, <1>5
    <3>5. QED
      BY <1>4, <3>1, <3>3, <3>4, Zenon
  <2>2. CASE ref.hash # NoPart
    <3>1. low = body \o <<"@">> \o ref.hash
      BY <2>2 DEF Hashed
    <3>2. ValidHash(ref.hash) /\ ref.hash = <<"s", ":", "h">>
      BY <2>2 DEF ValidHash, Sound
    <3>3. ref.hash \in Seq(Alphabet) /\ Avoids(ref.hash, "@") /\ Len(ref.hash) = 3
      BY <3>2 DEF Alphabet, Tokens, Avoids
    <3>4. low \in Seq(Alphabet) /\ Joins(low, body, "@", ref.hash)
      BY <1>3, <1>4, <3>1, <3>3, ConcatJoins, Zenon
    <3>5. /\ LastOf(low, "@") # 0
          /\ Before(low, LastOf(low, "@")) = body
          /\ After(low, LastOf(low, "@")) = ref.hash
      <4>1. Avoids(ref.hash, "@") /\ body \in Seq(Alphabet) /\ ref.hash \in Seq(Alphabet)
        BY <1>4, <3>3
      <4>2. QED
        BY <3>4, <4>1, SplitAtLast
    <3>6. MainOf(low) = body /\ HashOf(low) = ref.hash
      BY <3>5, Zenon DEF MainOf, HashOf
    <3>7. low \in Seq(Alphabet) /\ Len(low) = Len(body) + 1 + Len(ref.hash) /\ low[1] = body[1]
      <4>1. 1 \in 1..Len(body)
        BY <1>5
      <4>2. QED
        BY <3>4, <4>1, Zenon DEF Joins
    <3>8. low # <<>> /\ Head(low) # "@"
      BY <1>5, <3>3, <3>7
    <3>9. QED
      BY <3>2, <3>6, <3>7, <3>8, Zenon
  <2>3. QED
    BY <2>1, <2>2
<1>7. Acceptable(low)
  BY <1>1, <1>4, <1>6, Zenon DEF Acceptable, Sound
<1>8. QED
  BY <1>1, <1>4, <1>6, <1>7, Zenon DEF Cut

\* A full name is joined again from what it is cut into.
LEMMA NameJoins ==
    ASSUME NEW name \in Seq(Alphabet), NEW ref,
           ref.namespace = NamespaceOf(name), ref.name = NameOf(name),
           LastOf(name, "/") # 0 => ref.namespace # NoPart
    PROVE  ref.namespace \in Seq(Alphabet) /\ ref.name \in Seq(Alphabet) /\ FullName(ref) = name
<1> DEFINE k == LastOf(name, "/")
<1>1. k \in 0..Len(name) /\ (k > 0 => name[k] = "/") /\ Len(name) \in Nat
  BY LastOfFacts
<1>2. CASE k = 0
  <2>1. NameOf(name) = name
    BY <1>2, SubSeqFull DEF NameOf, After
  <2>2. ref.namespace = NoPart /\ ref.name = name
    BY <1>2, <2>1 DEF NamespaceOf
  <2>3. NoPart \in Seq(Alphabet)
    BY EmptySeq DEF NoPart
  <2>4. QED
    BY <2>2, <2>3 DEF FullName
<1>3. CASE k # 0
  <2>1. k \in 1..Len(name) /\ name[k] = "/"
    BY <1>1, <1>3
  <2>2. ref.namespace = Before(name, k) /\ ref.name = After(name, k) /\ ref.namespace # NoPart
    BY <1>3 DEF NamespaceOf, NameOf
  <2> HIDE DEF k
  <2>3. /\ Before(name, k) \in Seq(Alphabet) /\ After(name, k) \in Seq(Alphabet)
        /\ name = Before(name, k) \o <<name[k]>> \o After(name, k)
    BY <2>1, JoinAt, Zenon
  <2>4. QED
    BY <2>1, <2>2, <2>3, Zenon DEF FullName
<1>4. QED
  BY <1>2, <1>3

\* The parts of a text are texts.
LEMMA PartsAreTexts ==
    ASSUME NEW S, NEW low \in Seq(S), NEW part \in PartsOf(low)
    PROVE  part \in Seq(S)
<1>1. PICK i \in 1..Len(low), j \in 1..Len(low) : part = SubSeq(low, i, j)
  BY DEF PartsOf
<1>2. Len(low) \in Nat /\ \A n \in i..j : n \in 1..Len(low)
  OBVIOUS
<1>3. i \in Int /\ j \in Int /\ \A n \in i..j : low[n] \in S
  BY <1>2, ElementOfSeq
<1>4. QED
  BY <1>1, <1>3, SubSeqProperties, Zenon

\* What lies between two positions is a part.
LEMMA PartIntro ==
    ASSUME NEW text, NEW i \in 1..Len(text), NEW j \in 1..Len(text)
    PROVE  SubSeq(text, i, j) \in PartsOf(text)
BY DEF PartsOf

\* A part of a part is a part.
LEMMA PartOfPart ==
    ASSUME NEW S, NEW low \in Seq(S), NEW main \in PartsOf(low), NEW part \in PartsOf(main)
    PROVE  part \in PartsOf(low)
<1>1. PICK i \in 1..Len(low), j \in 1..Len(low) : main = SubSeq(low, i, j)
  BY DEF PartsOf
<1>2. PICK m \in 1..Len(main), n \in 1..Len(main) : part = SubSeq(main, m, n)
  BY DEF PartsOf
<1>3. main \in Seq(S) /\ Len(low) \in Nat /\ i \in Int /\ j \in Int
  BY PartsAreTexts
<1>4. Len(main) = IF i <= j THEN j - i + 1 ELSE 0
  <2>1. \A k \in i..j : low[k] \in S
    <3>1. \A k \in i..j : k \in 1..Len(low)
      BY <1>3
    <3>2. QED
      BY <3>1, ElementOfSeq, Zenon
  <2>2. Len(SubSeq(low, i, j)) = IF i <= j THEN j - i + 1 ELSE 0
    BY <1>3, <2>1
  <2>3. QED
    BY <1>1, <2>2, Zenon
<1>5. m \in 1..j - i + 1 /\ n \in 1..j - i + 1
  BY <1>3, <1>4
<1>6. SubSeq(SubSeq(low, i, j), m, n) = SubSeq(low, i + m - 1, i + n - 1)
  BY <1>3, <1>5, SubSeqOfSubSeq
<1>7. i + m - 1 \in 1..Len(low) /\ i + n - 1 \in 1..Len(low)
  BY <1>3, <1>5
<1>8. part = SubSeq(low, i + m - 1, i + n - 1)
  BY <1>1, <1>2, <1>6, Zenon
<1>9. QED
  BY <1>7, <1>8, PartIntro, Zenon

\* A text is a part of itself, and so is what is on either side of a token,
\* unless it is empty.
LEMMA SidesAreParts ==
    ASSUME NEW S, NEW text \in Seq(S)
    PROVE  /\ Len(text) >= 1 => text \in PartsOf(text)
           /\ \A k \in 1..Len(text) :
                 /\ Len(Before(text, k)) >= 1 => Before(text, k) \in PartsOf(text)
                 /\ Len(After(text, k)) >= 1 => After(text, k) \in PartsOf(text)
<1>1. Len(text) \in Nat
  OBVIOUS
<1>2. ASSUME Len(text) >= 1 PROVE text \in PartsOf(text)
  <2>1. SubSeq(text, 1, Len(text)) = text
    BY SubSeqFull
  <2>2. 1 \in 1..Len(text) /\ Len(text) \in 1..Len(text)
    BY <1>1, <1>2
  <2>3. SubSeq(text, 1, Len(text)) \in PartsOf(text)
    BY <2>2, PartIntro, Zenon
  <2>4. QED
    BY <2>1, <2>3, Zenon
<1>3. ASSUME NEW k \in 1..Len(text)
      PROVE  /\ Len(Before(text, k)) >= 1 => Before(text, k) \in PartsOf(text)
             /\ Len(After(text, k)) >= 1 => After(text, k) \in PartsOf(text)
  <2>1. Len(Before(text, k)) = k - 1 /\ Len(After(text, k)) = Len(text) - k
    <3>1. text \in Seq(S) /\ k \in 1..Len(text)
      OBVIOUS
    <3>2. QED
      BY <3>1, JoinAt, Zenon
  <2>2. ASSUME Len(Before(text, k)) >= 1 PROVE Before(text, k) \in PartsOf(text)
    <3>1. 1 \in 1..Len(text) /\ k - 1 \in 1..Len(text)
      BY <1>1, <2>1, <2>2
    <3>2. QED
      BY <3>1, PartIntro, Zenon DEF Before
  <2>3. ASSUME Len(After(text, k)) >= 1 PROVE After(text, k) \in PartsOf(text)
    <3>1. k + 1 \in 1..Len(text) /\ Len(text) \in 1..Len(text)
      BY <1>1, <2>1, <2>3
    <3>2. QED
      BY <3>1, PartIntro, Zenon DEF After
  <2>4. QED
    BY <2>2, <2>3
<1>4. QED
  BY <1>2, <1>3

\* How three texts are joined does not matter.
LEMMA ConcatThree ==
    \A s, t, u \in Seq(Alphabet) : (s \o t) \o u = s \o (t \o u)
BY ConcatAssociative

\* The hash, if there is one, is joined to the rest by an @.
LEMMA SuffixJoins ==
    ASSUME NEW ref, ref.hash = NoPart \/ ref.hash \in Seq(Alphabet), NEW body \in Seq(Alphabet), NEW low
    PROVE  low = body \o HashSuffix(ref) <=> Hashed(ref, body, low)
<1>1. CASE ref.hash = NoPart
  <2>1. body \o HashSuffix(ref) = body
    BY <1>1, ConcatEmptySeq DEF HashSuffix, NoPart
  <2>2. QED
    BY <1>1, <2>1, Zenon DEF Hashed
<1>2. CASE ref.hash # NoPart
  <2>1. <<"@">> \in Seq(Alphabet) /\ ref.hash \in Seq(Alphabet)
    <3>1. "@" \in Alphabet
      BY DEF Alphabet, Tokens
    <3>2. <<"@">> \in Seq(Alphabet)
      BY <3>1
    <3>3. QED
      BY <1>2, <3>2, Zenon
  <2>2. (body \o <<"@">>) \o ref.hash = body \o (<<"@">> \o ref.hash)
    BY <2>1, ConcatThree, Zenon
  <2>3. QED
    BY <1>2, <2>2, Zenon DEF Hashed, HashSuffix
<1>3. QED
  BY <1>1, <1>2

\* The text before the hash is a text.
LEMMA BodyIsText ==
    ASSUME NEW ref, Sound(ref), NEW body, Tagged(ref, body) \/ NotTagged(ref, body)
    PROVE  body \in Seq(Alphabet)
<1>1. FullName(ref) \in Seq(Alphabet)
  BY FullNameCuts, Zenon DEF Sound
<1>2. ref.tag \in Seq(Alphabet) /\ ":" \in Alphabet
  BY DEF Sound, Alphabet, Tokens
<1>3. CASE Tagged(ref, body)
  BY <1>1, <1>2, <1>3, ConcatJoins, Zenon DEF Tagged
<1>4. CASE NotTagged(ref, body)
  BY <1>1, <1>4 DEF NotTagged
<1>5. QED
  BY <1>3, <1>4

\* A text can be read only as what parse makes of it.
LEMMA ReadingIsParse ==
    ASSUME NEW text \in Seq(Alphabet), NEW ref \in Readings(Lower(text))
    PROVE  Parse(text) = ref /\ Parse(text).ok = TRUE
<1> DEFINE low == Lower(text)
<1>1. low \in Seq(Alphabet)
  BY LowerFacts
<1>2. ref \in Readable(low) /\ (low = AsString(ref) \/ (ref.tag = Latest /\ low = FullName(ref) \o HashSuffix(ref)))
  BY DEF Readings
<1> HIDE DEF low
<1>3. /\ ref = [ok |-> TRUE, namespace |-> ref.namespace, name |-> ref.name,
                tag |-> ref.tag, hash |-> ref.hash]
      /\ ref.namespace = NoPart \/ (ref.namespace \in PartsOf(low) /\ ValidPart(ref.namespace))
      /\ ref.name \in PartsOf(low) /\ ValidPart(ref.name)
      /\ ref.tag = Latest \/ (ref.tag \in PartsOf(low) /\ ValidTag(ref.tag))
      /\ ref.hash = NoPart \/ (ref.hash \in PartsOf(low) /\ ValidHash(ref.hash))
  BY <1>2 DEF Readable
<1>4. \A p \in PartsOf(low) : p \in Seq(Alphabet)
  BY <1>1, PartsAreTexts
<1>5. NoPart \in Seq(Alphabet) /\ Latest \in Seq(Alphabet)
  BY EmptySeq DEF NoPart, Latest, Alphabet
<1>6. ValidTag(Latest)
  <2>1. 1 \in 1..LongName
    BY <1>3, TextBoundsAssumption DEF ValidPart
  <2>2. QED
    BY <2>1 DEF ValidTag, Latest, Words
<1>7. Sound(ref)
  BY <1>3, <1>4, <1>5, <1>6, Zenon DEF Sound
<1> DEFINE body == IF low = AsString(ref) THEN FullName(ref) \o <<":">> \o ref.tag ELSE FullName(ref)
<1>8. /\ Tagged(ref, body) \/ NotTagged(ref, body)
      /\ low = body \o HashSuffix(ref)
  BY <1>2, Zenon DEF Tagged, NotTagged, AsString
<1> HIDE DEF body
<1>9. body \in Seq(Alphabet)
  BY <1>7, <1>8, BodyIsText, Zenon
<1>10. ref.hash = NoPart \/ ref.hash \in Seq(Alphabet)
  BY <1>3, <1>4, Zenon
<1>11. Hashed(ref, body, low)
  BY <1>8, <1>9, <1>10, SuffixJoins, Zenon
<1>12. /\ Acceptable(low)
       /\ Cut(low) = [ok |-> TRUE, namespace |-> ref.namespace, name |-> ref.name,
                      tag |-> ref.tag, hash |-> ref.hash]
  BY <1>7, <1>8, <1>11, CutReading, Zenon
<1>13. Parse(text) = Cut(low)
  BY <1>12, ParseCuts, Zenon DEF low
<1>14. Parse(text) = ref
  BY <1>3, <1>12, <1>13, Zenon
<1>15. ref.ok = TRUE
  BY <1>2 DEF Readable
<1>16. QED
  BY <1>14, <1>15, Zenon

\* Main and hash are parts of the text, joined by an @.
LEMMA HashCuts ==
    ASSUME NEW low \in Seq(Alphabet), low # <<>>, Head(low) # "@",
           LastOf(low, "@") > 0 => ValidHash(HashOf(low))
    PROVE  /\ MainOf(low) \in PartsOf(low) /\ MainOf(low) \in Seq(Alphabet)
           /\ HashOf(low) = NoPart \/ (HashOf(low) \in PartsOf(low) /\ ValidHash(HashOf(low)))
           /\ IF HashOf(low) = NoPart THEN low = MainOf(low)
              ELSE low = MainOf(low) \o <<"@">> \o HashOf(low)
<1> DEFINE k == LastOf(low, "@")
<1>1. k \in 0..Len(low) /\ (k > 0 => low[k] = "@") /\ Len(low) \in Nat
  BY LastOfFacts
<1>2. Len(low) >= 1 /\ low[1] # "@"
  <2>1. Len(low) \in Nat \ {0}
    BY EmptySeq
  <2>2. QED
    BY <2>1
<1>3. CASE k = 0
  <2>1. MainOf(low) = low /\ HashOf(low) = NoPart
    BY <1>3 DEF MainOf, HashOf
  <2>2. low \in PartsOf(low)
    BY <1>2, SidesAreParts
  <2>3. QED
    BY <2>1, <2>2, Zenon
<1>4. CASE k # 0
  <2>1. MainOf(low) = Before(low, k) /\ HashOf(low) = After(low, k)
    BY <1>4, Zenon DEF MainOf, HashOf
  <2>2. k \in 1..Len(low) /\ low[k] = "@" /\ k > 0
    BY <1>1, <1>4
  <2>3. ValidHash(HashOf(low))
    BY <2>2
  <2> HIDE DEF k
  <2>4. k # 1
    BY <1>2, <2>2
  <2>5. /\ Before(low, k) \in Seq(Alphabet) /\ After(low, k) \in Seq(Alphabet)
        /\ low = Before(low, k) \o <<low[k]>> \o After(low, k)
        /\ Len(Before(low, k)) = k - 1
    BY <2>2, JoinAt, Zenon
  <2>6. Len(Before(low, k)) >= 1
    BY <2>2, <2>4, <2>5
  <2>7. Len(After(low, k)) = 3
    BY <2>1, <2>3 DEF ValidHash
  <2>8. Before(low, k) \in PartsOf(low) /\ After(low, k) \in PartsOf(low)
    <3>1. Len(After(low, k)) >= 1
      BY <2>7
    <3>2. QED
      BY <2>2, <2>6, <3>1, SidesAreParts, Zenon
  <2>9. HashOf(low) # NoPart
    BY <2>3 DEF ValidHash, NoPart
  <2>10. low = MainOf(low) \o <<"@">> \o HashOf(low)
    BY <2>1, <2>2, <2>5, Zenon
  <2>11. QED
    BY <2>1, <2>3, <2>5, <2>8, <2>9, <2>10, Zenon
<1>5. QED
  BY <1>3, <1>4

\* Path and tag are parts of what is before the hash, joined by a colon.
LEMMA TagCuts ==
    ASSUME NEW main \in Seq(Alphabet), ValidTag(TagOf(main)), PathOf(main) # <<>>
    PROVE  /\ PathOf(main) \in PartsOf(main) /\ PathOf(main) \in Seq(Alphabet)
           /\ \/ TagOf(main) \in PartsOf(main) /\ main = PathOf(main) \o <<":">> \o TagOf(main)
              \/ TagOf(main) = Latest /\ main = PathOf(main)
<1> DEFINE k == LastOf(main, ":")
<1>1. k \in 0..Len(main) /\ (k > 0 => main[k] = ":") /\ Len(main) \in Nat
  BY LastOfFacts
<1>2. \A s \in Seq(Alphabet) : s # <<>> => Len(s) >= 1
  <2>1. \A s \in Seq(Alphabet) : s # <<>> => Len(s) \in Nat \ {0}
    BY EmptySeq
  <2>2. QED
    BY <2>1
<1>3. CASE k = 0
  <2>1. PathOf(main) = main /\ TagOf(main) = Latest
    BY <1>3 DEF PathOf, TagOf
  <2>2. main \in PartsOf(main)
    BY <1>2, <2>1, SidesAreParts
  <2>3. QED
    BY <2>1, <2>2, Zenon
<1>4. CASE k # 0
  <2>1. PathOf(main) = Before(main, k) /\ TagOf(main) = After(main, k)
    BY <1>4, Zenon DEF PathOf, TagOf
  <2>2. k \in 1..Len(main) /\ main[k] = ":"
    BY <1>1, <1>4
  <2> HIDE DEF k
  <2>3. /\ Before(main, k) \in Seq(Alphabet) /\ After(main, k) \in Seq(Alphabet)
        /\ main = Before(main, k) \o <<main[k]>> \o After(main, k)
    BY <2>2, JoinAt, Zenon
  <2>4. Len(Before(main, k)) >= 1 /\ Len(After(main, k)) >= 1
    <3>1. Len(Before(main, k)) >= 1
      BY <1>2, <2>1, <2>3, Zenon
    <3>2. Len(After(main, k)) >= 1
      BY <2>1, <2>3, TagAvoids
    <3>3. QED
      BY <3>1, <3>2
  <2>5. Before(main, k) \in PartsOf(main) /\ After(main, k) \in PartsOf(main)
    BY <2>2, <2>4, SidesAreParts, Zenon
  <2>6. QED
    BY <2>1, <2>2, <2>3, <2>5, Zenon
<1>5. QED
  BY <1>3, <1>4

\* Namespace and name are parts of the path, and make up the full name.
LEMMA NameCuts ==
    ASSUME NEW path \in Seq(Alphabet), ValidPart(NameOf(path)),
           LastOf(path, "/") > 0 => ValidPart(NamespaceOf(path)),
           NEW ref, ref.namespace = NamespaceOf(path), ref.name = NameOf(path)
    PROVE  /\ path # <<>> /\ FullName(ref) = path
           /\ NameOf(path) \in PartsOf(path)
           /\ NamespaceOf(path) = NoPart
              \/ (NamespaceOf(path) \in PartsOf(path) /\ ValidPart(NamespaceOf(path)))
<1> DEFINE k == LastOf(path, "/")
<1>1. k \in 0..Len(path) /\ (k > 0 => path[k] = "/") /\ Len(path) \in Nat
  BY LastOfFacts
<1>2. CASE k = 0
  <2>1. NameOf(path) = path /\ NamespaceOf(path) = NoPart
    BY <1>2, SubSeqFull DEF NameOf, After, NamespaceOf
  <2>2. Len(path) >= 1 /\ path # <<>>
    BY <2>1, PartAvoids
  <2>3. path \in PartsOf(path)
    BY <2>2, SidesAreParts
  <2>4. FullName(ref) = path
    BY <1>2, NameJoins
  <2>5. QED
    BY <2>1, <2>2, <2>3, <2>4, Zenon
<1>3. CASE k # 0
  <2>1. NamespaceOf(path) = Before(path, k) /\ NameOf(path) = After(path, k)
    BY <1>3, Zenon DEF NamespaceOf, NameOf
  <2>2. k \in 1..Len(path) /\ k > 0
    BY <1>1, <1>3
  <2>3. ValidPart(NamespaceOf(path))
    BY <2>2
  <2> HIDE DEF k
  <2>4. Before(path, k) \in Seq(Alphabet) /\ After(path, k) \in Seq(Alphabet)
    BY <2>2, JoinAt, Zenon
  <2>5. /\ Len(Before(path, k)) >= 1 /\ Len(After(path, k)) >= 1
        /\ NamespaceOf(path) # <<>>
    BY <2>1, <2>3, <2>4, PartAvoids
  <2>6. Before(path, k) \in PartsOf(path) /\ After(path, k) \in PartsOf(path)
    BY <2>2, <2>5, SidesAreParts, Zenon
  <2>7. FullName(ref) = path
    BY <2>5, NameJoins DEF NoPart
  <2>8. path # <<>>
    <3>1. Len(path) # 0
      BY <1>1, <2>2
    <3>2. QED
      BY <3>1, EmptySeq, Zenon
  <2>9. QED
    BY <2>1, <2>3, <2>6, <2>7, <2>8, Zenon
<1>4. QED
  BY <1>2, <1>3

\* What parse accepts can be read as what it makes of it.
LEMMA CutIsReading ==
    ASSUME NEW low \in Seq(Alphabet), Acceptable(low)
    PROVE  Cut(low) \in Readings(low)
<1> DEFINE main == MainOf(low)
           path == PathOf(main)
           ref == Cut(low)
<1>1. /\ ref = [ok |-> TRUE, namespace |-> NamespaceOf(path), name |-> NameOf(path),
                tag |-> TagOf(main), hash |-> HashOf(low)]
      /\ low # <<>> /\ Head(low) # "@"
      /\ LastOf(low, "@") > 0 => ValidHash(HashOf(low))
      /\ ValidTag(TagOf(main))
      /\ LastOf(path, "/") > 0 => ValidPart(NamespaceOf(path))
      /\ ValidPart(NameOf(path))
  BY Zenon DEF Cut, Acceptable
<1>2. /\ main \in PartsOf(low) /\ main \in Seq(Alphabet)
      /\ HashOf(low) = NoPart \/ (HashOf(low) \in PartsOf(low) /\ ValidHash(HashOf(low)))
      /\ IF HashOf(low) = NoPart THEN low = main ELSE low = main \o <<"@">> \o HashOf(low)
  BY <1>1, HashCuts, Zenon
<1> HIDE DEF main
<1>3. path \in Seq(Alphabet)
  <2>1. LastOf(main, ":") \in 0..Len(main)
    BY <1>2, LastOfFacts
  <2>2. CASE LastOf(main, ":") = 0
    BY <1>2, <2>2 DEF PathOf
  <2>3. CASE LastOf(main, ":") # 0
    <3>1. LastOf(main, ":") \in 1..Len(main)
      BY <1>2, <2>1, <2>3
    <3>2. Before(main, LastOf(main, ":")) \in Seq(Alphabet)
      BY <1>2, <3>1, JoinAt, Zenon
    <3>3. QED
      BY <2>3, <3>2, Zenon DEF PathOf
  <2>4. QED
    BY <2>2, <2>3
<1>4. /\ ref.ok = TRUE /\ ref.namespace = NamespaceOf(path) /\ ref.name = NameOf(path)
      /\ ref.tag = TagOf(main) /\ ref.hash = HashOf(low)
  <2> HIDE DEF path, ref
  <2>1. QED
    BY <1>1
<1> HIDE DEF path, ref
<1>5. /\ path # <<>> /\ FullName(ref) = path
      /\ NameOf(path) \in PartsOf(path)
      /\ NamespaceOf(path) = NoPart
         \/ (NamespaceOf(path) \in PartsOf(path) /\ ValidPart(NamespaceOf(path)))
  BY <1>1, <1>3, <1>4, NameCuts, Zenon
<1>6. /\ path \in PartsOf(main)
      /\ \/ TagOf(main) \in PartsOf(main) /\ main = path \o <<":">> \o TagOf(main)
         \/ TagOf(main) = Latest /\ main = path
  BY <1>1, <1>2, <1>5, TagCuts, Zenon DEF path
<1>7. path \in PartsOf(low)
  BY <1>2, <1>6, PartOfPart
<1>8. NameOf(path) \in PartsOf(low)
      /\ (NamespaceOf(path) \in PartsOf(path) => NamespaceOf(path) \in PartsOf(low))
      /\ (TagOf(main) \in PartsOf(main) => TagOf(main) \in PartsOf(low))
  BY <1>2, <1>5, <1>7, PartOfPart
<1>9. ref \in Readable(low)
  <2>1. /\ NamespaceOf(path) \in {p \in PartsOf(low) : ValidPart(p)} \cup {NoPart}
        /\ NameOf(path) \in {p \in PartsOf(low) : ValidPart(p)}
        /\ TagOf(main) \in {p \in PartsOf(low) : ValidTag(p)} \cup {Latest}
        /\ HashOf(low) \in {p \in PartsOf(low) : ValidHash(p)} \cup {NoPart}
    BY <1>1, <1>2, <1>5, <1>6, <1>8, Zenon
  <2>2. QED
    BY <1>1, <2>1 DEF Readable, ref
<1>10. low = main \o HashSuffix(ref)
  <2>1. Hashed(ref, main, low)
    BY <1>2, <1>4, Zenon DEF Hashed
  <2>2. ref.hash = NoPart \/ ref.hash \in Seq(Alphabet)
    BY <1>2, <1>4, PartsAreTexts
  <2>3. QED
    BY <1>2, <2>1, <2>2, SuffixJoins, Zenon
<1>11. low = AsString(ref) \/ (ref.tag = Latest /\ low = FullName(ref) \o HashSuffix(ref))
  BY <1>4, <1>5, <1>6, <1>10, Zenon DEF AsString
<1>12. QED
  BY <1>9, <1>11, Zenon DEF Readings, ref

\* A reference is accepted exactly if it can be read as valid parts around
\* the separators, and then it means those and cannot be read otherwise.
THEOREM SpecParsesAsWritten == RefSpec => []ParsesAsWritten
<1>1. ASSUME NEW text \in Seq(Tokens)
      PROVE  Readings(Lower(text)) = IF Parse(text).ok THEN {Parse(text)} ELSE {}
  <2> DEFINE low == Lower(text)
  <2>1. text \in Seq(Alphabet) /\ low \in Seq(Alphabet)
    <3>1. text \in Seq(Alphabet)
      BY DEF Alphabet
    <3>2. QED
      BY <3>1, LowerFacts
  <2>2. \A ref \in Readings(low) : Parse(text) = ref /\ Parse(text).ok = TRUE
    BY <2>1, ReadingIsParse
  <2>3. /\ Acceptable(low) => Parse(text) = Cut(low)
        /\ ~Acceptable(low) => Parse(text).ok = FALSE
    BY <2>1, ParseCuts, Zenon
  <2>4. Acceptable(low) => Cut(low) \in Readings(low)
    BY <2>1, CutIsReading
  <2> HIDE DEF low
  <2>5. CASE Acceptable(low)
    <3>1. Parse(text) \in Readings(low) /\ Parse(text).ok = TRUE
      BY <2>2, <2>3, <2>4, <2>5, Zenon
    <3>2. Readings(low) = {Parse(text)}
      BY <2>2, <3>1, Zenon
    <3>3. QED
      BY <3>1, <3>2, Zenon DEF low
  <2>6. CASE ~Acceptable(low)
    <3>1. Parse(text).ok = FALSE
      BY <2>3, <2>6, Zenon
    <3>2. Readings(low) = {}
      BY <2>2, <3>1, Zenon
    <3>3. QED
      BY <3>1, <3>2, Zenon DEF low
  <2>7. QED
    BY <2>5, <2>6
<1>2. Referred => ParsesAsWritten
  <2> SUFFICES ASSUME Referred, Replied("parse")
               PROVE  Readings(Lower(question.text)) = IF answer.ok THEN {answer} ELSE {}
    BY DEF ParsesAsWritten
  <2>1. question.text \in Seq(Tokens)
    BY RefQuestionKinds DEF Referred, Replied
  <2>2. answer = Parse(question.text)
    BY DEF Referred, Replied, answer
  <2>3. QED
    BY <1>1, <2>1, <2>2, Zenon
<1>3. QED
  BY <1>2, AlwaysReferred, PTL

-----------------------------------------------------------------------------
(***************************************************************************)
(* Publishing and resolving: what publish accepts is parsed back, and so is *)
(* the key it is stored under.                                              *)
(***************************************************************************)
\* A text without a separator is one segment.
LEMMA OneSegmentOf ==
    ASSUME NEW S, NEW text \in Seq(S), Positions(text, "/") = {}
    PROVE  Segments(text) = <<text>>
<1> DEFINE ends == Positions(text, "/") \cup {Len(text) + 1}
           last == Len(text) + 1
           Nth(n) == CHOOSE e \in ends : Cardinality({d \in ends : d <= e}) = n
           Start(n) == IF n = 1 THEN 1 ELSE Nth(n - 1) + 1
<1>1. last \in Nat /\ last - 1 = Len(text)
  OBVIOUS
<1>2. Segments(text) = [n \in 1..Cardinality(ends) |-> SubSeq(text, Start(n), Nth(n) - 1)]
  BY Zenon DEF Segments
<1>3. ends = {last}
  OBVIOUS
<1>4. Cardinality(ends) = 1
  BY <1>3, FS_Singleton
<1>5. Nth(1) = last
  <2>1. {d \in ends : d <= last} = {last}
    BY <1>1, <1>3
  <2>2. Cardinality({d \in ends : d <= last}) = 1
    BY <2>1, FS_Singleton
  <2>3. QED
    BY <1>3, <2>2
<1>6. SubSeq(text, 1, last - 1) = text
  BY <1>1, SubSeqFull
<1>7. Start(1) = 1
  OBVIOUS
<1> HIDE DEF ends, Nth, last, Start
<1>8. Segments(text) = [n \in 1..1 |-> SubSeq(text, Start(n), Nth(n) - 1)]
  BY <1>2, <1>4
<1>9. \A n \in 1..1 : SubSeq(text, Start(n), Nth(n) - 1) = text
  <2>1. \A n \in 1..1 : n = 1
    OBVIOUS
  <2>2. SubSeq(text, Start(1), Nth(1) - 1) = text
    BY <1>5, <1>6, <1>7
  <2>3. QED
    BY <2>1, <2>2, Zenon
<1>10. Segments(text) = [n \in 1..1 |-> text]
  BY <1>8, <1>9, Zenon
<1>11. QED
  BY <1>10

\* With one separator there are two segments.
LEMMA TwoSegmentsOf ==
    ASSUME NEW S, NEW text \in Seq(S), NEW k \in 1..Len(text), Positions(text, "/") = {k}
    PROVE  Segments(text) = <<Before(text, k), After(text, k)>>
<1> DEFINE ends == Positions(text, "/") \cup {Len(text) + 1}
           last == Len(text) + 1
           Nth(n) == CHOOSE e \in ends : Cardinality({d \in ends : d <= e}) = n
           Start(n) == IF n = 1 THEN 1 ELSE Nth(n - 1) + 1
<1>1. last \in Nat /\ last - 1 = Len(text) /\ k \in Nat /\ k < last
  OBVIOUS
<1>2. Segments(text) = [n \in 1..Cardinality(ends) |-> SubSeq(text, Start(n), Nth(n) - 1)]
  BY Zenon DEF Segments
<1>3. ends = {k, last}
  OBVIOUS
<1>4. Cardinality(ends) = 2
  <2>1. IsFiniteSet({k}) /\ Cardinality({k}) = 1
    BY FS_Singleton, Zenon
  <2> HIDE DEF last
  <2>2. Cardinality({k} \cup {last}) = 2
    <3>1. last \notin {k}
      BY <1>1
    <3>2. Cardinality({k} \cup {last}) =
             IF last \in {k} THEN Cardinality({k}) ELSE Cardinality({k}) + 1
      BY <2>1, FS_AddElement, Zenon
    <3>3. Cardinality({k} \cup {last}) = 1 + 1
      BY <2>1, <3>1, <3>2, Zenon
    <3>4. 1 + 1 = 2
      OBVIOUS
    <3>5. QED
      BY <3>3, <3>4, Zenon
  <2>3. ends = {k} \cup {last}
    BY <1>3
  <2>4. QED
    BY <2>2, <2>3, Zenon
<1>5. Cardinality({d \in ends : d <= k}) = 1
  <2>1. {d \in ends : d <= k} = {k}
    BY <1>1, <1>3
  <2>2. QED
    BY <2>1, FS_Singleton
<1>6. Cardinality({d \in ends : d <= last}) = 2
  <2>1. {d \in ends : d <= last} = ends
    BY <1>1, <1>3
  <2>2. QED
    BY <1>4, <2>1
<1>7. Nth(1) = k /\ Nth(2) = last
  BY <1>1, <1>3, <1>5, <1>6
<1>8. Start(1) = 1 /\ Start(2) = Nth(1) + 1
  BY <1>7
<1> HIDE DEF ends, Nth, Start
<1>9. Segments(text) = [n \in 1..2 |-> SubSeq(text, Start(n), Nth(n) - 1)]
  BY <1>2, <1>4
<1>10. SubSeq(text, Start(1), Nth(1) - 1) = Before(text, k)
  BY <1>7, <1>8 DEF Before
<1>11. SubSeq(text, Start(2), Nth(2) - 1) = After(text, k)
  BY <1>1, <1>7, <1>8 DEF After
<1> DEFINE segments == [n \in 1..2 |-> SubSeq(text, Start(n), Nth(n) - 1)]
<1>12. DOMAIN segments = 1..2 /\ segments[1] = Before(text, k) /\ segments[2] = After(text, k)
  BY <1>10, <1>11
<1>13. segments = <<segments[1], segments[2]>>
  OBVIOUS
<1> HIDE DEF segments
<1>14. QED
  BY <1>9, <1>12, <1>13 DEF segments

\* What publish accepts as a name and a tag are the parts of a reference.
PublishedParts(name, tag) ==
    [namespace |-> NamespaceOf(name), name |-> NameOf(name), tag |-> tag, hash |-> NoPart]

\* They are valid parts, and make up the name that was published.
LEMMA PublishedIsSound ==
    ASSUME NEW name \in Seq(Tokens), NEW tag \in Seq(Tokens), ValidRefParts(name, tag)
    PROVE  Sound(PublishedParts(name, tag)) /\ FullName(PublishedParts(name, tag)) = name
<1> DEFINE ref == PublishedParts(name, tag)
           k == LastOf(name, "/")
<1>1. name \in Seq(Alphabet) /\ tag \in Seq(Alphabet)
  BY DEF Alphabet
<1>2. /\ ref.namespace = NamespaceOf(name) /\ ref.name = NameOf(name)
      /\ ref.tag = tag /\ ref.hash = NoPart
  BY DEF PublishedParts
<1>3. k \in 0..Len(name) /\ Len(name) \in Nat
  BY <1>1, LastOfFacts
<1>4. /\ k > 0 => ValidPart(Before(name, k))
      /\ ValidPart(After(name, k)) /\ ValidTag(tag)
  BY Zenon DEF ValidRefParts
<1> HIDE DEF ref
<1>5. CASE k = 0
  <2>1. ref.name = After(name, k)
    BY <1>2, Zenon DEF NameOf
  <2>2. ref.namespace = NoPart /\ ValidPart(ref.name)
    BY <1>2, <1>4, <1>5, <2>1, Zenon DEF NamespaceOf
  <2>3. ref.namespace \in Seq(Alphabet) /\ ref.name \in Seq(Alphabet) /\ FullName(ref) = name
    BY <1>1, <1>2, <1>5, NameJoins
  <2>4. QED
    BY <1>1, <1>2, <1>4, <2>2, <2>3, Zenon DEF Sound, ref
<1>6. CASE k # 0
  <2>1. k > 0
    BY <1>3, <1>6
  <2>2. ValidPart(ref.namespace) /\ ValidPart(ref.name)
    BY <1>2, <1>4, <1>6, <2>1 DEF NamespaceOf, NameOf
  <2>3. Before(name, k) \in Seq(Alphabet)
    <3>1. k \in 1..Len(name)
      BY <1>3, <2>1
    <3>2. QED
      BY <1>1, <3>1, JoinAt, Zenon
  <2>4. ref.namespace # NoPart
    <3>1. ref.namespace \in Seq(Alphabet)
      BY <1>2, <1>6, <2>3 DEF NamespaceOf
    <3>2. QED
      BY <2>2, <3>1, PartAvoids DEF NoPart
  <2>5. ref.namespace \in Seq(Alphabet) /\ ref.name \in Seq(Alphabet) /\ FullName(ref) = name
    BY <1>1, <1>2, <2>4, NameJoins
  <2>6. QED
    BY <1>1, <1>2, <1>4, <2>2, <2>5, Zenon DEF Sound, ref
<1>7. QED
  BY <1>5, <1>6

\* They contain no upper case.
LEMMA SoundIsLower ==
    ASSUME NEW ref, Sound(ref)
    PROVE  Avoids(FullName(ref), "S")
<1>1. CASE ref.namespace = NoPart
  BY <1>1, PartAvoids DEF FullName, Sound
<1>2. CASE ref.namespace # NoPart
  <2>1. FullName(ref) = ref.namespace \o <<"/">> \o ref.name
    BY <1>2 DEF FullName
  <2>2. "/" \in Alphabet /\ "/" # "S"
    BY DEF Alphabet, Tokens
  <2>3. /\ ref.namespace \in Seq(Alphabet) /\ ref.name \in Seq(Alphabet)
        /\ ValidPart(ref.namespace) /\ ValidPart(ref.name)
    BY <1>2 DEF Sound
  <2>4. Avoids(ref.namespace, "S") /\ Avoids(ref.name, "S")
    BY <2>3, PartAvoids
  <2>5. QED
    BY <2>1, <2>2, <2>3, <2>4, JoinAvoids, Zenon
<1>3. QED
  BY <1>1, <1>2

\* So the reference name:tag is read as that name and that tag.
LEMMA PublishedParses ==
    ASSUME NEW name \in Seq(Tokens), NEW tag \in Seq(Tokens), ValidRefParts(name, tag),
           NEW text, text = name \o <<":">> \o tag
    PROVE  /\ Parse(text).ok /\ FullName(Parse(text)) = name /\ Parse(text).tag = tag
<1> DEFINE ref == PublishedParts(name, tag)
<1>1. Sound(ref) /\ FullName(ref) = name
  BY PublishedIsSound
<1>2. ref.tag = tag /\ ref.hash = NoPart
  BY DEF PublishedParts
<1> HIDE DEF ref
<1>3. name \in Seq(Alphabet) /\ tag \in Seq(Alphabet) /\ ":" \in Alphabet /\ ":" # "S"
  BY DEF Alphabet, Tokens
<1>4. Avoids(name, "S") /\ Avoids(tag, "S")
  <2>1. Avoids(name, "S")
    BY <1>1, SoundIsLower, Zenon
  <2>2. Avoids(tag, "S")
    BY <1>1, <1>2, <1>3, TagAvoids DEF Sound
  <2>3. QED
    BY <2>1, <2>2
<1>5. text \in Seq(Alphabet) /\ Avoids(text, "S")
  BY <1>3, <1>4, JoinAvoids, Zenon
<1>6. Lower(text) = text
  BY <1>5, LowerFacts, Zenon
<1>7. Tagged(ref, text) /\ Hashed(ref, text, text)
  BY <1>1, <1>2, Zenon DEF Tagged, Hashed
<1>8. /\ Acceptable(text)
      /\ Cut(text) = [ok |-> TRUE, namespace |-> ref.namespace, name |-> ref.name,
                      tag |-> ref.tag, hash |-> ref.hash]
  BY <1>1, <1>7, CutReading, Zenon
<1>9. Parse(text) = Cut(text)
  BY <1>5, <1>6, <1>8, ParseCuts, Zenon
<1>10. Parse(text).ok = TRUE /\ Parse(text).tag = tag
       /\ Parse(text).namespace = ref.namespace /\ Parse(text).name = ref.name
  <2>1. Cut(text).ok = TRUE /\ Cut(text).tag = ref.tag
        /\ Cut(text).namespace = ref.namespace /\ Cut(text).name = ref.name
    <3> DEFINE cut == [ok |-> TRUE, namespace |-> ref.namespace, name |-> ref.name,
                       tag |-> ref.tag, hash |-> ref.hash]
    <3>1. cut.ok = TRUE /\ cut.tag = ref.tag /\ cut.namespace = ref.namespace /\ cut.name = ref.name
      OBVIOUS
    <3> HIDE DEF cut
    <3>2. QED
      BY <1>8, <3>1, Zenon DEF cut
  <2>2. QED
    BY <1>2, <1>9, <2>1, Zenon
<1>11. FullName(Parse(text)) = FullName(ref)
  BY <1>10, Zenon DEF FullName
<1>12. QED
  BY <1>1, <1>10, <1>11, Zenon

\* A text without its first and its last element.
LEMMA InnerOf ==
    ASSUME NEW S, NEW key \in Seq(S), NEW path \in Seq(S), Len(key) = Len(path) + 2,
           \A i \in 1..Len(path) : key[i + 1] = path[i]
    PROVE  SubSeq(key, 2, Len(key) - 1) = path
<1>1. Len(path) \in Nat
  OBVIOUS
<1>2. /\ SubSeq(key, 2, Len(key) - 1) \in Seq(S)
      /\ Len(SubSeq(key, 2, Len(key) - 1)) = Len(path)
  BY <1>1
<1>3. \A i \in 1..Len(path) : SubSeq(key, 2, Len(key) - 1)[i] = path[i]
  BY <1>1
<1>4. QED
  BY <1>2, <1>3, SeqEqual

\* The key of a reference is read back as its path and its tag.
LEMMA RefKeyReadsBack ==
    ASSUME NEW S, NEW path \in Seq(S), Len(path) >= 1, NEW tag \in S, "refs" \in S,
           NEW key, key = <<"refs">> \o path \o <<tag>>
    PROVE  ParseRefKey(key) = [ok |-> TRUE, path |-> path, tag |-> tag]
<1> DEFINE n == Len(path)
<1>1. /\ key \in Seq(S) /\ Len(key) = n + 2 /\ n \in Nat /\ n >= 1
      /\ key[1] = "refs" /\ key[n + 2] = tag
  OBVIOUS
<1>2. \A i \in 1..n : key[i + 1] = path[i]
  BY <1>1
<1>3. SubSeq(key, 2, Len(key) - 1) = path
  <2>1. Len(key) = n + 2
    BY <1>1
  <2>2. QED
    BY <1>1, <1>2, <2>1, InnerOf
<1> HIDE DEF n
<1>4. Len(key) >= 3 /\ key[1] = "refs" /\ key[Len(key)] = tag
  BY <1>1
<1>5. ~(Len(key) < 3)
  BY <1>1
<1>6. QED
  BY <1>3, <1>4, <1>5, Zenon DEF ParseRefKey

\* The path of a published template has one segment or two, its tag one.
LEMMA SegmentsOfPublished ==
    ASSUME NEW name \in Seq(Tokens), NEW tag \in Seq(Tokens), ValidRefParts(name, tag)
    PROVE  /\ Segments(tag) = <<tag>>
           /\ Segments(name) \in Seq(Seq(Alphabet)) /\ Len(Segments(name)) >= 1
<1> DEFINE k == LastOf(name, "/")
<1>1. name \in Seq(Alphabet) /\ tag \in Seq(Alphabet)
  BY DEF Alphabet
<1>2. /\ k > 0 => ValidPart(Before(name, k))
      /\ ValidPart(After(name, k)) /\ ValidTag(tag)
  BY Zenon DEF ValidRefParts
<1>3. Segments(tag) = <<tag>>
  <2>1. Avoids(tag, "/")
    BY <1>1, <1>2, TagAvoids
  <2>2. Positions(tag, "/") = {}
    BY <1>1, <2>1 DEF Avoids, Positions
  <2>3. QED
    BY <1>1, <2>2, OneSegmentOf
<1>4. k \in 0..Len(name) /\ Len(name) \in Nat /\ (k > 0 => name[k] = "/")
      /\ (k = 0 => \A i \in 1..Len(name) : name[i] # "/")
  BY <1>1, LastOfFacts
<1> HIDE DEF k
<1>5. CASE k = 0
  <2>1. Positions(name, "/") = {}
    BY <1>1, <1>4, <1>5 DEF Positions
  <2>2. Segments(name) = <<name>>
    BY <1>1, <2>1, OneSegmentOf
  <2>3. QED
    BY <1>1, <1>3, <2>2
<1>6. CASE k # 0
  <2>1. k \in 1..Len(name) /\ k > 0 /\ name[k] = "/"
    BY <1>4, <1>6
  <2> DEFINE a == Before(name, k)
             b == After(name, k)
  <2>2. /\ a \in Seq(Alphabet) /\ b \in Seq(Alphabet)
        /\ Len(a) = k - 1 /\ Len(b) = Len(name) - k
        /\ \A i \in 1..k - 1 : a[i] = name[i]
        /\ \A i \in 1..Len(name) - k : b[i] = name[k + i]
    <3>1. /\ a \in Seq(Alphabet) /\ b \in Seq(Alphabet)
          /\ name = a \o <<name[k]>> \o b
          /\ Len(a) = k - 1 /\ Len(b) = Len(name) - k
          /\ \A i \in 1..k - 1 : a[i] = name[i]
          /\ \A i \in 1..Len(name) - k : b[i] = name[k + i]
      BY <1>1, <2>1, JoinAt, Zenon
    <3>2. QED
      BY <3>1, Zenon
  <2>3. ValidPart(a) /\ ValidPart(b)
    BY <1>2, <2>1
  <2> HIDE DEF a, b
  <2>4. Avoids(a, "/") /\ Avoids(b, "/")
    BY <2>2, <2>3, PartAvoids
  <2>5. \A i \in 1..Len(name) : i # k => name[i] # "/"
    <3>1. ASSUME NEW i \in 1..Len(name), i < k PROVE name[i] # "/"
      <4>1. i \in 1..k - 1
        BY <1>4, <3>1
      <4>2. QED
        BY <2>2, <2>4, <4>1 DEF Avoids
    <3>2. ASSUME NEW i \in 1..Len(name), i > k PROVE name[i] # "/"
      <4>1. i - k \in 1..Len(name) - k /\ k + (i - k) = i
        BY <1>4, <3>2
      <4>2. QED
        BY <2>2, <2>4, <4>1 DEF Avoids
    <3>3. \A i \in 1..Len(name) : i # k => i < k \/ i > k
      BY <1>4
    <3>4. QED
      BY <3>1, <3>2, <3>3, Zenon
  <2>6. Positions(name, "/") = {k}
    BY <1>1, <2>1, <2>5 DEF Positions
  <2>7. Segments(name) = <<a, b>>
    BY <1>1, <2>1, <2>6, TwoSegmentsOf, Zenon DEF a, b
  <2>8. QED
    BY <1>3, <2>2, <2>7
<1>7. QED
  BY <1>5, <1>6

\* What publish accepts parses back to the same name and tag, and so does the
\* key it is stored under.
THEOREM SpecPublishedIsResolvable == RefSpec => []PublishedIsResolvable
<1>1. Referred => PublishedIsResolvable
  <2> SUFFICES ASSUME Referred, Replied("publishable"), answer
               PROVE  PublishedIsResolvable
    BY DEF PublishedIsResolvable
  <2> DEFINE name == question.name
             tag == question.tag
             text == name \o <<":">> \o tag
             key == RefKey(name, tag)
             path == Segments(name)
  <2>1. name \in Seq(Tokens) /\ tag \in Seq(Tokens)
    BY RefQuestionKinds DEF Referred, Replied
  <2>2. ValidRefParts(name, tag)
    BY DEF Referred, Replied, answer
  <2> HIDE DEF name, tag, key, path
  <2>3. Parse(text).ok /\ FullName(Parse(text)) = name /\ Parse(text).tag = tag
    BY <2>1, <2>2, PublishedParses, Zenon
  <2>4. ParseRefKey(key) = [ok |-> TRUE, path |-> path, tag |-> tag]
    <3> DEFINE S == Seq(Alphabet) \cup {"refs"}
    <3>1. key = <<"refs">> \o path \o <<tag>>
      BY <2>1, <2>2, SegmentsOfPublished, Zenon DEF RefKey, key, path
    <3>2. path \in Seq(S) /\ Len(path) >= 1
      <4>1. path \in Seq(Seq(Alphabet)) /\ Len(path) >= 1
        BY <2>1, <2>2, SegmentsOfPublished, Zenon DEF path
      <4>2. QED
        BY <4>1
    <3>3. tag \in S /\ "refs" \in S
      <4>1. tag \in Seq(Alphabet)
        BY <2>1 DEF Alphabet
      <4>2. QED
        BY <4>1
    <3> HIDE DEF S
    <3>4. QED
      BY <3>1, <3>2, <3>3, RefKeyReadsBack
  <2>5. ParseRefKey(key).ok /\ ParseRefKey(key).path = path /\ ParseRefKey(key).tag = tag
    BY <2>4
  <2>6. QED
    BY <2>3, <2>5, Zenon DEF PublishedIsResolvable, name, tag, key, path
<1>2. QED
  BY <1>1, AlwaysReferred, PTL

-----------------------------------------------------------------------------
(***************************************************************************)
(* Products and quotients, which the backends do not order by themselves.    *)
(***************************************************************************)
\* Multiplication by a natural keeps the order.
LEMMA TimesKeepsOrder ==
    ASSUME NEW a \in Nat, NEW b \in Nat, NEW c \in Nat, b <= c
    PROVE  a * b <= a * c /\ a * b \in Nat /\ a * c \in Nat
<1>1. PICK d \in Nat : c = b + d
  <2>1. c - b \in Nat /\ c = b + (c - b)
    OBVIOUS
  <2>2. QED
    BY <2>1
<1>2. a * c = a * b + a * d
  BY <1>1
<1>3. a * b \in Nat /\ a * d \in Nat
  OBVIOUS
<1>4. QED
  BY <1>2, <1>3

\* Division keeps the order.
LEMMA DivKeepsOrder ==
    ASSUME NEW d \in Nat \ {0}, NEW a \in Nat, NEW b \in Nat, a <= b
    PROVE  a \div d <= b \div d /\ a \div d \in Nat /\ b \div d \in Nat
<1> DEFINE x == a \div d
           y == b \div d
<1>1. x \in Nat /\ y \in Nat
  OBVIOUS
<1>2. d * x <= a /\ b < d * y + d
  <2>1. a = (d * x) + (a % d) /\ a % d \in 0..d - 1
    OBVIOUS
  <2>2. b = (d * y) + (b % d) /\ b % d \in 0..d - 1
    OBVIOUS
  <2> HIDE DEF x, y
  <2>3. d * x \in Nat /\ d * y \in Nat
    BY <1>1
  <2>4. QED
    BY <2>1, <2>2, <2>3
<1> HIDE DEF x, y
<1>3. SUFFICES ASSUME y + 1 <= x PROVE FALSE
  BY <1>1 DEF x, y
<1>4. d * (y + 1) <= d * x /\ d * x \in Nat /\ d * (y + 1) \in Nat
  <2>1. d \in Nat /\ y + 1 \in Nat
    BY <1>1
  <2>2. QED
    BY <1>1, <1>3, <2>1, TimesKeepsOrder
<1>5. d * (y + 1) = d * y + d /\ d * y \in Nat
  BY <1>1
<1>6. QED
  BY <1>2, <1>4, <1>5

-----------------------------------------------------------------------------
(***************************************************************************)
(* Percentiles: the value in each place of the sorted durations exists, the *)
(* places are in order, and the place of a percentile is where it should be. *)
(***************************************************************************)
LatencySpec == Asked(LatencyQuestions) /\ [][AnswerLatencies]_inquiry

\* What a reply to a list of latencies is.
Measured ==
    /\ question \in LatencyQuestions
    /\ reply = <<>> \/ reply = <<[p \in {90, 95, 99} |-> Percentile(Sorted(question.ms), p)]>>

\* The places below a value, or not above it, are counted.
LEMMA CountedPlaces ==
    ASSUME NEW ms \in Seq(Nat), NEW v
    PROVE  /\ IsFiniteSet(DOMAIN ms) /\ Cardinality(DOMAIN ms) = Len(ms)
           /\ IsFiniteSet(Below(ms, v)) /\ Cardinality(Below(ms, v)) \in Nat
           /\ IsFiniteSet(NotAbove(ms, v)) /\ Cardinality(NotAbove(ms, v)) \in Nat
<1>1. DOMAIN ms = 1..Len(ms) /\ Len(ms) \in Nat
  OBVIOUS
<1>2. IsFiniteSet(1..Len(ms)) /\ Cardinality(1..Len(ms)) = Len(ms)
  <2>1. 1 \in Int /\ Len(ms) \in Int
    BY <1>1
  <2>2. /\ IsFiniteSet(1..Len(ms))
        /\ Cardinality(1..Len(ms)) = IF 1 > Len(ms) THEN 0 ELSE Len(ms) - 1 + 1
    BY <2>1, FS_Interval
  <2>3. QED
    BY <1>1, <2>2
<1>3. IsFiniteSet(DOMAIN ms) /\ Cardinality(DOMAIN ms) = Len(ms)
  BY <1>1, <1>2
<1>4. Below(ms, v) \in SUBSET DOMAIN ms /\ NotAbove(ms, v) \in SUBSET DOMAIN ms
  BY DEF Below, NotAbove
<1>5. IsFiniteSet(Below(ms, v)) /\ IsFiniteSet(NotAbove(ms, v))
  BY <1>3, <1>4, FS_Subset
<1>6. QED
  BY <1>3, <1>5, FS_CardinalityType

\* A sequence of naturals has an upper bound.
LEMMA BoundOfSequence ==
    ASSUME NEW ms \in Seq(Nat)
    PROVE  \E b \in Nat : \A i \in 1..Len(ms) : ms[i] <= b
<1> DEFINE S == {k \in Nat : k <= Len(ms) => \E b \in Nat : \A i \in 1..k : ms[i] <= b}
<1>1. 0 \in S
  <2>1. \A i \in 1..0 : ms[i] <= 0
    OBVIOUS
  <2>2. QED
    BY <2>1
<1>2. ASSUME NEW k \in Nat, k \in S
      PROVE  k + 1 \in S
  <2>1. SUFFICES ASSUME k + 1 <= Len(ms)
                 PROVE  \E b \in Nat : \A i \in 1..k + 1 : ms[i] <= b
    OBVIOUS
  <2>2. PICK b \in Nat : \A i \in 1..k : ms[i] <= b
    BY <1>2, <2>1
  <2>3. ms[k + 1] \in Nat
    BY <2>1
  <2>4. b + ms[k + 1] \in Nat
    BY <2>3
  <2>5. \A i \in 1..k + 1 : ms[i] <= b + ms[k + 1]
    <3>1. ASSUME NEW i \in 1..k + 1 PROVE ms[i] <= b + ms[k + 1]
      <4>1. CASE i = k + 1
        BY <2>3, <4>1
      <4>2. CASE i # k + 1
        <5>1. i \in 1..k /\ ms[i] \in Nat
          BY <2>1, <4>2
        <5>2. ms[i] <= b
          BY <2>2, <5>1
        <5>3. QED
          BY <2>3, <5>1, <5>2
      <4>3. QED
        BY <4>1, <4>2
    <3>2. QED
      BY <3>1
  <2>6. QED
    BY <2>4, <2>5
<1>3. \A k \in Nat : k \in S => k + 1 \in S
  BY <1>2
<1> HIDE DEF S
<1>4. \A k \in Nat : k \in S
  BY <1>1, <1>3, SetInduction
<1>5. Len(ms) \in S
  BY <1>4
<1>6. QED
  BY <1>5 DEF S

\* Every place has its value: the least that so many are not above.
LEMMA ValueAtPlace ==
    ASSUME NEW ms \in Seq(Nat), NEW n \in 1..Len(ms)
    PROVE  \E v \in {ms[i] : i \in DOMAIN ms} :
              Cardinality(Below(ms, v)) < n /\ n <= Cardinality(NotAbove(ms, v))
<1> DEFINE E == {v \in Nat : n <= Cardinality(NotAbove(ms, v))}
<1>1. E # {}
  <2>1. PICK b \in Nat : \A i \in 1..Len(ms) : ms[i] <= b
    BY BoundOfSequence
  <2>2. NotAbove(ms, b) = DOMAIN ms
    <3>1. DOMAIN ms = 1..Len(ms)
      OBVIOUS
    <3>2. \A i \in DOMAIN ms : ms[i] <= b
      BY <2>1, <3>1
    <3>3. QED
      BY <3>2, Zenon DEF NotAbove
  <2>3. Cardinality(NotAbove(ms, b)) = Len(ms)
    BY <2>2, CountedPlaces
  <2>4. b \in E
    BY <2>3
  <2>5. QED
    BY <2>4
<1>2. E \in SUBSET Nat
  OBVIOUS
<1>3. PICK v \in E : \A w \in E : v <= w
  BY <1>1, <1>2, LeastNatural
<1>4. v \in Nat /\ n <= Cardinality(NotAbove(ms, v))
  OBVIOUS
<1>5. Cardinality(Below(ms, v)) < n
  <2>1. CASE v = 0
    <3>1. Below(ms, v) = {}
      BY <2>1 DEF Below
    <3>2. Cardinality(Below(ms, v)) = 0
      BY <3>1, FS_EmptySet
    <3>3. QED
      BY <3>2
  <2>2. CASE v # 0
    <3>1. v - 1 \in Nat /\ v - 1 \notin E
      BY <1>3, <1>4, <2>2
    <3>2. Below(ms, v) = NotAbove(ms, v - 1)
      BY <1>4 DEF Below, NotAbove
    <3>3. ~(n <= Cardinality(NotAbove(ms, v - 1)))
      BY <3>1
    <3>4. Cardinality(NotAbove(ms, v - 1)) \in Nat
      BY CountedPlaces
    <3>5. QED
      BY <3>2, <3>3, <3>4
  <2>3. QED
    BY <2>1, <2>2
<1>6. v \in {ms[i] : i \in DOMAIN ms}
  <2>1. SUFFICES ASSUME v \notin {ms[i] : i \in DOMAIN ms}
                 PROVE  FALSE
    OBVIOUS
  <2>2. Below(ms, v) = NotAbove(ms, v)
    BY <1>4, <2>1 DEF Below, NotAbove
  <2>3. Cardinality(Below(ms, v)) \in Nat
    BY CountedPlaces
  <2>4. QED
    BY <1>4, <1>5, <2>2, <2>3
<1>7. QED
  BY <1>4, <1>5, <1>6

\* What stands in each place of a sorted sequence.
LEMMA SortedPlaces ==
    ASSUME NEW ms \in Seq(Nat)
    PROVE  /\ Sorted(ms) \in Seq(Nat) /\ Len(Sorted(ms)) = Len(ms)
           /\ \A n \in 1..Len(ms) :
                 /\ \E i \in DOMAIN ms : ms[i] = Sorted(ms)[n]
                 /\ Cardinality(Below(ms, Sorted(ms)[n])) < n
                 /\ n <= Cardinality(NotAbove(ms, Sorted(ms)[n]))
<1> DEFINE Fits(n, v) == Cardinality(Below(ms, v)) < n /\ n <= Cardinality(NotAbove(ms, v))
           V == {ms[i] : i \in DOMAIN ms}
           s == Sorted(ms)
<1>1. s = [n \in 1..Len(ms) |-> CHOOSE v \in V : Fits(n, v)]
  BY DEF Sorted
<1>2. \A n \in 1..Len(ms) : \E v \in V : Fits(n, v)
  BY ValueAtPlace
<1>3. V \subseteq Nat
  OBVIOUS
<1> HIDE DEF Fits, V, s
<1>4. \A n \in 1..Len(ms) : s[n] \in V /\ Fits(n, s[n])
  BY <1>1, <1>2
<1>5. s \in [1..Len(ms) -> Nat]
  BY <1>1, <1>3, <1>4
<1>6. s \in Seq(Nat) /\ Len(s) = Len(ms)
  BY <1>5
<1>7. \A n \in 1..Len(ms) : \E i \in DOMAIN ms : ms[i] = s[n]
  BY <1>4 DEF V
<1>8. QED
  BY <1>4, <1>6, <1>7 DEF Fits, s

\* A sorted sequence is in order.
LEMMA SortedInOrder ==
    ASSUME NEW ms \in Seq(Nat), NEW n \in 1..Len(ms), NEW m \in 1..Len(ms), n <= m
    PROVE  Sorted(ms)[n] <= Sorted(ms)[m]
<1> DEFINE a == Sorted(ms)[n]
           b == Sorted(ms)[m]
<1>1. a \in Nat /\ b \in Nat
  <2>1. Sorted(ms) \in Seq(Nat) /\ Len(Sorted(ms)) = Len(ms)
    BY SortedPlaces, Zenon
  <2>2. QED
    BY <2>1
<1>2. Cardinality(Below(ms, a)) < n /\ m <= Cardinality(NotAbove(ms, b))
  BY SortedPlaces
<1> HIDE DEF a, b
<1>3. SUFFICES ASSUME b < a PROVE FALSE
  BY <1>1 DEF a, b
<1>4. NotAbove(ms, b) \in SUBSET Below(ms, a)
  BY <1>1, <1>3 DEF NotAbove, Below
<1>5. /\ IsFiniteSet(Below(ms, a))
      /\ Cardinality(Below(ms, a)) \in Nat /\ Cardinality(NotAbove(ms, b)) \in Nat
  BY CountedPlaces
<1>6. Cardinality(NotAbove(ms, b)) <= Cardinality(Below(ms, a))
  BY <1>4, <1>5, FS_Subset
<1>7. QED
  BY <1>2, <1>5, <1>6

\* As many are above the value of a place as there are places after it, or fewer.
LEMMA AbovePlace ==
    ASSUME NEW ms \in Seq(Nat), NEW n \in 1..Len(ms)
    PROVE  /\ Cardinality({i \in DOMAIN ms : ms[i] > Sorted(ms)[n]}) \in Nat
           /\ Cardinality({i \in DOMAIN ms : ms[i] > Sorted(ms)[n]}) <= Len(ms) - n
<1> DEFINE a == Sorted(ms)[n]
           above == {i \in DOMAIN ms : ms[i] > a}
           rest == NotAbove(ms, a)
<1>1. a \in Nat /\ n <= Cardinality(rest)
  <2>1. /\ Sorted(ms) \in Seq(Nat) /\ Len(Sorted(ms)) = Len(ms)
        /\ n <= Cardinality(rest)
    BY SortedPlaces, Zenon
  <2>2. QED
    BY <2>1
<1>2. /\ IsFiniteSet(DOMAIN ms) /\ Cardinality(DOMAIN ms) = Len(ms)
      /\ IsFiniteSet(rest) /\ Cardinality(rest) \in Nat
  BY CountedPlaces
<1> HIDE DEF a
<1>3. above \in SUBSET DOMAIN ms /\ above \cup rest = DOMAIN ms /\ above \cap rest = {}
  <2>1. rest = {i \in DOMAIN ms : ms[i] <= a}
    BY Zenon DEF NotAbove
  <2>2. \A i \in DOMAIN ms : ms[i] \in Nat
    OBVIOUS
  <2>3. \A i \in DOMAIN ms : (ms[i] > a \/ ms[i] <= a) /\ ~(ms[i] > a /\ ms[i] <= a)
    BY <1>1, <2>2
  <2>4. QED
    BY <2>1, <2>3, Zenon
<1> HIDE DEF above, rest
<1>4. IsFiniteSet(above)
  BY <1>2, <1>3, FS_Subset
<1>5. Cardinality(above) \in Nat
  BY <1>4, FS_CardinalityType
<1>6. Cardinality(above \cup rest) = Cardinality(above) + Cardinality(rest) - Cardinality(above \cap rest)
  BY <1>2, <1>4, FS_Union
<1>7. Cardinality(above \cap rest) = 0
  BY <1>3, FS_EmptySet
<1>8. Cardinality(above) <= Len(ms) - n
  BY <1>1, <1>2, <1>3, <1>5, <1>6, <1>7
<1>9. QED
  BY <1>5, <1>8 DEF above, a

\* The place of a percentile, of a number of latencies.
Place(len, p) == 1 + ((len - 1) * p * 2 + 100) \div 200

\* Rounding keeps the place among the latencies, and half a latency from where it
\* should be.
LEMMA PlaceOfPercentile ==
    ASSUME NEW len \in Nat \ {0}, NEW p \in 0..100
    PROVE  /\ Place(len, p) \in 1..len
           /\ 200 * (len - Place(len, p)) <= 2 * (100 - p) * len + 100
<1> DEFINE d == (len - 1) * p * 2
           q == (d + 100) \div 200
<1>1. (len - 1) * p \in Nat /\ (len - 1) * p <= (len - 1) * 100
  <2>1. len - 1 \in Nat /\ p \in Nat /\ 100 \in Nat /\ p <= 100
    OBVIOUS
  <2>2. QED
    BY <2>1, TimesKeepsOrder
<1>2. d \in Nat /\ d <= 200 * (len - 1)
  BY <1>1
<1>3. 2 * (100 - p) * len + 2 * p = 200 * len - d
  OBVIOUS
<1> HIDE DEF d
<1>4. q \in Nat /\ 200 * q <= d + 100 /\ d + 100 < 200 * q + 200
  BY <1>2
<1>5. Place(len, p) = 1 + q
  BY DEF Place, d
<1> HIDE DEF q
<1>6. 1 + q \in 1..len
  BY <1>2, <1>4
<1> DEFINE e == 2 * (100 - p) * len
<1>7. e + 2 * p = 200 * len - d
  BY <1>3
<1> HIDE DEF e
<1>8. e \in Int
  BY DEF e
<1>9. 200 * (len - (1 + q)) <= e + 100
  BY <1>2, <1>4, <1>7, <1>8
<1>10. QED
  BY <1>5, <1>6, <1>9 DEF e

\* A percentile is a latency that no more than the rest are above, for every
\* list of latencies and every percentage.
THEOREM PercentileIsRank ==
    ASSUME NEW ms \in Seq(Nat), ms # <<>>, NEW p \in 0..100
    PROVE  LET v == Percentile(Sorted(ms), p)
           IN  /\ \E i \in DOMAIN ms : ms[i] = v
               /\ 200 * Cardinality({i \in DOMAIN ms : ms[i] > v}) <= 2 * (100 - p) * Len(ms) + 100
               /\ \A q \in p..100 : v <= Percentile(Sorted(ms), q)
<1> DEFINE len == Len(ms)
<1>1. len \in Nat \ {0}
  OBVIOUS
<1>2. \A q \in 0..100 : Percentile(Sorted(ms), q) = Sorted(ms)[Place(len, q)]
  <2>1. Len(Sorted(ms)) = len /\ Sorted(ms) # <<>>
    BY <1>1, SortedPlaces
  <2>2. QED
    BY <2>1 DEF Percentile, Place
<1> DEFINE n == Place(len, p)
           e == 2 * (100 - p) * len
           v == Sorted(ms)[n]
           above == Cardinality({i \in DOMAIN ms : ms[i] > v})
<1>3. n \in 1..len /\ 200 * (len - n) <= e + 100
  BY <1>1, PlaceOfPercentile
<1>4. e \in Int
  BY <1>1
<1>5. \E i \in DOMAIN ms : ms[i] = v
  BY <1>3, SortedPlaces
<1>6. above \in Nat /\ above <= len - n
  BY <1>3, AbovePlace
<1>7. ASSUME NEW q \in p..100
      PROVE  v <= Sorted(ms)[Place(len, q)]
  <2>1. q \in 0..100 /\ p <= q
    OBVIOUS
  <2>2. Place(len, q) \in 1..len
    BY <1>1, <2>1, PlaceOfPercentile
  <2>3. n <= Place(len, q)
    <3>1. (len - 1) * p <= (len - 1) * q /\ (len - 1) * p \in Nat /\ (len - 1) * q \in Nat
      <4>1. len - 1 \in Nat /\ p \in Nat /\ q \in Nat
        BY <1>1
      <4>2. QED
        BY <2>1, <4>1, TimesKeepsOrder
    <3>2. QED
      BY <3>1 DEF Place
  <2>4. QED
    BY <1>3, <2>2, <2>3, SortedInOrder
<1>8. 200 * above <= e + 100
  <2> HIDE DEF above, e, n, len
  <2>1. len \in Nat /\ n \in Nat
    BY <1>1, <1>3
  <2>2. QED
    BY <1>3, <1>4, <1>6, <2>1
<1>9. Percentile(Sorted(ms), p) = v /\ \A q \in p..100 : Percentile(Sorted(ms), q) = Sorted(ms)[Place(len, q)]
  <2>1. p \in 0..100 /\ \A q \in p..100 : q \in 0..100
    OBVIOUS
  <2>2. QED
    BY <1>2, <2>1, Zenon
<1> HIDE DEF n, v
<1>10. QED
  BY <1>5, <1>7, <1>8, <1>9

\* Whatever latencies are asked about, the percentiles are ranks.
THEOREM SpecPercentilesAreRanks == LatencySpec => []PercentilesAreRanks
<1>1. Asked(LatencyQuestions) => Measured
  BY DEF Asked, Measured
<1>2. Measured /\ [AnswerLatencies]_inquiry => Measured'
  BY DEF Measured, AnswerLatencies, Answer, inquiry
<1>3. Measured => PercentilesAreRanks
  <2> SUFFICES ASSUME Measured, Replied("latencies"), question.ms # <<>>
               PROVE  PercentilesAreRanks
    BY DEF PercentilesAreRanks
  <2> DEFINE ms == question.ms
             P(p) == Percentile(Sorted(ms), p)
             Rank(p, v) ==
                /\ \E i \in DOMAIN ms : ms[i] = v
                /\ 200 * Cardinality({i \in DOMAIN ms : ms[i] > v}) <= 2 * (100 - p) * Len(ms) + 100
  <2>1. ms \in Seq(Nat)
    BY MaxLatenciesAssumption DEF Measured, LatencyQuestions, UpTo
  <2>2. \A p \in {90, 95, 99} : answer[p] = P(p)
    BY DEF Measured, Replied, answer
  <2>3. \A p \in 0..100 : Rank(p, P(p)) /\ \A q \in p..100 : P(p) <= P(q)
    BY <2>1, PercentileIsRank
  <2> HIDE DEF P, ms, Rank
  <2>4. P(90) <= P(95) /\ P(95) <= P(99)
    <3>1. 90 \in 0..100 /\ 95 \in 0..100 /\ 95 \in 90..100 /\ 99 \in 95..100
      OBVIOUS
    <3>2. QED
      BY <2>3, <3>1, Zenon
  <2>5. \A p \in {90, 95, 99} : Rank(p, answer[p])
    <3>1. ASSUME NEW p \in {90, 95, 99} PROVE Rank(p, answer[p])
      <4>1. p \in 0..100
        OBVIOUS
      <4>2. Rank(p, P(p))
        BY <2>3, <4>1, Zenon
      <4>3. answer[p] = P(p)
        BY <2>2
      <4>4. QED
        BY <4>2, <4>3, Zenon
    <3>2. QED
      BY <3>1, Zenon
  <2>6. answer[90] <= answer[95] /\ answer[95] <= answer[99]
    BY <2>2, <2>4
  <2>7. QED
    BY <2>5, <2>6, Zenon DEF PercentilesAreRanks, ms, Rank
<1>4. QED
  BY <1>1, <1>2, <1>3, PTL DEF LatencySpec

-----------------------------------------------------------------------------
(***************************************************************************)
(* Paging: what is left from an offset on is the page at that offset and     *)
(* what is left from the next, so a walk sees all that is left where it       *)
(* starts, unless its pages lead nowhere.                                     *)
(***************************************************************************)
\* A page leads on if it says that there is more, and elsewhere than to itself.
LeadsOn(page, o) == page[o].more /\ page[o].next # o

\* What a walk from an offset has, by what a walk from the next has.
WalkOn(page, f, o) ==
    IF LeadsOn(page, o)
    THEN [data |-> page[o].data \o f[page[o].next].data, ends |-> f[page[o].next].ends]
    ELSE [data |-> page[o].data, ends |-> ~page[o].more]

\* What is left from each offset on is laid out in pages, which lead forward.
Tiles(page, rest) ==
    \A o \in Offsets :
        /\ LeadsOn(page, o) => page[o].next \in Offsets /\ page[o].next > o
        /\ rest[o] = WalkOn(page, rest, o)

\* A walk over such pages collects all that is left from its start.
LEMMA WalkTiles ==
    ASSUME NEW page, NEW rest, Tiles(page, rest), rest = [o \in Offsets |-> rest[o]], NEW start \in Offsets
    PROVE  Walk(page, start) = rest[start]
<1> DEFINE F(f) == [offset \in Offsets |-> WalkOn(page, f, offset)]
           from == CHOOSE f : f = F(f)
           top == MaxList + 1
<1>1. Walk(page, start) = from[start]
  BY DEF Walk, WalkOn, LeadsOn
<1>2. rest = F(rest)
  <2>1. \A o \in Offsets : rest[o] = WalkOn(page, rest, o)
    BY Zenon DEF Tiles
  <2>2. QED
    BY <2>1, Zenon
<1>3. from = F(from)
  <2>1. \E f : f = F(f)
    BY <1>2, Zenon
  <2>2. QED
    BY <2>1, Zenon
<1>4. \A o \in Offsets : from[o] = WalkOn(page, from, o)
  <2> HIDE DEF from
  <2>1. QED
    BY <1>3, Zenon
<1> HIDE DEF from, F
<1>5. top \in Nat /\ Offsets = 0..top
  BY PageBoundsAssumption DEF Offsets, U32Max
<1> HIDE DEF top
<1> DEFINE S == {k \in Nat : \A o \in Offsets : top - o <= k => from[o] = rest[o]}
<1>6. ASSUME NEW o \in Offsets, \A q \in Offsets : q > o => from[q] = rest[q]
      PROVE  from[o] = rest[o]
  <2>1. LeadsOn(page, o) => from[page[o].next] = rest[page[o].next]
    BY <1>6, Zenon DEF Tiles
  <2>2. WalkOn(page, from, o) = WalkOn(page, rest, o)
    BY <2>1, Zenon DEF WalkOn
  <2>3. QED
    BY <1>4, <2>2, Zenon DEF Tiles
<1>7. 0 \in S
  <2>1. ASSUME NEW o \in Offsets, top - o <= 0 PROVE from[o] = rest[o]
    <3>1. \A q \in Offsets : ~(q > o)
      BY <1>5, <2>1
    <3>2. QED
      BY <1>6, <3>1, Zenon
  <2>2. QED
    BY <2>1
<1>8. ASSUME NEW k \in Nat, k \in S PROVE k + 1 \in S
  <2>1. ASSUME NEW o \in Offsets, top - o <= k + 1 PROVE from[o] = rest[o]
    <3>1. \A q \in Offsets : q > o => top - q <= k
      BY <1>5, <2>1
    <3>2. \A q \in Offsets : top - q <= k => from[q] = rest[q]
      BY <1>8, Zenon
    <3>3. \A q \in Offsets : q > o => from[q] = rest[q]
      BY <3>1, <3>2, Zenon
    <3>4. QED
      BY <1>6, <3>3, Zenon
  <2>2. k + 1 \in Nat
    OBVIOUS
  <2>3. QED
    BY <2>1, <2>2, Zenon
<1>9. \A k \in Nat : k \in S => k + 1 \in S
  BY <1>8
<1>10. \A k \in Nat : k \in S
  <2> HIDE DEF S
  <2>1. QED
    BY <1>7, <1>9, SetInduction
<1>11. start \in Nat /\ top - start \in Nat /\ top - start <= top - start
  BY <1>5
<1>12. top - start \in S
  BY <1>10, <1>11
<1>13. from[start] = rest[start]
  BY <1>11, <1>12, Zenon
<1>14. QED
  BY <1>1, <1>13, Zenon

\* A walk over pages that lead nowhere has the page where it starts.
LEMMA WalkStuck ==
    ASSUME NEW page, \A o \in Offsets : page[o].next = o, NEW start \in Offsets
    PROVE  Walk(page, start) = [data |-> page[start].data, ends |-> ~page[start].more]
<1> DEFINE rest == [o \in Offsets |-> [data |-> page[o].data, ends |-> ~page[o].more]]
<1>1. \A o \in Offsets : ~LeadsOn(page, o)
  BY Zenon DEF LeadsOn
<1>2. \A o \in Offsets : rest[o] = [data |-> page[o].data, ends |-> ~page[o].more]
  BY Zenon
<1>3. rest = [o \in Offsets |-> rest[o]]
  BY Zenon
<1> HIDE DEF rest
<1>4. Tiles(page, rest)
  BY <1>1, <1>2, Zenon DEF Tiles, WalkOn
<1>5. Walk(page, start) = rest[start]
  BY <1>3, <1>4, WalkTiles
<1>6. QED
  BY <1>2, <1>5, Zenon

\* Two windows that meet are one.
LEMMA WindowsJoin ==
    ASSUME NEW S, NEW list \in Seq(S), NEW a \in Nat, NEW b \in Nat, a <= b, b <= Len(list)
    PROVE  SubSeq(list, a + 1, Len(list)) = SubSeq(list, a + 1, b) \o SubSeq(list, b + 1, Len(list))
<1> DEFINE n == Len(list)
           x == SubSeq(list, a + 1, b)
           y == SubSeq(list, b + 1, n)
           z == SubSeq(list, a + 1, n)
<1>1. n \in Nat /\ \A i \in 1..n : list[i] \in S
  OBVIOUS
<1>2. x \in Seq(S) /\ Len(x) = b - a /\ \A i \in 1..b - a : x[i] = list[a + i]
  <2>1. x \in Seq(S) /\ Len(x) = b - a
    BY <1>1
  <2>2. \A i \in 1..b - a : x[i] = list[a + i]
    BY <1>1
  <2>3. QED
    BY <2>1, <2>2
<1>3. y \in Seq(S) /\ Len(y) = n - b /\ \A i \in 1..n - b : y[i] = list[b + i]
  <2>1. y \in Seq(S) /\ Len(y) = n - b
    BY <1>1
  <2>2. \A i \in 1..n - b : y[i] = list[b + i]
    BY <1>1
  <2>3. QED
    BY <2>1, <2>2
<1>4. z \in Seq(S) /\ Len(z) = n - a /\ \A i \in 1..n - a : z[i] = list[a + i]
  <2>1. z \in Seq(S) /\ Len(z) = n - a
    BY <1>1
  <2>2. \A i \in 1..n - a : z[i] = list[a + i]
    BY <1>1
  <2>3. QED
    BY <2>1, <2>2
<1> HIDE DEF x, y, z
<1>5. /\ x \o y \in Seq(S) /\ Len(x \o y) = n - a
      /\ \A i \in 1..n - a : (x \o y)[i] = IF i <= b - a THEN x[i] ELSE y[i - (b - a)]
  <2>1. /\ x \o y \in Seq(S) /\ Len(x \o y) = Len(x) + Len(y)
        /\ \A i \in 1..Len(x) + Len(y) : (x \o y)[i] = IF i <= Len(x) THEN x[i] ELSE y[i - Len(x)]
    BY <1>2, <1>3, ConcatProperties, Zenon
  <2>2. Len(x) + Len(y) = n - a
    BY <1>1, <1>2, <1>3
  <2>3. QED
    BY <1>2, <2>1, <2>2, Zenon
<1>6. \A i \in 1..n - a : (x \o y)[i] = list[a + i]
  <2>1. ASSUME NEW i \in 1..n - a, i <= b - a PROVE (x \o y)[i] = list[a + i]
    <3>1. i \in 1..b - a
      BY <2>1
    <3>2. QED
      BY <1>2, <1>5, <2>1, <3>1, Zenon
  <2>2. ASSUME NEW i \in 1..n - a, ~(i <= b - a) PROVE (x \o y)[i] = list[a + i]
    <3>1. i - (b - a) \in 1..n - b /\ b + (i - (b - a)) = a + i
      BY <1>1, <2>2
    <3>2. (x \o y)[i] = y[i - (b - a)]
      BY <1>5, <2>2, Zenon
    <3>3. y[i - (b - a)] = list[b + (i - (b - a))]
      BY <1>3, <3>1, Zenon
    <3>4. QED
      BY <3>1, <3>2, <3>3, Zenon
  <2>3. QED
    BY <2>1, <2>2, Zenon
<1>7. z = x \o y
  <2> DEFINE w == x \o y
  <2>1. w \in Seq(S) /\ Len(w) = Len(z)
    BY <1>4, <1>5
  <2>2. \A i \in 1..Len(z) : z[i] = w[i]
    BY <1>4, <1>6, Zenon
  <2> HIDE DEF w
  <2>3. z = w
    BY <1>4, <2>1, <2>2, SeqEqual
  <2>4. QED
    BY <2>3 DEF w
<1>8. QED
  BY <1>7 DEF x, y, z

\* What is left of a list from an offset on, to the end.
LeftOf(list, o) == [data |-> SubSeq(list, o + 1, Len(list)), ends |-> TRUE]
RestOf(list) == [o \in Offsets |-> LeftOf(list, o)]

\* A page that holds a window of the list and says rightly whether there is more
\* tiles the list.
PagesList(page, list, size) ==
    \A o \in Offsets :
        /\ page[o].data = SubSeq(list, o + 1, AtMost(o + size, Len(list)))
        /\ page[o].more <=> o + size < Len(list)
        /\ page[o].next = o + size

\* A walk over such pages collects the list from where it starts.
LEMMA PagesTile ==
    ASSUME NEW S, NEW list \in Seq(S), Len(list) <= MaxList, NEW size \in Nat \ {0},
           NEW page, PagesList(page, list, size), NEW start \in Offsets
    PROVE  Walk(page, start) = LeftOf(list, start)
<1> DEFINE n == Len(list)
           rest == RestOf(list)
<1>1. n \in Nat /\ n <= MaxList /\ MaxList \in Nat
  BY PageBoundsAssumption
<1>2. \A o \in Offsets : o \in Nat
  BY <1>1 DEF Offsets, U32Max
<1>3. \A o \in Offsets : rest[o] = [data |-> SubSeq(list, o + 1, n), ends |-> TRUE]
  BY Zenon DEF RestOf, LeftOf
<1>4. \A o \in Offsets : rest[o].data = SubSeq(list, o + 1, n) /\ rest[o].ends = TRUE
  <2>1. \A r, d : r = [data |-> d, ends |-> TRUE] => r.data = d /\ r.ends = TRUE
    OBVIOUS
  <2> HIDE DEF rest, n
  <2>2. QED
    BY <1>3, <2>1, Zenon
<1>5. ASSUME NEW o \in Offsets
      PROVE  /\ LeadsOn(page, o) => page[o].next \in Offsets /\ page[o].next > o
             /\ rest[o] = WalkOn(page, rest, o)
  <2>1. o \in Nat /\ o + size \in Nat
    BY <1>2
  <2>2. /\ page[o].data = SubSeq(list, o + 1, AtMost(o + size, n))
        /\ page[o].more <=> o + size < n
        /\ page[o].next = o + size
    BY Zenon DEF PagesList
  <2>3. CASE o + size < n
    <3>1. AtMost(o + size, n) = o + size
      BY <2>3, Zenon DEF AtMost
    <3>2. o + size \in Offsets /\ o + size > o /\ o <= o + size /\ o + size <= n /\ o + size # o
      BY <1>1, <2>1, <2>3 DEF Offsets, U32Max
    <3>3. SubSeq(list, o + 1, n) = SubSeq(list, o + 1, o + size) \o SubSeq(list, o + size + 1, n)
      <4> DEFINE b == o + size
      <4>1. b \in Nat /\ o <= b /\ b <= n
        BY <2>1, <3>2
      <4> HIDE DEF b
      <4>2. SubSeq(list, o + 1, n) = SubSeq(list, o + 1, b) \o SubSeq(list, b + 1, n)
        BY <2>1, <4>1, WindowsJoin
      <4>3. QED
        BY <4>2 DEF b
    <3>4. LeadsOn(page, o)
      BY <2>2, <2>3, <3>2, Zenon DEF LeadsOn
    <3> HIDE DEF rest
    <3>5. /\ SubSeq(list, o + 1, n) = page[o].data \o rest[page[o].next].data
          /\ rest[page[o].next].ends = TRUE
      BY <1>4, <2>2, <3>1, <3>2, <3>3, Zenon
    <3>6. rest[o] = WalkOn(page, rest, o)
      BY <1>3, <3>4, <3>5, Zenon DEF WalkOn
    <3>7. QED
      BY <2>2, <3>2, <3>6, Zenon
  <2>4. CASE ~(o + size < n)
    <3>1. AtMost(o + size, n) = n
      BY <2>4, Zenon DEF AtMost
    <3>2. ~LeadsOn(page, o) /\ (~page[o].more) = TRUE
      BY <2>2, <2>4, Zenon DEF LeadsOn
    <3> HIDE DEF rest
    <3>3. rest[o] = WalkOn(page, rest, o)
      BY <1>3, <2>2, <3>1, <3>2, Zenon DEF WalkOn
    <3>4. QED
      BY <3>2, <3>3, Zenon
  <2>5. QED
    BY <2>3, <2>4, Zenon
<1>6. Tiles(page, rest)
  BY <1>5, Zenon DEF Tiles
<1>7. rest = [o \in Offsets |-> rest[o]]
  BY Zenon DEF RestOf
<1> HIDE DEF rest
<1>8. Walk(page, start) = rest[start]
  BY <1>6, <1>7, WalkTiles
<1>9. QED
  BY <1>3, <1>8, Zenon DEF LeftOf

\* Pages of no size: a walk has nothing and does not come to an end, unless it
\* starts at the end.
LEMMA PagesStuck ==
    ASSUME NEW S, NEW list \in Seq(S), NEW page, PagesList(page, list, 0), NEW start \in Offsets
    PROVE  Walk(page, start) = IF start < Len(list) THEN [data |-> <<>>, ends |-> FALSE]
                               ELSE LeftOf(list, start)
<1> DEFINE n == Len(list)
<1>1. n \in Nat /\ \A o \in Offsets : o \in Nat
  BY PageBoundsAssumption DEF Offsets, U32Max
<1>2. \A o \in Offsets : page[o].next = o
  <2>1. \A o \in Offsets : o + 0 = o
    BY <1>1
  <2>2. QED
    BY <2>1, Zenon DEF PagesList
<1>3. Walk(page, start) = [data |-> page[start].data, ends |-> ~page[start].more]
  BY <1>2, WalkStuck
<1>4. start + 0 = start /\ AtMost(start, n) \in Nat /\ AtMost(start, n) < start + 1
  BY <1>1 DEF AtMost
<1>5. page[start].data = SubSeq(list, start + 1, AtMost(start, n)) /\ (page[start].more <=> start < n)
  BY <1>4, Zenon DEF PagesList
<1>6. SubSeq(list, start + 1, AtMost(start, n)) = <<>>
  BY <1>1, <1>4
<1>7. ~(start < n) => SubSeq(list, start + 1, n) = <<>>
  BY <1>1
<1> HIDE DEF n
<1>8. CASE start < n
  <2>1. (~page[start].more) = FALSE
    BY <1>5, <1>8, Zenon
  <2>2. QED
    BY <1>3, <1>5, <1>6, <1>8, <2>1, Zenon DEF n
<1>9. CASE ~(start < n)
  <2>1. (~page[start].more) = TRUE
    BY <1>5, <1>9, Zenon
  <2>2. QED
    BY <1>3, <1>5, <1>6, <1>7, <1>9, <2>1, Zenon DEF n, LeftOf
<1>10. QED
  BY <1>8, <1>9, Zenon

\* Pages of templates: the window is cut at the end of the list, and its length
\* tells whether there is more.
LEMMA TemplatesPaged ==
    ASSUME NEW S, NEW list \in Seq(S), NEW limit \in Nat
    PROVE  PagesList([offset \in Offsets |-> TemplatesPage(list, offset, limit)], list, limit)
<1> DEFINE n == Len(list)
<1>1. n \in Nat /\ \A i \in 1..n : list[i] \in S
  OBVIOUS
<1> HIDE DEF n
<1>2. ASSUME NEW o \in Offsets
      PROVE  LET p == TemplatesPage(list, o, limit)
             IN  /\ p.data = SubSeq(list, o + 1, AtMost(o + limit, n))
                 /\ p.more <=> o + limit < n
                 /\ p.next = o + limit
  <2>1. o \in Nat
    BY PageBoundsAssumption DEF Offsets, U32Max
  <2> DEFINE e == AtMost(o + limit, n)
             w == SubSeq(list, o + 1, e)
  <2>2. e \in Nat /\ e <= n /\ (o + limit < n => e = o + limit) /\ (~(o + limit < n) => e = n)
    BY <1>1, <2>1 DEF AtMost
  <2> HIDE DEF e
  <2>3. Len(w) = IF o + 1 <= e THEN e - o ELSE 0
    BY <1>1, <2>1, <2>2
  <2> HIDE DEF w
  <2>4. o + Len(w) < n <=> o + limit < n
    BY <1>1, <2>1, <2>2, <2>3
  <2>5. TemplatesPage(list, o, limit) = [data |-> w, more |-> o + Len(w) < n, next |-> o + limit]
    BY Zenon DEF TemplatesPage, Window, w, e, n
  <2> DEFINE p == TemplatesPage(list, o, limit)
  <2>6. p.data = w /\ p.more = (o + Len(w) < n) /\ p.next = o + limit
    BY <2>5
  <2> HIDE DEF p
  <2>7. /\ p.data = w
        /\ p.more <=> o + limit < n
        /\ p.next = o + limit
    BY <2>4, <2>6, Zenon
  <2>8. QED
    BY <2>7, Zenon DEF w, e, p
<1>3. QED
  BY <1>2, Zenon DEF PagesList, n

\* What a window of a list holds.
LEMMA CutAt ==
    ASSUME NEW S, NEW list \in Seq(S), NEW o \in Nat, NEW e \in Nat, e <= Len(list),
           NEW d, d = IF o + 1 <= e THEN e - o ELSE 0
    PROVE  /\ SubSeq(list, o + 1, e) \in Seq(S)
           /\ Len(SubSeq(list, o + 1, e)) = d
           /\ \A i \in 1..d : SubSeq(list, o + 1, e)[i] = list[o + i]
<1>1. \A i \in o + 1..e : i \in 1..Len(list)
  OBVIOUS
<1>2. \A i \in o + 1..e : list[i] \in S
  BY <1>1, ElementOfSeq, Zenon
<1>3. o + 1 \in Int /\ e \in Int
  OBVIOUS
<1>4. /\ SubSeq(list, o + 1, e) \in Seq(S)
      /\ Len(SubSeq(list, o + 1, e)) = IF o + 1 <= e THEN e - (o + 1) + 1 ELSE 0
      /\ \A i \in 1..e - (o + 1) + 1 : SubSeq(list, o + 1, e)[i] = list[o + 1 + i - 1]
  BY <1>2, <1>3, SubSeqProperties
<1>5. Len(SubSeq(list, o + 1, e)) = d
  BY <1>4
<1>6. \A i \in 1..d : i \in 1..e - (o + 1) + 1 /\ o + 1 + i - 1 = o + i
  OBVIOUS
<1>7. QED
  BY <1>4, <1>5, <1>6, Zenon

\* Pages of renders: one entry more than the page is fetched, and no limit of the
\* arithmetic is in the way.
LEMMA RendersPaged ==
    ASSUME NEW S, NEW list \in Seq(S), Len(list) <= MaxList, NEW limit \in Nat
    PROVE  PagesList([offset \in Offsets |-> RendersPage(list, offset, limit)], list,
                     AtLeast(1, AtMost(limit, PageCap)))
<1> DEFINE n == Len(list)
           size == AtLeast(1, AtMost(limit, PageCap))
<1>1. n \in Nat /\ n <= MaxList /\ MaxList \in Nat /\ \A i \in 1..n : list[i] \in S
  BY PageBoundsAssumption
<1>2. size \in Nat \ {0}
  BY PageBoundsAssumption DEF AtLeast, AtMost
<1> HIDE DEF n, size
<1>3. ASSUME NEW o \in Offsets
      PROVE  LET p == RendersPage(list, o, limit)
             IN  /\ p.data = SubSeq(list, o + 1, AtMost(o + size, n))
                 /\ p.more <=> o + size < n
                 /\ p.next = o + size
  <2>1. o \in Nat
    BY PageBoundsAssumption DEF Offsets, U32Max
  <2> DEFINE f == AtMost(AtMost(o + size + 1, U32Max), n)
             e == AtMost(o + size, n)
             fetched == SubSeq(list, 1, f)
             rest == SubSeq(fetched, o + 1, f)
             data == SubSeq(rest, 1, AtMost(size, Len(rest)))
             want == SubSeq(list, o + 1, e)
  <2>2. /\ f \in Nat /\ f <= n
        /\ o + size < n => f = o + size + 1
        /\ ~(o + size < n) => f = n
    BY <1>1, <1>2, <2>1 DEF AtMost, U32Max
  <2>3. /\ e \in Nat /\ e <= n
        /\ o + size < n => e = o + size
        /\ ~(o + size < n) => e = n
    BY <1>1, <1>2, <2>1 DEF AtMost
  <2> HIDE DEF f, e
  <2>4. fetched \in Seq(S) /\ Len(fetched) = f /\ \A i \in 1..f : fetched[i] = list[i]
    BY <1>1, <2>2
  <2> HIDE DEF fetched
  <2> DEFINE r == IF o + 1 <= f THEN f - o ELSE 0
  <2>5. /\ rest \in Seq(S) /\ Len(rest) = r
        /\ \A i \in 1..r : rest[i] = fetched[o + i]
    BY <2>1, <2>2, <2>4
  <2>6. r \in Nat /\ \A i \in 1..r : o + i \in 1..f
    BY <2>1, <2>2
  <2>7. \A i \in 1..r : rest[i] = list[o + i]
    BY <2>4, <2>5, <2>6, Zenon
  <2> DEFINE d == AtMost(size, r)
  <2>8. d \in Nat /\ d <= r /\ d = (IF o + 1 <= e THEN e - o ELSE 0)
    BY <1>1, <1>2, <2>1, <2>2, <2>3 DEF AtMost
  <2>9. r > size <=> o + size < n
    BY <1>1, <1>2, <2>1, <2>2
  <2> HIDE DEF rest, r, d
  <2>10. data = SubSeq(rest, 1, d)
    BY <2>5, Zenon DEF d
  <2> HIDE DEF data
  <2>11. data \in Seq(S) /\ Len(data) = d /\ \A i \in 1..d : data[i] = rest[i]
    BY <2>5, <2>6, <2>8, <2>10
  <2>12. \A i \in 1..d : data[i] = list[o + i]
    <3>1. \A i \in 1..d : i \in 1..r
      BY <2>6, <2>8
    <3>2. QED
      BY <2>7, <2>11, <3>1, Zenon
  <2>13. want \in Seq(S) /\ Len(want) = d /\ \A i \in 1..d : want[i] = list[o + i]
    <3>1. e <= Len(list)
      BY <2>3 DEF n
    <3>2. e \in Nat /\ d = IF o + 1 <= e THEN e - o ELSE 0
      BY <2>3, <2>8, Zenon
    <3> HIDE DEF e
    <3>3. QED
      BY <2>1, <3>1, <3>2, CutAt DEF want
  <2> HIDE DEF want
  <2>14. data = want
    BY <2>11, <2>12, <2>13, SeqEqual
  <2>15. RendersPage(list, o, limit) = [data |-> data, more |-> Len(rest) > size, next |-> o + size]
    <3>1. Window(list, 0, AtMost(o + size + 1, U32Max)) = fetched
      <4>1. 0 + 1 = 1 /\ 0 + AtMost(o + size + 1, U32Max) = AtMost(o + size + 1, U32Max)
        BY <1>1, <1>2, <2>1 DEF AtMost, U32Max
      <4>2. QED
        BY <4>1 DEF Window, fetched, f, n
    <3>2. Window(fetched, o, Len(fetched)) = rest
      <4>1. AtMost(o + f, f) = f
        BY <2>1, <2>2 DEF AtMost
      <4>2. QED
        BY <2>4, <4>1 DEF Window, rest
    <3>3. Window(rest, 0, size) = data
      <4>1. 0 + 1 = 1 /\ 0 + size = size
        BY <1>2
      <4>2. QED
        BY <4>1 DEF Window, data
    <3>4. QED
      BY <3>1, <3>2, <3>3, Zenon DEF RendersPage, size
  <2> DEFINE p == RendersPage(list, o, limit)
  <2>16. p.data = data /\ p.more = (Len(rest) > size) /\ p.next = o + size
    BY <2>15
  <2> HIDE DEF p
  <2>17. /\ p.data = want
         /\ p.more <=> o + size < n
         /\ p.next = o + size
    BY <2>5, <2>9, <2>14, <2>16, Zenon
  <2>18. QED
    BY <2>17, Zenon DEF want, e, p
<1>4. QED
  BY <1>3, Zenon DEF PagesList, n, size

\* The elements of S up to v.
UpToIn(S, v) == {j \in S : j <= v}

\* What can be counted in an interval.
LEMMA CountedIn ==
    ASSUME NEW b \in Nat, NEW S, S \subseteq 0..b
    PROVE  /\ IsFiniteSet(S) /\ Cardinality(S) \in Nat
           /\ \A v : IsFiniteSet(UpToIn(S, v)) /\ Cardinality(UpToIn(S, v)) \in Nat
                     /\ Cardinality(UpToIn(S, v)) <= Cardinality(S)
<1>1. IsFiniteSet(0..b)
  BY FS_Interval
<1>2. S \in SUBSET (0..b)
  OBVIOUS
<1>3. IsFiniteSet(S)
  BY <1>1, <1>2, FS_Subset
<1>4. ASSUME NEW v
      PROVE  IsFiniteSet(UpToIn(S, v)) /\ Cardinality(UpToIn(S, v)) <= Cardinality(S)
  <2>1. UpToIn(S, v) \in SUBSET S
    BY DEF UpToIn
  <2>2. QED
    BY <1>3, <2>1, FS_Subset
<1>5. QED
  BY <1>3, <1>4, FS_CardinalityType

\* An element that n elements are not above is the one in the n-th place.
LEMMA PlaceIsUnique ==
    ASSUME NEW b \in Nat, NEW S, S \subseteq 0..b, NEW i \in S, NEW k \in S, i < k
    PROVE  Cardinality(UpToIn(S, i)) < Cardinality(UpToIn(S, k))
<1> DEFINE x == UpToIn(S, i)
           y == UpToIn(S, k)
<1>1. i \in Nat /\ k \in Nat /\ \A j \in S : j \in Nat
  OBVIOUS
<1>2. x \in SUBSET y /\ k \in y /\ k \notin x
  <2>1. (\A j \in S : j <= i => j <= k) /\ k <= k /\ ~(k <= i)
    BY <1>1
  <2>2. QED
    BY <2>1, Zenon DEF UpToIn
<1>3. /\ IsFiniteSet(x) /\ Cardinality(x) \in Nat
      /\ IsFiniteSet(y) /\ Cardinality(y) \in Nat
  BY CountedIn
<1> HIDE DEF x, y
<1>4. Cardinality(x) <= Cardinality(y) /\ (Cardinality(y) = Cardinality(x) => x = y)
  BY <1>2, <1>3, FS_Subset
<1>5. QED
  BY <1>2, <1>3, <1>4 DEF x, y

\* There is such an element for each place.
LEMMA PlaceIsTaken ==
    ASSUME NEW b \in Nat, NEW S, S \subseteq 0..b, NEW n \in 1..Cardinality(S)
    PROVE  \E i \in S : Cardinality(UpToIn(S, i)) = n
<1> DEFINE E == {v \in Nat : n <= Cardinality(UpToIn(S, v))}
<1>1. Cardinality(S) \in Nat /\ n \in Nat /\ n >= 1 /\ n <= Cardinality(S) /\ \A j \in S : j \in Nat /\ j <= b
  <2>1. Cardinality(S) \in Nat
    BY CountedIn
  <2>2. \A j \in S : j \in Nat /\ j <= b
    OBVIOUS
  <2>3. QED
    BY <2>1, <2>2
<1>2. E # {}
  <2>1. UpToIn(S, b) = S
    BY <1>1 DEF UpToIn
  <2>2. b \in E
    BY <1>1, <2>1
  <2>3. QED
    BY <2>2
<1>3. E \in SUBSET Nat
  OBVIOUS
<1>4. PICK v \in E : \A w \in E : v <= w
  BY <1>2, <1>3, LeastNatural
<1>5. v \in Nat /\ n <= Cardinality(UpToIn(S, v))
  OBVIOUS
<1> DEFINE x == UpToIn(S, v) \ {v}
<1>6. Cardinality(x) \in Nat /\ IsFiniteSet(x) /\ Cardinality(x) < n
  <2>1. CASE v = 0
    <3>1. x = {}
      <4>1. \A j \in S : j <= v => j = v
        BY <1>1, <2>1
      <4>2. QED
        BY <4>1, Zenon DEF UpToIn
    <3>2. QED
      BY <1>1, <3>1, FS_EmptySet
  <2>2. CASE v # 0
    <3>1. v - 1 \in Nat /\ v - 1 \notin E
      BY <1>4, <1>5, <2>2
    <3>2. x = UpToIn(S, v - 1)
      <4>1. \A j \in S : j <= v /\ j # v <=> j <= v - 1
        BY <1>1, <1>5
      <4>2. QED
        BY <4>1, Zenon DEF UpToIn
    <3>3. ~(n <= Cardinality(UpToIn(S, v - 1)))
      BY <3>1
    <3>4. Cardinality(UpToIn(S, v - 1)) \in Nat /\ IsFiniteSet(UpToIn(S, v - 1))
      BY CountedIn
    <3> HIDE DEF x
    <3>5. QED
      BY <1>1, <3>2, <3>3, <3>4
  <2>3. QED
    BY <2>1, <2>2
<1>7. v \in S
  <2>1. SUFFICES ASSUME v \notin S PROVE FALSE
    OBVIOUS
  <2>2. x = UpToIn(S, v)
    BY <2>1 DEF UpToIn
  <2> HIDE DEF x
  <2>3. QED
    BY <1>1, <1>5, <1>6, <2>2
<1>8. Cardinality(UpToIn(S, v)) = Cardinality(x) + 1
  <2>1. UpToIn(S, v) = x \cup {v} /\ v \notin x
    BY <1>5, <1>7 DEF UpToIn
  <2> HIDE DEF x
  <2>2. Cardinality(x \cup {v}) = IF v \in x THEN Cardinality(x) ELSE Cardinality(x) + 1
    BY <1>6, FS_AddElement
  <2>3. QED
    BY <2>1, <2>2
<1>9. Cardinality(UpToIn(S, v)) = n
  <2> HIDE DEF x
  <2>1. QED
    BY <1>1, <1>5, <1>6, <1>8
<1>10. QED
  BY <1>7, <1>9

\* What stands in each place.
LEMMA AscendingPlaces ==
    ASSUME NEW b \in Nat, NEW S, S \subseteq 0..b
    PROVE  /\ Ascending(S) \in Seq(S) /\ Len(Ascending(S)) = Cardinality(S)
           /\ \A n \in 1..Cardinality(S) :
                 Ascending(S)[n] \in S /\ Cardinality(UpToIn(S, Ascending(S)[n])) = n
           /\ \A i \in S : /\ Cardinality(UpToIn(S, i)) \in 1..Cardinality(S)
                           /\ Ascending(S)[Cardinality(UpToIn(S, i))] = i
<1> DEFINE N == Cardinality(S)
           C(i) == Cardinality(UpToIn(S, i))
           s == Ascending(S)
<1>1. N \in Nat /\ \A i : C(i) \in Nat /\ C(i) <= N
  BY CountedIn
<1>2. \A n \in 1..N : \E i \in S : C(i) = n
  BY PlaceIsTaken
<1>3. \A i \in S, k \in S : i < k => C(i) < C(k)
  BY PlaceIsUnique
<1>4. s = [n \in 1..N |-> CHOOSE i \in S : C(i) = n]
  BY DEF Ascending, UpToIn
<1>5. \A i \in S : C(i) # 0
  <2>1. ASSUME NEW i \in S, C(i) = 0 PROVE FALSE
    <3>1. IsFiniteSet(UpToIn(S, i))
      BY CountedIn
    <3>2. UpToIn(S, i) = {}
      BY <2>1, <3>1, FS_EmptySet
    <3>3. i \in Nat
      OBVIOUS
    <3>4. i \in UpToIn(S, i)
      BY <3>3 DEF UpToIn
    <3>5. QED
      BY <3>2, <3>4
  <2>2. QED
    BY <2>1
<1> HIDE DEF N, C, s
<1>6. \A n \in 1..N : s[n] \in S /\ C(s[n]) = n
  BY <1>2, <1>4
<1>7. s \in Seq(S) /\ Len(s) = N
  <2>1. s \in [1..N -> S]
    BY <1>4, <1>6
  <2>2. QED
    BY <1>1, <2>1
<1>8. ASSUME NEW i \in S
      PROVE  C(i) \in 1..N /\ s[C(i)] = i
  <2>1. C(i) \in 1..N
    BY <1>1, <1>5
  <2>2. s[C(i)] \in S /\ C(s[C(i)]) = C(i)
    BY <1>6, <2>1, Zenon
  <2> DEFINE k == s[C(i)]
  <2>3. k \in S /\ C(k) = C(i) /\ C(i) \in Nat
    BY <1>1, <2>2, Zenon
  <2> HIDE DEF k
  <2>4. i \in Nat /\ k \in Nat
    BY <2>3
  <2>5. ~(C(k) < C(i)) /\ ~(C(i) < C(k))
    BY <2>3
  <2>6. ~(k < i) /\ ~(i < k)
    BY <1>3, <2>3, <2>5, Zenon
  <2>7. k = i
    BY <2>4, <2>6
  <2>8. QED
    BY <2>1, <2>7 DEF k
<1>9. QED
  BY <1>6, <1>7, <1>8 DEF N, C, s

\* Every element once and in order.
LEMMA AscendingInOrder ==
    ASSUME NEW b \in Nat, NEW S, S \subseteq 0..b
    PROVE  /\ {Ascending(S)[n] : n \in DOMAIN Ascending(S)} = S
           /\ \A n, m \in DOMAIN Ascending(S) : n < m => Ascending(S)[n] < Ascending(S)[m]
<1> DEFINE N == Cardinality(S)
           C(i) == Cardinality(UpToIn(S, i))
           s == Ascending(S)
<1>1. s \in Seq(S) /\ Len(s) = N /\ N \in Nat
  BY AscendingPlaces, CountedIn
<1>2. \A n \in 1..N : s[n] \in S /\ C(s[n]) = n
  BY AscendingPlaces
<1>3. \A i \in S : C(i) \in 1..N /\ s[C(i)] = i
  BY AscendingPlaces
<1>4. \A i \in S, k \in S : i < k => C(i) < C(k)
  BY PlaceIsUnique
<1> HIDE DEF N, C, s
<1>5. DOMAIN s = 1..N
  BY <1>1
<1>6. {s[n] : n \in DOMAIN s} = S
  BY <1>2, <1>3, <1>5, Zenon
<1>7. ASSUME NEW n \in 1..N, NEW m \in 1..N, n < m PROVE s[n] < s[m]
  <2>1. s[n] \in S /\ s[m] \in S /\ C(s[n]) = n /\ C(s[m]) = m
    BY <1>2
  <2>2. s[n] \in Nat /\ s[m] \in Nat
    <3>1. \A i \in S : i \in Nat
      OBVIOUS
    <3>2. QED
      BY <2>1, <3>1, Zenon
  <2>3. ~(s[m] < s[n])
    <3>1. ~(m < n)
      BY <1>1, <1>7
    <3>2. QED
      BY <1>4, <2>1, <3>1, Zenon
  <2>4. s[n] # s[m]
    <3>1. n # m
      BY <1>1, <1>7
    <3>2. QED
      BY <2>1, <3>1, Zenon
  <2>5. QED
    BY <2>2, <2>3, <2>4
<1>8. QED
  BY <1>5, <1>6, <1>7, Zenon DEF s

\* Sets of naturals up to b, the one below the other.
Precedes(A, B, b) == A \subseteq 0..b /\ B \subseteq 0..b /\ \A i \in A, k \in B : i < k

\* What is below comes first.
LEMMA AscendingJoin ==
    ASSUME NEW b \in Nat, NEW A, NEW B, Precedes(A, B, b)
    PROVE  Ascending(A \cup B) = Ascending(A) \o Ascending(B)
<1>1. A \subseteq 0..b /\ B \subseteq 0..b /\ \A i \in A, k \in B : i < k
  BY DEF Precedes
<1> DEFINE U == A \cup B
           a == Cardinality(A)
           c == Cardinality(B)
           sa == Ascending(A)
           sb == Ascending(B)
           su == Ascending(U)
<1>2. U \subseteq 0..b /\ A \cap B = {} /\ \A i \in U : i \in Nat
  <2>1. \A i \in A \cup B : i \in Nat
    BY <1>1
  <2>2. A \cap B = {}
    BY <1>1, <2>1
  <2>3. QED
    BY <1>1, <2>1, <2>2
<1>3. IsFiniteSet(A) /\ IsFiniteSet(B) /\ a \in Nat /\ c \in Nat
  BY <1>1, CountedIn
<1>4. Cardinality(U) = a + c
  <2>1. Cardinality(A \cap B) = 0
    BY <1>2, FS_EmptySet
  <2>2. Cardinality(U) = a + c - Cardinality(A \cap B)
    BY <1>3, FS_Union
  <2>3. QED
    BY <1>3, <2>1, <2>2
<1>5. sa \in Seq(A) /\ Len(sa) = a /\ \A n \in 1..a : sa[n] \in A /\ Cardinality(UpToIn(A, sa[n])) = n
  BY <1>1, AscendingPlaces
<1>6. sb \in Seq(B) /\ Len(sb) = c /\ \A n \in 1..c : sb[n] \in B /\ Cardinality(UpToIn(B, sb[n])) = n
  BY <1>1, AscendingPlaces
<1>7. /\ su \in Seq(U) /\ Len(su) = a + c
      /\ \A i \in U : su[Cardinality(UpToIn(U, i))] = i
  BY <1>2, <1>4, AscendingPlaces
<1> HIDE DEF sa, sb, su
<1>8. sa \in Seq(U) /\ sb \in Seq(U)
  BY <1>5, <1>6
<1>9. \A n \in 1..a : su[n] = sa[n]
  <2>1. ASSUME NEW n \in 1..a PROVE su[n] = sa[n]
    <3> DEFINE i == sa[n]
    <3>1. i \in A /\ Cardinality(UpToIn(A, i)) = n
      BY <1>5
    <3> HIDE DEF i
    <3>2. UpToIn(U, i) = UpToIn(A, i)
      <4>1. i \in Nat /\ \A k \in B : ~(k <= i)
        BY <1>1, <1>2, <3>1
      <4>2. QED
        BY <4>1, Zenon DEF UpToIn
    <3>3. su[Cardinality(UpToIn(U, i))] = i
      BY <1>7, <3>1
    <3>4. QED
      BY <3>1, <3>2, <3>3, Zenon DEF i
  <2>2. QED
    BY <2>1
<1>10. \A n \in 1..c : su[a + n] = sb[n]
  <2>1. ASSUME NEW n \in 1..c PROVE su[a + n] = sb[n]
    <3> DEFINE i == sb[n]
    <3>1. i \in B /\ Cardinality(UpToIn(B, i)) = n
      BY <1>6
    <3> HIDE DEF i
    <3>2. UpToIn(U, i) = A \cup UpToIn(B, i)
      <4>1. i \in Nat /\ \A k \in A : k <= i
        BY <1>1, <1>2, <3>1
      <4>2. QED
        BY <4>1, Zenon DEF UpToIn
    <3>3. A \cap UpToIn(B, i) = {}
      BY <1>1, <1>2 DEF UpToIn
    <3>4. IsFiniteSet(UpToIn(B, i))
      BY <1>1, CountedIn
    <3>5. Cardinality(A \cup UpToIn(B, i)) = a + Cardinality(UpToIn(B, i)) - Cardinality(A \cap UpToIn(B, i))
      BY <1>3, <3>4, FS_Union
    <3>6. Cardinality(A \cap UpToIn(B, i)) = 0
      BY <3>3, FS_EmptySet
    <3>7. Cardinality(UpToIn(U, i)) = a + n
      <4>1. Cardinality(UpToIn(U, i)) = a + n - 0
        BY <3>1, <3>2, <3>5, <3>6, Zenon
      <4>2. a + n - 0 = a + n
        BY <1>3
      <4>3. QED
        BY <4>1, <4>2, Zenon
    <3>8. su[Cardinality(UpToIn(U, i))] = i
      BY <1>7, <3>1
    <3>9. QED
      BY <3>7, <3>8, Zenon DEF i
  <2>2. QED
    BY <2>1
<1> HIDE DEF U, a, c
<1> DEFINE w == sa \o sb
<1>11. /\ w \in Seq(U) /\ Len(w) = a + c
       /\ \A i \in 1..a + c : w[i] = IF i <= a THEN sa[i] ELSE sb[i - a]
  <2>1. /\ w \in Seq(U) /\ Len(w) = Len(sa) + Len(sb)
        /\ \A i \in 1..Len(sa) + Len(sb) : w[i] = IF i <= Len(sa) THEN sa[i] ELSE sb[i - Len(sa)]
    BY <1>8, ConcatProperties, Zenon
  <2>2. QED
    BY <1>5, <1>6, <2>1, Zenon
<1> HIDE DEF w
<1>12. \A i \in 1..a + c : su[i] = w[i]
  <2>1. ASSUME NEW i \in 1..a + c, i <= a PROVE su[i] = w[i]
    <3>1. i \in 1..a
      BY <1>3, <2>1
    <3>2. QED
      BY <1>9, <1>11, <2>1, <3>1, Zenon
  <2>2. ASSUME NEW i \in 1..a + c, ~(i <= a) PROVE su[i] = w[i]
    <3>1. i - a \in 1..c /\ a + (i - a) = i
      BY <1>3, <2>2
    <3>2. su[a + (i - a)] = sb[i - a]
      BY <1>10, <3>1, Zenon
    <3>3. w[i] = sb[i - a]
      BY <1>11, <2>2, Zenon
    <3>4. QED
      BY <3>1, <3>2, <3>3, Zenon
  <2>3. QED
    BY <2>1, <2>2, Zenon
<1>13. su = w
  BY <1>7, <1>11, <1>12, SeqEqual
<1>14. QED
  BY <1>13 DEF su, w, sa, sb, U

\* The items of completed shards, from an offset up to an end.
DoneItems(job, offset, end) == {i \in offset..end - 1 : i \div job.shardSize \in job.done}

\* A page looks in all the shards that its items are in.
LEMMA ShardsOfPage ==
    ASSUME NEW job, job.shardSize \in Nat \ {0}, NEW o \in Nat, NEW end \in Nat, o < end
    PROVE  {i \in o..end - 1 : \E k \in ShardsOf(job, o, end) \cap job.done : i \div job.shardSize = k}
              = DoneItems(job, o, end)
<1> DEFINE d == job.shardSize
<1>1. d \in Nat \ {0}
  OBVIOUS
<1> HIDE DEF d
<1>2. ASSUME NEW i \in o..end - 1
      PROVE  i \div d \in (o \div d)..((end - 1) \div d)
  <2>1. i \in Nat /\ end - 1 \in Nat /\ o <= i /\ i <= end - 1
    OBVIOUS
  <2>2. o \div d <= i \div d /\ o \div d \in Nat /\ i \div d \in Nat
    BY <1>1, <2>1, DivKeepsOrder
  <2>3. i \div d <= (end - 1) \div d /\ (end - 1) \div d \in Nat
    BY <1>1, <2>1, DivKeepsOrder
  <2>4. QED
    BY <2>2, <2>3
<1>3. QED
  BY <1>2, Zenon DEF ShardsOf, DoneItems, d

\* From the end of a job on there are no items.
LEMMA NothingLeft ==
    ASSUME NEW job, NEW o \in Nat, NEW n \in Nat, o >= n
    PROVE  Ascending(DoneItems(job, o, n)) = <<>>
<1>1. o..n - 1 = {}
  OBVIOUS
<1>2. DoneItems(job, o, n) = {}
  BY <1>1, Zenon DEF DoneItems
<1>3. 0 \in Nat /\ {} \subseteq 0..0
  OBVIOUS
<1>4. Ascending({}) \in Seq({}) /\ Len(Ascending({})) = Cardinality({})
  BY <1>3, AscendingPlaces
<1>5. Cardinality({}) = 0
  BY FS_EmptySet
<1>6. Ascending({}) = <<>>
  BY <1>4, <1>5
<1>7. QED
  BY <1>2, <1>6

\* Pages of a job's items: those of the completed shards, wherever the pages fall
\* on the shards.
LEMMA ItemsPaged ==
    ASSUME NEW job, job.total \in 0..MaxList, job.shardSize \in Nat \ {0}, NEW limit \in Nat \ {0},
           NEW start \in Offsets
    PROVE  Walk([offset \in Offsets |-> ItemsSeen(job, offset, limit)], start)
              = [data |-> Ascending(DoneItems(job, start, job.total)), ends |-> TRUE]
<1> DEFINE n == job.total
           D(a, b) == DoneItems(job, a, b)
           size == AtMost(limit, PageCap)
           page == [offset \in Offsets |-> ItemsSeen(job, offset, limit)]
           rest == [offset \in Offsets |-> [data |-> Ascending(D(offset, n)), ends |-> TRUE]]
           end(o) == AtMost(o + size, n)
<1>1. n \in Nat /\ n <= MaxList /\ MaxList \in Nat
  BY PageBoundsAssumption
<1>2. size \in Nat \ {0}
  BY PageBoundsAssumption DEF AtMost
<1>3. \A o \in Offsets : /\ page[o].more = (o + size < n) /\ page[o].next = o + size
                         /\ page[o].data = IF size = 0 \/ o >= n THEN <<>>
                              ELSE Ascending({i \in o..end(o) - 1 :
                                       \E k \in ShardsOf(job, o, end(o)) \cap job.done : i \div job.shardSize = k})
  BY DEF ItemsPage, ItemsSeen
<1>4. \A a \in Nat, b \in Nat : b <= n => D(a, b) \subseteq 0..n
  BY <1>1 DEF DoneItems
<1>5. \A o \in Offsets : rest[o] = [data |-> Ascending(D(o, n)), ends |-> TRUE]
  BY Zenon
<1> HIDE DEF n, size, page, rest
<1>6. \A o \in Offsets : rest[o].data = Ascending(D(o, n)) /\ rest[o].ends = TRUE
  <2>1. \A r, d : r = [data |-> d, ends |-> TRUE] => r.data = d /\ r.ends = TRUE
    OBVIOUS
  <2>2. QED
    BY <1>5, <2>1, Zenon
<1>7. ASSUME NEW o \in Offsets
      PROVE  /\ LeadsOn(page, o) => page[o].next \in Offsets /\ page[o].next > o
             /\ rest[o] = WalkOn(page, rest, o)
  <2>1. o \in Nat /\ o + size \in Nat
    BY <1>1, <1>2 DEF Offsets, U32Max
  <2>2. /\ end(o) \in Nat /\ end(o) <= n
        /\ o + size < n => end(o) = o + size
        /\ ~(o + size < n) => end(o) = n
    BY <1>1, <2>1 DEF AtMost
  <2>3. o < n => page[o].data = Ascending(D(o, end(o)))
    <3>1. SUFFICES ASSUME o < n PROVE page[o].data = Ascending(D(o, end(o)))
      OBVIOUS
    <3>2. o < end(o) /\ ~(size = 0 \/ o >= n)
      BY <1>1, <1>2, <2>1, <2>2, <3>1
    <3> DEFINE e == end(o)
    <3>3. e \in Nat /\ o < e
      BY <2>2, <3>2
    <3>4. page[o].data = Ascending({i \in o..e - 1 :
                            \E k \in ShardsOf(job, o, e) \cap job.done : i \div job.shardSize = k})
      BY <1>3, <3>2, Zenon
    <3> HIDE DEF e
    <3>5. {i \in o..e - 1 : \E k \in ShardsOf(job, o, e) \cap job.done : i \div job.shardSize = k}
             = DoneItems(job, o, e)
      BY <2>1, <3>3, ShardsOfPage
    <3>6. QED
      BY <3>4, <3>5, Zenon DEF e
  <2> HIDE DEF end
  <2>4. page[o].more = (o + size < n) /\ page[o].next = o + size
    BY <1>3, Zenon
  <2>5. CASE o + size < n
    <3> DEFINE e == o + size
    <3>1. o < n /\ end(o) = e /\ e \in Offsets /\ e > o /\ e # o /\ e \in Nat /\ e <= n
      BY <1>1, <1>2, <2>1, <2>2, <2>5 DEF Offsets, U32Max
    <3> HIDE DEF e
    <3>2. D(o, n) = D(o, e) \cup D(e, n)
      <4>1. \A i : i \in o..n - 1 <=> i \in o..e - 1 \/ i \in e..n - 1
        BY <1>1, <2>1, <3>1
      <4>2. QED
        BY <4>1, Zenon DEF DoneItems
    <3>3. D(o, e) \subseteq 0..n /\ D(e, n) \subseteq 0..n
      <4>1. n <= n
        BY <1>1
      <4>2. QED
        BY <1>1, <1>4, <2>1, <3>1, <4>1, Zenon
    <3>4. \A i \in D(o, e), k \in D(e, n) : i < k
      <4>1. \A i \in o..e - 1, k \in e..n - 1 : i < k
        BY <1>1, <2>1, <3>1
      <4>2. QED
        BY <4>1, Zenon DEF DoneItems
    <3> DEFINE A == D(o, e)
               B == D(e, n)
    <3>5. Precedes(A, B, n)
      BY <3>3, <3>4, Zenon DEF Precedes
    <3> HIDE DEF D, A, B
    <3>6. Ascending(A \cup B) = Ascending(A) \o Ascending(B)
      BY <1>1, <3>5, AscendingJoin
    <3>7. /\ Ascending(A \cup B) = page[o].data \o rest[e].data
          /\ rest[e].ends = TRUE
      <4>1. page[o].data = Ascending(A)
        BY <2>3, <3>1, Zenon DEF A
      <4>2. rest[e].data = Ascending(B) /\ rest[e].ends = TRUE
        BY <1>6, <3>1, Zenon DEF B
      <4>3. QED
        BY <3>6, <4>1, <4>2, Zenon
    <3>8. LeadsOn(page, o) /\ page[o].next = e
      BY <2>4, <2>5, <3>1, Zenon DEF e, LeadsOn
    <3>9. rest[o] = [data |-> Ascending(A \cup B), ends |-> TRUE]
      BY <1>5, <3>2, Zenon DEF A, B
    <3>10. rest[o] = WalkOn(page, rest, o)
      BY <3>7, <3>8, <3>9, Zenon DEF WalkOn
    <3>11. QED
      BY <3>1, <3>8, <3>10, Zenon
  <2>6. CASE ~(o + size < n)
    <3>1. Ascending(D(o, n)) = page[o].data
      <4>1. CASE o < n
        BY <2>2, <2>3, <2>6, <4>1, Zenon
      <4>2. CASE ~(o < n)
        <5>1. o >= n
          BY <1>1, <2>1, <4>2
        <5>2. page[o].data = <<>>
          BY <1>3, <5>1, Zenon
        <5>3. Ascending(D(o, n)) = <<>>
          BY <1>1, <2>1, <5>1, NothingLeft
        <5>4. QED
          BY <5>2, <5>3, Zenon
      <4>3. QED
        BY <4>1, <4>2, Zenon
    <3>2. ~LeadsOn(page, o) /\ (~page[o].more) = TRUE
      BY <2>4, <2>6, Zenon DEF LeadsOn
    <3>3. rest[o] = WalkOn(page, rest, o)
      BY <1>5, <3>1, <3>2, Zenon DEF WalkOn
    <3>4. QED
      BY <3>2, <3>3, Zenon
  <2>7. QED
    BY <2>5, <2>6, Zenon
<1>8. Tiles(page, rest)
  BY <1>7, Zenon DEF Tiles
<1>9. rest = [o \in Offsets |-> rest[o]]
  BY Zenon DEF rest
<1>10. Walk(page, start) = rest[start]
  BY <1>8, <1>9, WalkTiles
<1>11. QED
  BY <1>5, <1>10, Zenon DEF page, n

\* With a limit of zero the client of a job's items has nothing, and does not come
\* to an end, unless it starts where no items are left.
LEMMA ItemsStuck ==
    ASSUME NEW job, job.total \in 0..MaxList, NEW start \in Offsets
    PROVE  Walk([offset \in Offsets |-> ItemsSeen(job, offset, 0)], start)
              = [data |-> <<>>, ends |-> ~(start < job.total)]
<1> DEFINE page == [offset \in Offsets |-> ItemsSeen(job, offset, 0)]
<1>1. AtMost(0, PageCap) = 0 /\ \A o \in Offsets : o + 0 = o
  BY PageBoundsAssumption DEF AtMost, Offsets, U32Max
<1>2. \A o \in Offsets : ItemsSeen(job, o, 0) = [data |-> <<>>, more |-> o < job.total, next |-> o]
  BY <1>1, Zenon DEF ItemsSeen, ItemsPage
<1>3. \A o \in Offsets : /\ page[o].data = <<>> /\ page[o].next = o
                         /\ page[o].more = (o < job.total)
  BY <1>2
<1> HIDE DEF page
<1>4. Walk(page, start) = [data |-> page[start].data, ends |-> ~page[start].more]
  BY <1>3, WalkStuck
<1>5. QED
  BY <1>3, <1>4, Zenon DEF page

-----------------------------------------------------------------------------
ApiSpec == Asked(ApiQuestions) /\ [][ApiNext]_inquiry

\* What a reply is.
Answered ==
    /\ question \in ApiQuestions
    /\ reply # <<>> =>
        /\ question.kind = "request" => answer = Respond(question.request)
        /\ question.kind = "templates" =>
              answer = Walk([offset \in Offsets |-> TemplatesPage(question.list, offset, question.limit)],
                            question.start)
        /\ question.kind = "renders" =>
              answer = Walk([offset \in Offsets |-> RendersPage(question.list, offset, question.limit)],
                            question.start)
        /\ question.kind = "items" =>
              answer = Walk([offset \in Offsets |-> ItemsSeen(question.job, offset, question.limit)],
                            question.start)

\* A reply is what the code answers to the question, and nothing else.
LEMMA AlwaysAnswered == ApiSpec => []Answered
<1>1. Asked(ApiQuestions) => Answered
  BY DEF Asked, Answered
<1>2. Answered /\ [ApiNext]_inquiry => Answered'
  <2> SUFFICES ASSUME Answered, [ApiNext]_inquiry PROVE Answered'
    OBVIOUS
  <2>1. CASE AnswerRequest
    BY <2>1 DEF Answered, AnswerRequest, Answer, answer
  <2>2. CASE AnswerTemplates
    BY <2>2 DEF Answered, AnswerTemplates, Answer, answer
  <2>3. CASE AnswerRenders
    BY <2>3 DEF Answered, AnswerRenders, Answer, answer
  <2>4. CASE AnswerItems
    BY <2>4 DEF Answered, AnswerItems, Answer, answer
  <2>5. CASE UNCHANGED inquiry
    BY <2>5 DEF Answered, inquiry, answer
  <2>6. QED
    BY <2>1, <2>2, <2>3, <2>4, <2>5 DEF ApiNext
<1>3. QED
  BY <1>1, <1>2, PTL DEF ApiSpec

\* What a walk through templates has.
LEMMA TemplatesWalked ==
    ASSUME NEW S, NEW list \in Seq(S), Len(list) <= MaxList, NEW limit \in Nat, NEW start \in Offsets
    PROVE  Walk([offset \in Offsets |-> TemplatesPage(list, offset, limit)], start)
              = IF limit = 0 /\ start < Len(list) THEN [data |-> <<>>, ends |-> FALSE]
                ELSE LeftOf(list, start)
<1> DEFINE page == [offset \in Offsets |-> TemplatesPage(list, offset, limit)]
<1>1. PagesList(page, list, limit)
  BY TemplatesPaged
<1> HIDE DEF page
<1>2. CASE limit = 0
  <2>1. PagesList(page, list, 0)
    BY <1>1, <1>2
  <2>2. Walk(page, start) = IF start < Len(list) THEN [data |-> <<>>, ends |-> FALSE]
                            ELSE LeftOf(list, start)
    BY <2>1, PagesStuck
  <2>3. QED
    BY <1>2, <2>2, Zenon DEF page
<1>3. CASE limit # 0
  <2>1. limit \in Nat \ {0}
    BY <1>3
  <2>2. Walk(page, start) = LeftOf(list, start)
    BY <1>1, <2>1, PagesTile
  <2>3. QED
    BY <1>3, <2>2, Zenon DEF page
<1>4. QED
  BY <1>2, <1>3

\* What a walk through renders has.
LEMMA RendersWalked ==
    ASSUME NEW S, NEW list \in Seq(S), Len(list) <= MaxList, NEW limit \in Nat, NEW start \in Offsets
    PROVE  Walk([offset \in Offsets |-> RendersPage(list, offset, limit)], start) = LeftOf(list, start)
<1> DEFINE page == [offset \in Offsets |-> RendersPage(list, offset, limit)]
           size == AtLeast(1, AtMost(limit, PageCap))
<1>1. PagesList(page, list, size)
  BY RendersPaged
<1>2. size \in Nat \ {0}
  BY PageBoundsAssumption DEF AtLeast, AtMost
<1> HIDE DEF page, size
<1>3. Walk(page, start) = LeftOf(list, start)
  BY <1>1, <1>2, PagesTile
<1>4. QED
  BY <1>3 DEF page

\* Every item of a completed shard from where the walk starts, once and in order.
ItemsInOrder(job, start, seen) ==
    /\ {seen[n] : n \in DOMAIN seen} = DoneItems(job, start, job.total)
    /\ \A n, m \in DOMAIN seen : n < m => seen[n] < seen[m]

\* What a walk through a job's items has.
LEMMA ItemsWalked ==
    ASSUME NEW job, job.total \in 0..MaxList, job.shardSize \in Nat \ {0}, NEW limit \in Nat,
           NEW start \in Offsets, NEW w, w = Walk([offset \in Offsets |-> ItemsSeen(job, offset, limit)], start)
    PROVE  IF limit = 0 /\ start < job.total THEN w = [data |-> <<>>, ends |-> FALSE]
           ELSE w.ends /\ ItemsInOrder(job, start, w.data)
<1> DEFINE n == job.total
           D == DoneItems(job, start, n)
<1>1. n \in Nat /\ start \in Nat
  BY PageBoundsAssumption DEF Offsets, U32Max
<1>2. D \subseteq 0..n
  BY <1>1 DEF DoneItems
<1>3. ItemsInOrder(job, start, Ascending(D))
  <2> HIDE DEF D
  <2>1. /\ {Ascending(D)[k] : k \in DOMAIN Ascending(D)} = D
        /\ \A k, m \in DOMAIN Ascending(D) : k < m => Ascending(D)[k] < Ascending(D)[m]
    BY <1>1, <1>2, AscendingInOrder
  <2>2. QED
    BY <2>1, Zenon DEF ItemsInOrder, D
<1>4. CASE limit = 0
  <2>1. w = [data |-> <<>>, ends |-> ~(start < n)]
    BY <1>4, ItemsStuck
  <2>2. CASE start < n
    BY <1>4, <2>1, <2>2
  <2>3. CASE ~(start < n)
    <3>1. start >= n
      BY <1>1, <2>3
    <3>2. Ascending(D) = <<>>
      BY <1>1, <3>1, NothingLeft
    <3>3. w.ends /\ w.data = <<>>
      <4>1. (~(start < n)) = TRUE
        BY <2>3
      <4>2. w = [data |-> <<>>, ends |-> TRUE]
        BY <2>1, <4>1, Zenon
      <4>3. QED
        BY <4>2
    <3> HIDE DEF D, n
    <3>4. ItemsInOrder(job, start, w.data)
      BY <1>3, <3>2, <3>3, Zenon
    <3>5. QED
      BY <2>3, <3>3, <3>4, Zenon DEF n
  <2>4. QED
    BY <2>2, <2>3
<1>5. CASE limit # 0
  <2>1. limit \in Nat \ {0}
    BY <1>5
  <2>2. w = [data |-> Ascending(D), ends |-> TRUE]
    BY <2>1, ItemsPaged
  <2> HIDE DEF D
  <2>3. w.ends /\ w.data = Ascending(D)
    BY <2>2
  <2>4. QED
    BY <1>3, <1>5, <2>3, Zenon
<1>6. QED
  BY <1>4, <1>5

\* Whatever list or job, limit and start are asked about, a walk sees everything
\* from there on, or nothing if the limit is zero and is not clamped.
THEOREM SpecWalkSeesAll == ApiSpec => []WalkSeesAll
<1>1. Answered => WalkSeesAll
  <2> SUFFICES ASSUME Answered PROVE WalkSeesAll
    OBVIOUS
  <2>1. \A list \in Lists : list \in Seq(Nat) /\ Len(list) <= MaxList
    BY PageBoundsAssumption DEF Lists
  <2>2. Limits \subseteq Nat
    BY PageBoundsAssumption DEF Limits
  <2>3. ASSUME Replied("templates")
        PROVE  answer = IF question.limit = 0 /\ question.start < Len(question.list)
                        THEN [data |-> <<>>, ends |-> FALSE]
                        ELSE LeftOf(question.list, question.start)
    <3>1. question.list \in Lists /\ question.limit \in Limits /\ question.start \in Offsets
      BY <2>3 DEF Answered, Replied, ApiQuestions
    <3>2. answer = Walk([offset \in Offsets |-> TemplatesPage(question.list, offset, question.limit)],
                        question.start)
      BY <2>3, Zenon DEF Answered, Replied
    <3>3. QED
      BY <2>1, <2>2, <3>1, <3>2, TemplatesWalked
  <2>4. ASSUME Replied("renders")
        PROVE  answer = LeftOf(question.list, question.start)
    <3>1. question.list \in Lists /\ question.limit \in Limits /\ question.start \in Offsets
      BY <2>4 DEF Answered, Replied, ApiQuestions
    <3>2. answer = Walk([offset \in Offsets |-> RendersPage(question.list, offset, question.limit)],
                        question.start)
      BY <2>4, Zenon DEF Answered, Replied
    <3>3. QED
      BY <2>1, <2>2, <3>1, <3>2, RendersWalked
  <2>5. ASSUME Replied("items")
        PROVE  IF question.limit = 0 /\ question.start < question.job.total
               THEN answer = [data |-> <<>>, ends |-> FALSE]
               ELSE answer.ends /\ ItemsInOrder(question.job, question.start, answer.data)
    <3>1. question.job \in PagedJobs /\ question.limit \in Limits /\ question.start \in Offsets
      BY <2>5 DEF Answered, Replied, ApiQuestions
    <3>2. question.job.total \in 1..MaxList /\ question.job.shardSize \in 1..MaxLimit
      BY <3>1 DEF PagedJobs
    <3>3. question.job.total \in 0..MaxList /\ question.job.shardSize \in Nat \ {0}
      BY <3>2, PageBoundsAssumption
    <3>4. answer = Walk([offset \in Offsets |-> ItemsSeen(question.job, offset, question.limit)],
                        question.start)
      BY <2>5, Zenon DEF Answered, Replied
    <3>5. question.limit \in Nat
      BY <2>2, <3>1
    <3>6. QED
      BY <3>1, <3>3, <3>4, <3>5, ItemsWalked
  <2>6. QED
    BY <2>3, <2>4, <2>5, Zenon DEF WalkSeesAll, LeftOf, ItemsInOrder, DoneItems
<1>2. QED
  BY <1>1, AlwaysAnswered, PTL

-----------------------------------------------------------------------------
(***************************************************************************)
(* Statuses: the error of a step tells the kind of its fault, and the way of *)
(* an error to its status keeps it.                                         *)
(***************************************************************************)
\* The steps of the handlers.
AllSteps ==
    WriteSteps \cup ReadSteps \cup Skipped \cup Checks \cup ByRenderOrJob
        \cup {"summary", "stage", "results", "list_refs", "ref", "manifest", "capacity", "compile",
              "export", "outcome"}

\* The steps that look something up by its name.
Lookups == ByRenderOrJob \cup {"ref", "list_refs"}

\* What went wrong, by the error: outages, mistakes of the client, what is missing,
\* and the pool at its limits.
Outages == {Storage, <<"RenderStorage", "Query">>, <<"RenderStorage", "Serialization">>,
            <<"ContentAddressing", "ManifestError">>}
Mistakes == {BadReference, <<"Api", "BadRequest">>, <<"Template", "Invalid">>,
             <<"Compilation", "TypstError">>, <<"RenderStorage", "RenderFailed">>}
Unfound == {<<"Api", "TemplateNotFound">>, <<"Template", "NotFound">>, <<"RenderStorage", "NotFound">>}
Busy == {<<"RenderPool", "Exhausted">>, <<"RenderPool", "Timeout">>}
Failures == Outages \cup Mistakes \cup Unfound \cup Busy

\* The status of an error: ApiError::into_response keeps the kinds apart.
LEMMA StatusOfErrors ==
    /\ Status(Fine) = 200
    /\ \A error \in Outages \cup {<<"Api", "Internal">>} : Status(error) = 500
    /\ \A error \in Mistakes : Status(error) \in {400, 422}
    /\ \A error \in Unfound : Status(error) = 404
    /\ \A error \in Busy : Status(error) \in {408, 503}
    /\ Status(<<"Api", "BadRequest">>) = 400
<1>1. Status(Fine) = 200
  <2>1. Fine \notin NotFound /\ Fine # <<"Api", "BadRequest">>
    BY DEF Fine, NotFound
  <2>2. Fine # <<"RenderPool", "Timeout">> /\ Fine # <<"RenderPool", "Exhausted">>
    BY DEF Fine
  <2>3. Fine # <<"RenderStorage", "RenderFailed">> /\ Fine[1] = "none"
    BY DEF Fine
  <2>4. QED
    BY <2>1, <2>2, <2>3 DEF Status
<1>2. \A error \in Outages \cup {<<"Api", "Internal">>} : Status(error) = 500
  <2>1. Status(Storage) = 500
    BY DEF Status, Fine, Storage, NotFound
  <2>2. Status(<<"RenderStorage", "Query">>) = 500 /\ Status(<<"RenderStorage", "Serialization">>) = 500
    BY DEF Status, Fine, NotFound
  <2>3. Status(<<"ContentAddressing", "ManifestError">>) = 500 /\ Status(<<"Api", "Internal">>) = 500
    BY DEF Status, Fine, NotFound
  <2>4. QED
    BY <2>1, <2>2, <2>3, Zenon DEF Outages
<1>3. \A error \in Mistakes : Status(error) \in {400, 422}
  <2>1. Status(BadReference) = 400 /\ Status(<<"Api", "BadRequest">>) = 400
    BY DEF Status, Fine, BadReference, NotFound
  <2>2. Status(<<"Template", "Invalid">>) = 422 /\ Status(<<"Compilation", "TypstError">>) = 422
    BY DEF Status, Fine, NotFound
  <2>3. Status(<<"RenderStorage", "RenderFailed">>) = 422
    BY DEF Status, Fine, NotFound
  <2>4. QED
    BY <2>1, <2>2, <2>3 DEF Mistakes
<1>4. \A error \in Unfound : Status(error) = 404
  <2>1. Status(<<"Api", "TemplateNotFound">>) = 404
    BY DEF Status, Fine, NotFound
  <2>2. Status(<<"Template", "NotFound">>) = 404 /\ Status(<<"RenderStorage", "NotFound">>) = 404
    BY DEF Status, Fine, NotFound
  <2>3. QED
    BY <2>1, <2>2, Zenon DEF Unfound
<1>5. \A error \in Busy : Status(error) \in {408, 503}
  <2>1. Status(<<"RenderPool", "Exhausted">>) = 503
    BY DEF Status, Fine, NotFound
  <2>2. Status(<<"RenderPool", "Timeout">>) = 408
    BY DEF Status, Fine, NotFound
  <2>3. QED
    BY <2>1, <2>2 DEF Busy
<1>6. Status(<<"Api", "BadRequest">>) = 400
  BY DEF Status, Fine, NotFound
<1>7. QED
  BY <1>1, <1>2, <1>3, <1>4, <1>5, <1>6, Zenon

\* Most handlers pass an error on as it is; the batch and the renders routes, and the
\* forms of the UI, wrap it.
LEMMA PassedOn ==
    /\ \A e, error : e \notin {"batch", "renders", "uiPublish", "uiDelete"} => Wrapped(e, error) = error
    /\ \A e, error : error = Fine \/ error[1] = "Api" => Wrapped(e, error) = error
    /\ \A error \in Failures : error[1] # "Api" =>
          /\ Wrapped("batch", error) = <<"Api", "Internal">>
          /\ error[1] = "RenderStorage" => Wrapped("renders", error) = <<"Api", "Internal">>
          /\ \A e \in {"uiPublish", "uiDelete"} : Wrapped(e, error) = <<"Api", "BadRequest">>
<1>1. \A e, error : e \notin {"batch", "renders", "uiPublish", "uiDelete"} => Wrapped(e, error) = error
  BY DEF Wrapped
<1>2. \A e, error : error = Fine \/ error[1] = "Api" => Wrapped(e, error) = error
  BY DEF Wrapped
<1>3. \A error \in Failures : error # Fine
  BY DEF Failures, Outages, Mistakes, Unfound, Busy, Storage, BadReference, Fine
<1>4. ASSUME NEW error \in Failures, error[1] # "Api"
      PROVE  /\ Wrapped("batch", error) = <<"Api", "Internal">>
             /\ error[1] = "RenderStorage" => Wrapped("renders", error) = <<"Api", "Internal">>
             /\ \A e \in {"uiPublish", "uiDelete"} : Wrapped(e, error) = <<"Api", "BadRequest">>
  BY <1>3, <1>4 DEF Wrapped
<1>5. QED
  BY <1>1, <1>2, <1>4, Zenon

\* The steps of the handlers that list.
LEMMA StepsOfPages ==
    /\ Steps("templates") = {"list", "describe"}
    /\ Steps("renders") = {"summary"}
    /\ Steps("analytics") = {"summary"}
    /\ Steps("job") = {"job", "list", "shard"}
    /\ Steps("items") = {"job", "results"}
<1>1. Steps("templates") = {"list", "describe"}
  BY DEF Steps, Handler
<1>2. Steps("renders") = {"summary"}
  BY DEF Steps, Handler
<1>3. Steps("analytics") = {"summary"}
  BY DEF Steps, Handler
<1>4. Steps("job") = {"job", "list", "shard"}
  BY DEF Steps, Handler
<1>5. Steps("items") = {"job", "results"}
  BY DEF Steps, Handler
<1>6. QED
  BY <1>1, <1>2, <1>3, <1>4, <1>5, Zenon

\* The steps of the handlers that read one template or render.
LEMMA StepsOfReads ==
    /\ Steps("source") = {"parse", "ref", "pin", "manifest", "entrypoint"}
    /\ Steps("metadata") = {"path", "ref", "pin", "list_refs", "tag_ref", "manifest"}
    /\ Steps("tags") = {"list_refs", "tag_ref", "manifest"}
    /\ Steps("pdf") = {"id", "meta", "outcome", "pdf"}
<1>1. Steps("source") = {"parse", "ref", "pin", "manifest", "entrypoint"}
  BY DEF Steps, Handler
<1>2. Steps("metadata") = {"path", "ref", "pin", "list_refs", "tag_ref", "manifest"}
  <2>1. Handler["metadata"] = <<"path", "ref", "pin", "list_refs", "tag_ref", "manifest">>
    BY DEF Handler
  <2>2. QED
    BY <2>1 DEF Steps
<1>3. Steps("tags") = {"list_refs", "tag_ref", "manifest"}
  <2>1. Handler["tags"] = <<"list_refs", "tag_ref", "manifest">>
    BY DEF Handler
  <2>2. QED
    BY <2>1 DEF Steps
<1>4. Steps("pdf") = {"id", "meta", "outcome", "pdf"}
  BY DEF Steps, Handler
<1>5. QED
  BY <1>1, <1>2, <1>3, <1>4, Zenon

\* The steps of the handlers that write.
LEMMA StepsOfWrites ==
    /\ Steps("publish") = {"form", "name", "put_file", "put_manifest", "put_ref"}
    /\ Steps("batch") = {"inputs", "put_shard", "put_job", "put_marker"}
    /\ Steps("uiPublish") = {"name", "put_file", "put_manifest", "put_ref"}
    /\ Steps("uiDelete") = {"name", "ref", "delete_ref", "list", "live_refs", "orphan", "delete_blobs"}
<1>1. Steps("publish") = {"form", "name", "put_file", "put_manifest", "put_ref"}
  <2>1. Handler["publish"] = <<"form", "name", "put_file", "put_manifest", "put_ref">>
    BY DEF Handler
  <2>2. QED
    BY <2>1 DEF Steps
<1>2. Steps("batch") = {"inputs", "put_shard", "put_job", "put_marker"}
  <2>1. Handler["batch"] = <<"inputs", "put_shard", "put_job", "put_marker">>
    BY DEF Handler
  <2>2. QED
    BY <2>1 DEF Steps
<1>3. Steps("uiPublish") = {"name", "put_file", "put_manifest", "put_ref"}
  <2>1. Handler["uiPublish"] = <<"name", "put_file", "put_manifest", "put_ref">>
    BY DEF Handler
  <2>2. QED
    BY <2>1 DEF Steps
<1>4. Steps("uiDelete") = {"name", "ref", "delete_ref", "list", "live_refs", "orphan", "delete_blobs"}
  <2>1. Handler["uiDelete"] = <<"name", "ref", "delete_ref", "list", "live_refs", "orphan", "delete_blobs">>
    BY DEF Handler
  <2>2. QED
    BY <2>1 DEF Steps
<1>5. QED
  BY <1>1, <1>2, <1>3, <1>4, Zenon

RenderSteps == {"parse", "ref", "pin", "manifest", "entrypoint", "blobs", "put_data", "capacity",
                "compile", "export", "put_pdf", "put_meta", "stage"}

\* A render loads its template between parsing and rendering.
LEMMA StepsOfRender == Steps("render") \subseteq RenderSteps
<1> DEFINE first == <<"parse">>
           last == <<"put_data", "capacity", "compile", "export", "put_pdf", "put_meta", "stage">>
<1>1. first \in Seq(RenderSteps)
  BY DEF RenderSteps
<1>2. Load \in Seq(RenderSteps)
  BY DEF RenderSteps, Load
<1>3. last \in Seq(RenderSteps)
  BY DEF RenderSteps
<1>4. Handler["render"] = first \o Load \o last
  BY DEF Handler
<1> HIDE DEF first, last
<1>5. first \o Load \in Seq(RenderSteps)
  BY <1>1, <1>2, ConcatProperties, Zenon
<1>6. first \o Load \o last \in Seq(RenderSteps)
  BY <1>3, <1>5, ConcatProperties, Zenon
<1>7. QED
  BY <1>4, <1>6 DEF Steps

Uis == {"uiPublish", "uiDelete"}
\* The handlers that pass every error on as it is.
Unwrapping == {"render", "source", "metadata", "tags", "templates", "publish", "pdf", "analytics", "job", "items"}

\* The steps of a handler: which of them look up what the client names.
LEMMA StepsOfPlain ==
    ASSUME NEW e \in Unwrapping, NEW s \in Steps(e)
    PROVE  /\ s \in AllSteps
           /\ s \in Lookups <=> s \in LookupSteps(e)
           /\ e \in {"render", "publish"} => s \notin Skipped \cup {"summary", "results"}
<1> USE DEF AllSteps, WriteSteps, ReadSteps, Skipped, Checks, ByRenderOrJob, Lookups, LookupSteps
<1>1. CASE e = "render"
  <2>1. s \in RenderSteps
    BY <1>1, StepsOfRender
  <2>2. QED
    BY <1>1, <2>1 DEF RenderSteps
<1>2. CASE e = "source"
  BY <1>2, StepsOfReads
<1>3. CASE e = "metadata"
  BY <1>3, StepsOfReads
<1>4. CASE e = "tags"
  BY <1>4, StepsOfReads
<1>5. CASE e = "pdf"
  BY <1>5, StepsOfReads
<1>6. CASE e = "publish"
  BY <1>6, StepsOfWrites
<1>7. CASE e = "templates"
  BY <1>7, StepsOfPages
<1>8. CASE e = "analytics"
  BY <1>8, StepsOfPages
<1>9. CASE e = "job"
  BY <1>9, StepsOfPages
<1>10. CASE e = "items"
  BY <1>10, StepsOfPages
<1>11. QED
  BY <1>1, <1>2, <1>3, <1>4, <1>5, <1>6, <1>7, <1>8, <1>9, <1>10 DEF Unwrapping

\* The error of a step, by its fault.
LEMMA ErrorsOfFaults ==
    ASSUME NEW s \in AllSteps, NEW fault \in Faults(s)
    PROVE  /\ s \in Skipped => StepError(s, fault) = Fine /\ fault \notin ClientsFault
           /\ fault \in StoresFault => s \in Skipped \/ StepError(s, fault) \in Outages
           /\ fault \in ClientsFault => StepError(s, fault) \in Mistakes
           /\ fault = "absent" => IF s \in Lookups THEN StepError(s, fault) \in Unfound
                                  ELSE StepError(s, fault) \in Outages \cup {Fine}
           /\ fault \in StoresFault \cup ClientsFault \cup {"absent"} \/ StepError(s, fault) \in Busy
           /\ s \in Skipped \cup {"summary", "results"} \/ StepError(s, fault) \in Failures
<1> USE DEF StepError, Faults, AllSteps, WriteSteps, ReadSteps, Skipped, Checks, ByRenderOrJob
<1>1. s \in Skipped => StepError(s, fault) = Fine /\ fault \notin ClientsFault
  BY DEF ClientsFault
<1>2. fault \in StoresFault => s \in Skipped \/ StepError(s, fault) \in Outages
  BY DEF StoresFault, Outages, BlobError
<1>3. fault \in ClientsFault => StepError(s, fault) \in Mistakes
  BY DEF ClientsFault, Mistakes
<1>4. fault = "absent" => IF s \in Lookups THEN StepError(s, fault) \in Unfound
                          ELSE StepError(s, fault) \in Outages \cup {Fine}
  BY DEF Unfound, Outages, BlobError, Lookups
<1>5. fault \in StoresFault \cup ClientsFault \cup {"absent"} \/ StepError(s, fault) \in Busy
  BY DEF StoresFault, ClientsFault, Busy
<1>6. s \in Skipped \cup {"summary", "results"} \/ StepError(s, fault) \in Failures
  BY DEF Failures, Outages, Mistakes, Unfound, Busy, BlobError
<1>7. QED
  BY <1>1, <1>2, <1>3, <1>4, <1>5, <1>6, Zenon

\* The status that a handler answers when one of its steps fails, by who is at fault.
TellsWhoseFault(e, s, fault, status) ==
    /\ e \notin {"uiPublish", "uiDelete"} =>
        /\ fault \in StoresFault => status >= 500 \/ s \in Skipped
        /\ fault \in ClientsFault => status \in 400..499 \ {404}
        /\ status = 404 <=> fault = "absent" /\ s \in LookupSteps(e)
    /\ e \in {"render", "publish", "batch", "uiPublish", "uiDelete"} => status >= 400 \/ s \in Skipped
    /\ s \in Skipped => status = 200

\* Where errors are passed on as they are.
LEMMA PlainTells ==
    ASSUME NEW e \in Unwrapping, NEW s \in Steps(e), NEW fault \in Faults(s)
    PROVE  TellsWhoseFault(e, s, fault, Status(Wrapped(e, StepError(s, fault))))
<1> DEFINE error == StepError(s, fault)
           status == Status(error)
<1>1. Wrapped(e, error) = error
  BY PassedOn DEF Unwrapping
<1>2. /\ s \in AllSteps
      /\ s \in Lookups <=> s \in LookupSteps(e)
      /\ e \in {"render", "publish"} => s \notin Skipped \cup {"summary", "results"}
  BY StepsOfPlain
<1>3. /\ s \in Skipped => error = Fine /\ fault \notin ClientsFault
      /\ fault \in StoresFault => s \in Skipped \/ error \in Outages
      /\ fault \in ClientsFault => error \in Mistakes
      /\ fault = "absent" => IF s \in Lookups THEN error \in Unfound ELSE error \in Outages \cup {Fine}
      /\ fault \in StoresFault \cup ClientsFault \cup {"absent"} \/ error \in Busy
      /\ s \in Skipped \cup {"summary", "results"} \/ error \in Failures
  BY <1>2, ErrorsOfFaults, Zenon
<1> HIDE DEF error
<1>4. /\ error = Fine => status = 200
      /\ error \in Outages => status = 500
      /\ error \in Mistakes => status \in {400, 422}
      /\ error \in Unfound => status = 404
      /\ error \in Busy => status \in {408, 503}
  <2>1. error = Fine => status = 200
    BY StatusOfErrors
  <2>2. error \in Outages => status = 500
    BY StatusOfErrors
  <2>3. error \in Mistakes => status \in {400, 422}
    BY StatusOfErrors
  <2>4. error \in Unfound => status = 404
    BY StatusOfErrors
  <2>5. error \in Busy => status \in {408, 503}
    BY StatusOfErrors
  <2>6. QED
    BY <2>1, <2>2, <2>3, <2>4, <2>5, Zenon
<1> HIDE DEF status
<1>5. /\ fault \in StoresFault => status >= 500 \/ s \in Skipped
      /\ fault \in ClientsFault => status \in 400..499 \ {404}
  BY <1>3, <1>4
<1>6. status = 404 <=> fault = "absent" /\ s \in LookupSteps(e)
  <2>1. s \notin Lookups \/ s \notin Skipped
    BY DEF Lookups, Skipped, ByRenderOrJob
  <2>2. fault \in StoresFault \/ fault \in ClientsFault => fault # "absent"
    BY DEF StoresFault, ClientsFault
  <2>3. error = Fine \/ error \in Outages \/ error \in Mistakes \/ error \in Busy => status # 404
    BY <1>4
  <2>4. QED
    <3>1. CASE fault = "absent"
      <4>1. s \in Lookups => status = 404
        BY <1>3, <1>4, <3>1
      <4>2. s \notin Lookups => error = Fine \/ error \in Outages
        BY <1>3, <3>1
      <4>3. status = 404 <=> s \in Lookups
        BY <2>3, <4>1, <4>2, Zenon
      <4>4. QED
        BY <1>2, <3>1, <4>3, Zenon
    <3>2. CASE fault # "absent"
      <4>1. error = Fine \/ error \in Outages \/ error \in Mistakes \/ error \in Busy
        BY <1>3, <3>2
      <4>2. QED
        BY <2>3, <3>2, <4>1, Zenon
    <3>3. QED
      BY <3>1, <3>2
<1>7. e \in {"render", "publish", "batch", "uiPublish", "uiDelete"} => status >= 400 \/ s \in Skipped
  <2>1. error \in Failures => status >= 400
    BY <1>4 DEF Failures
  <2>2. e \in {"render", "publish", "batch", "uiPublish", "uiDelete"} => e \in {"render", "publish"}
    BY DEF Unwrapping
  <2>3. QED
    BY <1>2, <1>3, <2>1, <2>2
<1>8. s \in Skipped => status = 200
  BY <1>3, <1>4
<1>9. TellsWhoseFault(e, s, fault, status)
  BY <1>5, <1>6, <1>7, <1>8, Zenon DEF TellsWhoseFault
<1>10. QED
  BY <1>1, <1>9, Zenon DEF error, status

\* The list of the renders has one step, which reads.
LEMMA RendersTell ==
    ASSUME NEW fault \in Faults("summary")
    PROVE  TellsWhoseFault("renders", "summary", fault, Status(Wrapped("renders", StepError("summary", fault))))
<1>1. fault \in {"absent", "down", "corrupt"}
  BY DEF Faults, WriteSteps, ReadSteps, Skipped, Checks, ByRenderOrJob
<1>2. StepError("summary", fault) = IF fault = "absent" THEN Fine ELSE <<"RenderStorage", "Query">>
  BY DEF StepError, WriteSteps, ReadSteps, Skipped, ByRenderOrJob
<1>3. Status(Wrapped("renders", StepError("summary", fault))) = IF fault = "absent" THEN 200 ELSE 500
  <2>1. CASE fault = "absent"
    BY <1>2, <2>1, PassedOn, StatusOfErrors
  <2>2. CASE fault # "absent"
    <3>1. <<"RenderStorage", "Query">> \in Failures
      BY DEF Failures, Outages
    <3>2. Wrapped("renders", <<"RenderStorage", "Query">>) = <<"Api", "Internal">>
      BY <3>1, PassedOn
    <3>3. QED
      BY <1>2, <2>2, <3>2, StatusOfErrors
  <2>3. QED
    BY <2>1, <2>2
<1>4. fault \notin ClientsFault /\ "summary" \notin Skipped /\ "summary" \notin LookupSteps("renders")
  BY <1>1 DEF ClientsFault, Skipped, LookupSteps, ByRenderOrJob
<1>5. "absent" \notin StoresFault
  BY DEF StoresFault
<1>6. QED
  BY <1>3, <1>4, <1>5 DEF TellsWhoseFault

\* Of the steps that accept a job, only the check of its inputs can be the client's.
LEMMA BatchTells ==
    ASSUME NEW s \in Steps("batch"), NEW fault \in Faults(s)
    PROVE  TellsWhoseFault("batch", s, fault, Status(Wrapped("batch", StepError(s, fault))))
<1>1. s \in {"inputs", "put_shard", "put_job", "put_marker"}
  BY StepsOfWrites
<1>2. IF s = "inputs" THEN fault = "bad" ELSE fault = "down"
  BY <1>1 DEF Faults, WriteSteps, ReadSteps, Skipped, Checks, ByRenderOrJob
<1>3. StepError(s, fault) = IF s = "inputs" THEN <<"Api", "BadRequest">> ELSE Storage
  BY <1>1 DEF StepError, WriteSteps, ReadSteps, Skipped, ByRenderOrJob
<1>4. Status(Wrapped("batch", StepError(s, fault))) = IF s = "inputs" THEN 400 ELSE 500
  <2>1. CASE s = "inputs"
    BY <1>3, <2>1, PassedOn, StatusOfErrors
  <2>2. CASE s # "inputs"
    <3>1. Storage \in Failures /\ Storage[1] # "Api"
      BY DEF Failures, Outages, Storage
    <3>2. Wrapped("batch", Storage) = <<"Api", "Internal">>
      BY <3>1, PassedOn
    <3>3. QED
      BY <1>3, <2>2, <3>2, StatusOfErrors
  <2>3. QED
    BY <2>1, <2>2
<1>5. /\ fault \in StoresFault <=> fault = "down"
      /\ fault \in ClientsFault <=> fault = "bad"
  BY <1>2 DEF StoresFault, ClientsFault
<1>6. s \notin Skipped
  BY <1>1 DEF Skipped
<1>7. QED
  BY <1>2, <1>4, <1>5, <1>6 DEF TellsWhoseFault

\* The forms of the UI answer 400 to every error.
LEMMA UisTell ==
    ASSUME NEW e \in Uis, NEW s \in Steps(e), NEW fault \in Faults(s)
    PROVE  TellsWhoseFault(e, s, fault, Status(Wrapped(e, StepError(s, fault))))
<1>1. s \in {"name", "put_file", "put_manifest", "put_ref", "ref", "delete_ref", "list", "live_refs",
             "orphan", "delete_blobs"}
  BY StepsOfWrites DEF Uis
<1>2. s \in AllSteps /\ s \notin {"summary", "results"}
  BY <1>1 DEF AllSteps, WriteSteps, ReadSteps, Skipped, Checks
<1>3. IF s \in Skipped THEN StepError(s, fault) = Fine ELSE StepError(s, fault) \in Failures
  BY <1>2, ErrorsOfFaults
<1>4. s \in Skipped => Status(Wrapped(e, StepError(s, fault))) = 200
  BY <1>3, PassedOn, StatusOfErrors
<1>5. s \notin Skipped => StepError(s, fault)[1] # "Api"
  BY <1>1 DEF StepError, WriteSteps, ReadSteps, Skipped, Checks, ByRenderOrJob, Storage, BadReference
<1>6. s \notin Skipped => Status(Wrapped(e, StepError(s, fault))) = 400
  <2>1. s \notin Skipped => Wrapped(e, StepError(s, fault)) = <<"Api", "BadRequest">>
    BY <1>3, <1>5, PassedOn DEF Uis
  <2>2. QED
    BY <2>1, StatusOfErrors
<1>7. QED
  <2>1. e \in {"uiPublish", "uiDelete"}
    BY DEF Uis
  <2>2. s \notin Skipped => Status(Wrapped(e, StepError(s, fault))) >= 400
    BY <1>6
  <2>3. QED
    BY <1>4, <2>1, <2>2, Zenon DEF TellsWhoseFault

\* Whatever step of whatever handler fails, the status tells whose fault it is.
\* (StatusTellsWhoseFault in Api.)
THEOREM SpecStatusTellsWhoseFault == ApiSpec => []StatusTellsWhoseFault
<1>1. Answered => StatusTellsWhoseFault
  <2> SUFFICES ASSUME Answered, Replied("request")
               PROVE  StatusTellsWhoseFault
    BY DEF StatusTellsWhoseFault
  <2> DEFINE e == question.request.endpoint
             s == question.request.step
             fault == question.request.fault
  <2>1. e \in DOMAIN Handler /\ s \in Steps(e) /\ fault \in Faults(s)
    <3>1. question.request \in Requests
      BY DEF Answered, Replied, ApiQuestions
    <3>2. QED
      BY <3>1, Zenon DEF Requests
  <2>2. answer = Status(Wrapped(e, StepError(s, fault)))
    BY Zenon DEF Answered, Replied, Respond
  <2> HIDE DEF e, s, fault
  <2>3. e \in Unwrapping \cup {"renders", "batch"} \cup Uis
    BY <2>1 DEF Handler, Unwrapping, Uis
  <2>4. TellsWhoseFault(e, s, fault, answer)
    <3>1. CASE e \in Unwrapping
      BY <2>1, <2>2, <3>1, PlainTells, Zenon
    <3>2. CASE e = "renders"
      <4>1. s = "summary"
        BY <2>1, <3>2, StepsOfPages
      <4>2. QED
        BY <2>1, <2>2, <3>2, <4>1, RendersTell, Zenon
    <3>3. CASE e = "batch"
      BY <2>1, <2>2, <3>3, BatchTells, Zenon
    <3>4. CASE e \in Uis
      BY <2>1, <2>2, <3>4, UisTell, Zenon
    <3>5. QED
      BY <2>3, <3>1, <3>2, <3>3, <3>4, Zenon
  <2>5. QED
    BY <2>4, Zenon DEF StatusTellsWhoseFault, TellsWhoseFault, e, s, fault
<1>2. QED
  BY <1>1, AlwaysAnswered, PTL

-----------------------------------------------------------------------------
(***************************************************************************)
(* The summary of a log: however long the log and however often it records  *)
(* a render, every table and every chart counts it once. A sum is a number   *)
(* of cells, a cell for each unit of each value, so that two ways of         *)
(* counting agree when there is a matching between what they count.          *)
(***************************************************************************)
\* f matches each element of S with one of T.
Matching(f, S, T) ==
    /\ f \in [S -> T]
    /\ \A a, b \in S : f[a] = f[b] => a = b
    /\ \A t \in T : \E s \in S : f[s] = t

\* Sets that are matched are of the same size.
LEMMA SameSize ==
    ASSUME NEW S, NEW T, NEW f, IsFiniteSet(S), Matching(f, S, T)
    PROVE  IsFiniteSet(T) /\ Cardinality(T) = Cardinality(S)
<1>1. f \in Injection(S, T)
  BY DEF Matching, Injection, IsInjective
<1>2. f \in Surjection(S, T)
  BY DEF Matching, Surjection
<1>3. ExistsBijection(S, T)
  BY <1>1, <1>2 DEF ExistsBijection, Bijection
<1>4. QED
  BY <1>3, FS_Bijection

\* A set can be counted.
LEMMA Counting ==
    ASSUME NEW S, IsFiniteSet(S)
    PROVE  /\ Cardinality(S) \in Nat
           /\ \E f : Matching(f, S, 1..Cardinality(S))
<1>1. Cardinality(S) \in Nat
  BY FS_CardinalityType
<1>2. Cardinality(1..Cardinality(S)) = Cardinality(S) /\ IsFiniteSet(1..Cardinality(S))
  BY <1>1, FS_Interval
<1>3. ExistsBijection(S, 1..Cardinality(S))
  BY <1>2, FS_SameCardinalityBij
<1>4. PICK f : f \in Bijection(S, 1..Cardinality(S))
  BY <1>3 DEF ExistsBijection
<1>5. Matching(f, S, 1..Cardinality(S))
  BY <1>4 DEF Matching, Bijection, Injection, Surjection, IsInjective
<1>6. QED
  BY <1>1, <1>5

Of(S, g, x) == {r \in S : g[r] = x}
\* table counts for each x the elements of S that belong to it, and each belongs somewhere.
Parts(table, S, g) ==
    /\ IsFiniteSet(S)
    /\ \A r \in S : g[r] \in DOMAIN table
    /\ \A x \in DOMAIN table : table[x] = Cardinality(Of(S, g, x))

\* What a cell is.
LEMMA InCells ==
    ASSUME NEW table, NEW x, NEW k
    PROVE  <<x, k>> \in Cells(table) <=> x \in DOMAIN table /\ k \in 1..table[x]
BY DEF Cells

\* A cell has a place and a number, and nothing else.
LEMMA CellsArePairs ==
    ASSUME NEW table, NEW c \in Cells(table)
    PROVE  \E x, k : x \in DOMAIN table /\ k \in 1..table[x] /\ c = <<x, k>>
BY DEF Cells

\* The counts of the parts add up to the count of the whole.
LEMMA PartsAddUp ==
    ASSUME NEW table, NEW S, NEW g, Parts(table, S, g)
    PROVE  Total(table) = Cardinality(S)
<1> DEFINE P(x) == Of(S, g, x)
           m == [x \in DOMAIN table |-> CHOOSE f : Matching(f, P(x), 1..table[x])]
           h == [r \in S |-> <<g[r], m[g[r]][r]>>]
<1>1. \A x \in DOMAIN table : Matching(m[x], P(x), 1..table[x])
  <2>1. ASSUME NEW x \in DOMAIN table PROVE Matching(m[x], P(x), 1..table[x])
    <3>1. P(x) \in SUBSET S /\ IsFiniteSet(S)
      BY DEF Of, Parts
    <3>2. IsFiniteSet(P(x))
      BY <3>1, FS_Subset
    <3>3. \E f : Matching(f, P(x), 1..table[x])
      BY <3>2, Counting DEF Parts
    <3>4. QED
      BY <3>3
  <2>2. QED
    BY <2>1
<1> HIDE DEF m
<1>2. \A r \in S : g[r] \in DOMAIN table /\ r \in P(g[r])
  BY DEF Parts, Of
<1>3. \A r \in S : m[g[r]][r] \in 1..table[g[r]]
  <2>1. ASSUME NEW r \in S PROVE m[g[r]][r] \in 1..table[g[r]]
    <3>1. m[g[r]] \in [P(g[r]) -> 1..table[g[r]]] /\ r \in P(g[r])
      BY <1>1, <1>2, Zenon DEF Matching
    <3>2. QED
      BY <3>1, Zenon
  <2>2. QED
    BY <2>1
<1>4. h \in [S -> Cells(table)]
  <2>1. \A r \in S : <<g[r], m[g[r]][r]>> \in Cells(table)
    BY <1>2, <1>3, InCells
  <2>2. QED
    BY <2>1
<1>5. \A a, b \in S : h[a] = h[b] => a = b
  <2>1. ASSUME NEW a \in S, NEW b \in S, h[a] = h[b] PROVE a = b
    <3>1. g[a] = g[b] /\ m[g[a]][a] = m[g[b]][b]
      BY <2>1
    <3>2. a \in P(g[a]) /\ b \in P(g[a]) /\ m[g[a]][a] = m[g[a]][b]
      BY <1>2, <3>1, Zenon
    <3>3. \A u, v \in P(g[a]) : m[g[a]][u] = m[g[a]][v] => u = v
      BY <1>1, <1>2, Zenon DEF Matching
    <3>4. QED
      BY <3>2, <3>3, Zenon
  <2>2. QED
    BY <2>1
<1>6. \A c \in Cells(table) : \E r \in S : h[r] = c
  <2>1. ASSUME NEW c \in Cells(table) PROVE \E r \in S : h[r] = c
    <3>1. PICK x, k : x \in DOMAIN table /\ k \in 1..table[x] /\ c = <<x, k>>
      BY CellsArePairs
    <3>2. PICK r \in P(x) : m[x][r] = k
      BY <1>1, <3>1, Zenon DEF Matching
    <3>3. r \in S /\ g[r] = x
      BY <3>2, Zenon DEF Of
    <3>4. h[r] = c
      BY <3>1, <3>2, <3>3
    <3>5. QED
      BY <3>3, <3>4
  <2>2. QED
    BY <2>1
<1>7. IsFiniteSet(S) /\ Matching(h, S, Cells(table))
  BY <1>4, <1>5, <1>6, Zenon DEF Matching, Parts
<1> HIDE DEF h
<1>8. QED
  BY <1>7, SameSize, Zenon DEF Total

-----------------------------------------------------------------------------
\* A table with a natural number for each of finitely many things.
Table(table) == IsFiniteSet(DOMAIN table) /\ \A x \in DOMAIN table : table[x] \in Nat

\* The values of a function on a finite set are finitely many.
LEMMA ImageFinite ==
    ASSUME NEW S, NEW T, NEW f, f \in Surjection(S, T), IsFiniteSet(S)
    PROVE  IsFiniteSet(T)
BY FS_Surjection

\* A finite table of naturals has finitely many cells.
LEMMA CellsFinite ==
    ASSUME NEW table, Table(table)
    PROVE  IsFiniteSet(Cells(table)) /\ Total(table) \in Nat
<1> DEFINE row(x) == {x} \X (1..table[x])
           T == {row(x) : x \in DOMAIN table}
           f == [x \in DOMAIN table |-> row(x)]
<1>1. f \in Surjection(DOMAIN table, T) /\ IsFiniteSet(DOMAIN table)
  BY DEF Surjection, Table
<1> HIDE DEF T, f
<1>2. IsFiniteSet(T)
  BY <1>1, ImageFinite, Zenon
<1>3. \A x \in DOMAIN table : IsFiniteSet(row(x))
  <2>1. ASSUME NEW x \in DOMAIN table PROVE IsFiniteSet(row(x))
    <3>1. IsFiniteSet({x})
      BY FS_Singleton, Zenon
    <3>2. table[x] \in Int /\ 1 \in Int
      BY DEF Table
    <3>3. IsFiniteSet(1..table[x])
      BY <3>2, FS_Interval, Zenon
    <3>4. QED
      BY <3>1, <3>3, FS_Product, Zenon
  <2>2. QED
    BY <2>1
<1>4. \A t \in T : IsFiniteSet(t)
  BY <1>3, Zenon DEF T
<1>5. Cells(table) = UNION T
  BY Zenon DEF Cells, T
<1>6. IsFiniteSet(Cells(table))
  BY <1>2, <1>4, <1>5, FS_UNION
<1>7. QED
  BY <1>6, FS_CardinalityType DEF Total

\* Renaming what is counted changes no total.
LEMMA TotalRenamed ==
    ASSUME NEW p, NEW A, NEW table, NEW other, Table(table),
           A = DOMAIN table, Matching(p, A, DOMAIN other), \A a \in A : other[p[a]] = table[a]
    PROVE  Total(other) = Total(table)
<1> DEFINE h == [c \in Cells(table) |-> <<p[c[1]], c[2]>>]
<1>1. \A c \in Cells(table) : c = <<c[1], c[2]>> /\ c[1] \in A /\ c[2] \in 1..table[c[1]]
  <2>1. ASSUME NEW c \in Cells(table)
        PROVE  c = <<c[1], c[2]>> /\ c[1] \in A /\ c[2] \in 1..table[c[1]]
    <3>1. PICK x, k : x \in DOMAIN table /\ k \in 1..table[x] /\ c = <<x, k>>
      BY CellsArePairs
    <3>2. QED
      BY <3>1
  <2>2. QED
    BY <2>1
<1>2. \A a \in A : p[a] \in DOMAIN other /\ other[p[a]] = table[a]
  BY DEF Matching
<1>3. h \in [Cells(table) -> Cells(other)]
  <2>1. \A c \in Cells(table) : <<p[c[1]], c[2]>> \in Cells(other)
    BY <1>1, <1>2, InCells
  <2>2. QED
    BY <2>1
<1>4. \A b, c \in Cells(table) : h[b] = h[c] => b = c
  <2>1. ASSUME NEW b \in Cells(table), NEW c \in Cells(table), h[b] = h[c] PROVE b = c
    <3>1. p[b[1]] = p[c[1]] /\ b[2] = c[2]
      BY <2>1
    <3>2. b[1] = c[1]
      <4>1. b[1] \in A /\ c[1] \in A
        BY <1>1, Zenon
      <4>2. \A u, v \in A : p[u] = p[v] => u = v
        BY Zenon DEF Matching
      <4>3. QED
        BY <3>1, <4>1, <4>2, Zenon
    <3>3. b = <<b[1], b[2]>>
      BY <1>1, Zenon
    <3>4. c = <<c[1], c[2]>>
      BY <1>1, Zenon
    <3>5. <<b[1], b[2]>> = <<c[1], c[2]>>
      BY <3>1, <3>2, Zenon
    <3>6. QED
      BY <3>3, <3>4, <3>5
  <2>2. QED
    BY <2>1
<1>5. \A d \in Cells(other) : \E c \in Cells(table) : h[c] = d
  <2>1. ASSUME NEW d \in Cells(other) PROVE \E c \in Cells(table) : h[c] = d
    <3>1. PICK y, k : y \in DOMAIN other /\ k \in 1..other[y] /\ d = <<y, k>>
      BY CellsArePairs
    <3>2. PICK a \in A : p[a] = y
      BY <3>1, Zenon DEF Matching
    <3>3. <<a, k>> \in Cells(table)
      BY <1>2, <3>1, <3>2, InCells
    <3>4. h[<<a, k>>] = d
      BY <3>1, <3>2, <3>3
    <3>5. QED
      BY <3>3, <3>4
  <2>2. QED
    BY <2>1
<1>6. Matching(h, Cells(table), Cells(other))
  BY <1>3, <1>4, <1>5, Zenon DEF Matching
<1> HIDE DEF h
<1>7. QED
  BY <1>6, CellsFinite, SameSize, Zenon DEF Total

Only(table, D) == [x \in D |-> table[x]]

\* A total is the total of one part and of the other.
LEMMA TotalSplit ==
    ASSUME NEW table, Table(table), NEW D, D \subseteq DOMAIN table
    PROVE  Total(table) = Total(Only(table, D)) + Total(Only(table, DOMAIN table \ D))
<1> DEFINE one == Only(table, D)
           two == Only(table, DOMAIN table \ D)
<1>1. Table(one) /\ Table(two)
  <2>1. IsFiniteSet(D) /\ IsFiniteSet(DOMAIN table \ D)
    BY FS_Subset DEF Table
  <2>2. QED
    BY <2>1 DEF Table, Only
<1>2. Cells(table) = Cells(one) \cup Cells(two)
  <2>1. \A x \in D : one[x] = table[x]
    BY DEF Only
  <2>2. \A x \in DOMAIN table \ D : two[x] = table[x]
    BY DEF Only
  <2>3. DOMAIN one = D /\ DOMAIN two = DOMAIN table \ D
    BY DEF Only
  <2> HIDE DEF one, two
  <2>4. ASSUME NEW c \in Cells(table) PROVE c \in Cells(one) \cup Cells(two)
    <3>1. PICK x, k : x \in DOMAIN table /\ k \in 1..table[x] /\ c = <<x, k>>
      BY CellsArePairs
    <3>2. CASE x \in D
      BY <2>1, <2>3, <3>1, <3>2, InCells
    <3>3. CASE x \notin D
      BY <2>2, <2>3, <3>1, <3>3, InCells
    <3>4. QED
      BY <3>2, <3>3
  <2>5. ASSUME NEW c \in Cells(one) PROVE c \in Cells(table)
    <3>1. PICK x, k : x \in DOMAIN one /\ k \in 1..one[x] /\ c = <<x, k>>
      BY CellsArePairs
    <3>2. QED
      BY <2>1, <2>3, <3>1, InCells
  <2>6. ASSUME NEW c \in Cells(two) PROVE c \in Cells(table)
    <3>1. PICK x, k : x \in DOMAIN two /\ k \in 1..two[x] /\ c = <<x, k>>
      BY CellsArePairs
    <3>2. QED
      BY <2>2, <2>3, <3>1, InCells
  <2>7. QED
    BY <2>4, <2>5, <2>6
<1>3. Cells(one) \cap Cells(two) = {}
  <2>1. DOMAIN one = D /\ DOMAIN two = DOMAIN table \ D
    BY DEF Only
  <2> HIDE DEF one, two
  <2>2. ASSUME NEW c \in Cells(one), c \in Cells(two) PROVE FALSE
    <3>1. PICK x, k : x \in DOMAIN one /\ k \in 1..one[x] /\ c = <<x, k>>
      BY CellsArePairs
    <3>2. PICK y, j : y \in DOMAIN two /\ j \in 1..two[y] /\ c = <<y, j>>
      BY <2>2, CellsArePairs
    <3>3. x = y
      BY <3>1, <3>2
    <3>4. QED
      BY <2>1, <3>1, <3>2, <3>3
  <2>3. QED
    BY <2>2
<1> HIDE DEF one, two
<1>4. /\ IsFiniteSet(Cells(one)) /\ Cardinality(Cells(one)) \in Nat
      /\ IsFiniteSet(Cells(two)) /\ Cardinality(Cells(two)) \in Nat
  BY <1>1, CellsFinite DEF Total
<1>5. Cardinality(Cells(table)) = Cardinality(Cells(one)) + Cardinality(Cells(two)) - Cardinality({})
  BY <1>2, <1>3, <1>4, FS_Union
<1>6. Cardinality(Cells(table)) = Cardinality(Cells(one)) + Cardinality(Cells(two))
  BY <1>4, <1>5, FS_EmptySet
<1>7. QED
  BY <1>6 DEF Total, one, two

\* The total of one entry, and of none.
LEMMA TotalOfOne ==
    ASSUME NEW x, NEW table, DOMAIN table = {x}, table[x] \in Nat
    PROVE  Total(table) = table[x]
<1>1. Cells(table) = {x} \X (1..table[x])
  BY DEF Cells
<1>2. IsFiniteSet({x}) /\ Cardinality({x}) = 1
  BY FS_Singleton
<1>3. IsFiniteSet(1..table[x]) /\ Cardinality(1..table[x]) = table[x]
  BY FS_Interval
<1>4. Cardinality({x} \X (1..table[x])) = Cardinality({x}) * Cardinality(1..table[x])
  BY <1>2, <1>3, FS_Product, Zenon
<1>5. Cardinality({x} \X (1..table[x])) = table[x]
  BY <1>2, <1>3, <1>4
<1>6. QED
  BY <1>1, <1>5 DEF Total

\* The sum of nothing.
LEMMA TotalOfNone ==
    ASSUME NEW table, DOMAIN table = {}
    PROVE  Total(table) = 0
<1>1. Cells(table) = {}
  BY DEF Cells
<1>2. QED
  BY <1>1, FS_EmptySet DEF Total

-----------------------------------------------------------------------------
\* Records as the aggregation reads them.
RecordSet(R) ==
    \A r \in R : /\ r.at \in Nat /\ r.template \in Nat \ {0} /\ r.tag \in Nat
                 /\ r.outcome.success \in BOOLEAN /\ r.outcome.ms \in Nat
LogOf(log, R) == RecordSet(R) /\ log \in Seq(R)

\* The times of a log have a bound.
LEMMA TimesBounded ==
    ASSUME NEW R, NEW log, LogOf(log, R)
    PROVE  \E b \in Nat : \A i \in DOMAIN log : log[i].at <= b
<1> DEFINE B == {n \in Nat : \E b \in Nat : \A i \in DOMAIN log : i <= n => log[i].at <= b}
<1>1. \A i \in DOMAIN log : log[i].at \in Nat /\ i \in 1..Len(log)
  BY DEF LogOf, RecordSet
<1>2. Len(log) \in Nat
  BY DEF LogOf
<1>3. 0 \in B
  <2>1. \A i \in DOMAIN log : ~(i <= 0)
    BY <1>1, <1>2
  <2>2. QED
    BY <2>1
<1>4. ASSUME NEW n \in Nat, n \in B PROVE n + 1 \in B
  <2>1. PICK b \in Nat : \A i \in DOMAIN log : i <= n => log[i].at <= b
    BY <1>4
  <2>2. CASE n + 1 \in DOMAIN log
    <3> DEFINE c == IF log[n + 1].at <= b THEN b ELSE log[n + 1].at
    <3>1. c \in Nat /\ b <= c /\ log[n + 1].at <= c
      BY <1>1, <2>2
    <3>2. ASSUME NEW i \in DOMAIN log, i <= n + 1 PROVE log[i].at <= c
      <4>1. i \in Nat /\ (i <= n \/ i = n + 1)
        BY <1>1, <1>2, <3>2
      <4>2. CASE i = n + 1
        BY <3>1, <4>2
      <4>3. CASE i <= n
        <5>1. log[i].at <= b /\ log[i].at \in Nat
          BY <1>1, <2>1, <4>3
        <5> HIDE DEF c
        <5>2. QED
          BY <3>1, <5>1
      <4>4. QED
        BY <4>1, <4>2, <4>3
    <3> HIDE DEF c
    <3>3. QED
      BY <3>1, <3>2
  <2>3. CASE n + 1 \notin DOMAIN log
    <3>1. \A i \in DOMAIN log : i <= n + 1 => i <= n
      BY <1>1, <1>2, <2>3
    <3>2. QED
      BY <2>1, <3>1
  <2>4. QED
    BY <2>2, <2>3
<1>5. \A n \in Nat : n \in B
  <2> HIDE DEF B
  <2>1. QED
    BY <1>3, <1>4, SetInduction
<1>6. PICK b \in Nat : \A i \in DOMAIN log : i <= Len(log) => log[i].at <= b
  BY <1>2, <1>5
<1>7. QED
  BY <1>1, <1>2, <1>6

IsLatest(log, i) ==
    \A j \in DOMAIN log :
        log[j].id = log[i].id => log[j].at < log[i].at \/ (log[j].at = log[i].at /\ j >= i)

\* What a record that is kept is: the first of the newest of its render.
LEMMA LatestAre ==
    ASSUME NEW log
    PROVE  \A r : r \in LatestRecords(log) <=> \E i \in DOMAIN log : IsLatest(log, i) /\ r = log[i]
BY DEF LatestRecords, IsLatest

\* Every render has a latest record.
LEMMA LatestExists ==
    ASSUME NEW R, NEW log, LogOf(log, R), NEW k \in DOMAIN log
    PROVE  \E i \in DOMAIN log : log[i].id = log[k].id /\ IsLatest(log, i)
<1> DEFINE I == {i \in DOMAIN log : log[i].id = log[k].id}
           B == {b \in Nat : \A i \in I : log[i].at <= b}
<1>1. \A i \in DOMAIN log : log[i].at \in Nat /\ i \in Nat
  BY DEF LogOf, RecordSet
<1>2. B # {} /\ B \in SUBSET Nat
  BY TimesBounded
<1>3. PICK b \in B : \A c \in B : b <= c
  BY <1>2, LeastNatural
<1>4. \E i \in I : log[i].at = b
  <2>1. SUFFICES ASSUME \A i \in I : log[i].at # b PROVE FALSE
    OBVIOUS
  <2>2. b \in Nat /\ \A i \in I : log[i].at <= b
    BY <1>3
  <2>3. \A i \in I : log[i].at < b
    <3>1. \A i \in I : log[i].at \in Nat
      BY <1>1
    <3>2. QED
      BY <2>1, <2>2, <3>1
  <2>4. b - 1 \in Nat /\ \A i \in I : log[i].at <= b - 1
    <3>1. \A i \in I : log[i].at \in Nat
      BY <1>1
    <3>2. k \in I
      OBVIOUS
    <3> HIDE DEF I
    <3>3. QED
      BY <2>2, <2>3, <3>1, <3>2
  <2>5. b - 1 \in B
    BY <2>4, Zenon
  <2>6. b <= b - 1
    BY <1>3, <2>5, Zenon
  <2>7. QED
    BY <2>2, <2>6
<1> DEFINE J == {i \in I : log[i].at = b}
<1>5. J # {} /\ J \in SUBSET Nat
  BY <1>1, <1>4
<1>6. PICK i \in J : \A j \in J : i <= j
  BY <1>5, LeastNatural
<1>7. i \in DOMAIN log /\ log[i].id = log[k].id /\ log[i].at = b
  OBVIOUS
<1>8. ASSUME NEW j \in DOMAIN log, log[j].id = log[i].id
      PROVE  log[j].at < log[i].at \/ (log[j].at = log[i].at /\ j >= i)
  <2>1. j \in I
    BY <1>7, <1>8
  <2>2. log[j].at <= b /\ log[j].at \in Nat /\ b \in Nat
    BY <1>1, <1>3, <2>1
  <2>3. log[j].at = b => j >= i
    <3>1. log[j].at = b => j \in J
      BY <2>1
    <3>2. i \in Nat /\ j \in Nat
      BY <1>1, <1>7
    <3>3. QED
      BY <1>6, <3>1, <3>2
  <2>4. QED
    BY <1>7, <2>2, <2>3
<1>9. QED
  BY <1>7, <1>8 DEF IsLatest

\* There is one record for each render, and it is the latest.
LEMMA OneRecordPerRender ==
    ASSUME NEW R, NEW log, LogOf(log, R)
    PROVE  /\ LatestRecords(log) \subseteq R
           /\ IsFiniteSet(LatestRecords(log))
           /\ \A r, q \in LatestRecords(log) : r.id = q.id => r = q
           /\ \A k \in DOMAIN log : \E r \in LatestRecords(log) : r.id = log[k].id /\ r.at >= log[k].at
           /\ Cardinality(LatestRecords(log)) = Cardinality(Ids(log))
<1> DEFINE S == LatestRecords(log)
           h == [r \in S |-> r.id]
<1>1. \A i \in DOMAIN log : log[i] \in R /\ log[i].at \in Nat /\ i \in Nat
  BY DEF LogOf, RecordSet
<1>2. S \subseteq R
  BY <1>1, LatestAre
<1>3. IsFiniteSet(S)
  <2> DEFINE E == {i \in DOMAIN log : IsLatest(log, i)}
             f == [i \in E |-> log[i]]
  <2>1. E \in SUBSET (1..Len(log)) /\ Len(log) \in Nat
    BY DEF LogOf
  <2>2. IsFiniteSet(1..Len(log))
    BY <2>1, FS_Interval
  <2> HIDE DEF E
  <2>3. IsFiniteSet(E)
    BY <2>1, <2>2, FS_Subset
  <2>4. f \in Surjection(E, S)
    <3>1. \A i \in E : log[i] \in S
      BY LatestAre DEF E
    <3>2. \A r \in S : \E i \in E : log[i] = r
      BY LatestAre DEF E
    <3> HIDE DEF S
    <3>3. QED
      BY <3>1, <3>2 DEF Surjection
  <2> HIDE DEF f, S
  <2>5. QED
    BY <2>3, <2>4, ImageFinite, Zenon
<1>4. ASSUME NEW r \in S, NEW q \in S, r.id = q.id PROVE r = q
  <2>1. PICK i \in DOMAIN log : IsLatest(log, i) /\ r = log[i]
    BY LatestAre
  <2>2. PICK j \in DOMAIN log : IsLatest(log, j) /\ q = log[j]
    BY LatestAre
  <2>3. log[j].at < log[i].at \/ (log[j].at = log[i].at /\ j >= i)
    BY <1>4, <2>1, <2>2 DEF IsLatest
  <2>4. log[i].at < log[j].at \/ (log[i].at = log[j].at /\ i >= j)
    BY <1>4, <2>1, <2>2 DEF IsLatest
  <2>5. log[i].at \in Nat /\ log[j].at \in Nat /\ i \in Nat /\ j \in Nat
    BY <1>1
  <2>6. i = j
    BY <2>3, <2>4, <2>5
  <2>7. QED
    BY <2>1, <2>2, <2>6
<1>5. ASSUME NEW k \in DOMAIN log
      PROVE  \E r \in S : r.id = log[k].id /\ r.at >= log[k].at
  <2>1. PICK i \in DOMAIN log : log[i].id = log[k].id /\ IsLatest(log, i)
    BY LatestExists
  <2>2. log[i] \in S
    BY <2>1, LatestAre
  <2>3. log[k].at < log[i].at \/ log[k].at = log[i].at
    BY <2>1 DEF IsLatest
  <2>4. log[i].at >= log[k].at
    BY <1>1, <2>3
  <2>5. QED
    BY <2>1, <2>2, <2>4
<1>6. Matching(h, S, Ids(log))
  <2>1. \A r \in S : r.id \in Ids(log)
    BY LatestAre DEF Ids
  <2>2. \A id \in Ids(log) : \E r \in S : r.id = id
    BY <1>5 DEF Ids
  <2> HIDE DEF S
  <2>3. QED
    BY <1>4, <2>1, <2>2 DEF Matching
<1> HIDE DEF S, h
<1>7. Cardinality(Ids(log)) = Cardinality(S)
  BY <1>3, <1>6, SameSize
<1>8. QED
  BY <1>2, <1>3, <1>4, <1>5, <1>7, Zenon DEF S

\* The rows of a table: their names tell them apart.
Rows(rows) ==
    /\ IsFiniteSet(rows)
    /\ \A row \in rows : row.renders \in Nat /\ row.name \in Nat
    /\ \A a, b \in rows : a.name = b.name => a = b

NotAfter(rows, row) == {other \in rows : ~ComesBefore(row, other)}

\* ComesBefore orders the rows.
LEMMA RowsAreOrdered ==
    ASSUME NEW rows, Rows(rows), NEW a \in rows, NEW b \in rows
    PROVE  /\ ~ComesBefore(a, a)
           /\ a # b => ComesBefore(a, b) \/ ComesBefore(b, a)
           /\ ComesBefore(a, b) =>
                 ~ComesBefore(b, a) /\ \A c \in rows : ComesBefore(b, c) => ComesBefore(a, c)
<1>1. \A c \in rows : c.renders \in Nat /\ c.name \in Nat
  BY DEF Rows
<1>2. a.name = b.name => a = b
  BY DEF Rows
<1>3. ~ComesBefore(a, a)
  BY <1>1 DEF ComesBefore
<1>4. a # b => ComesBefore(a, b) \/ ComesBefore(b, a)
  BY <1>1, <1>2 DEF ComesBefore
<1>5. ComesBefore(a, b) => ~ComesBefore(b, a)
  BY <1>1 DEF ComesBefore
<1>6. ComesBefore(a, b) => \A c \in rows : ComesBefore(b, c) => ComesBefore(a, c)
  BY <1>1 DEF ComesBefore
<1>7. QED
  BY <1>3, <1>4, <1>5, <1>6, Zenon

\* What comes later has more rows not after it.
LEMMA LaterHasMore ==
    ASSUME NEW rows, Rows(rows), NEW a \in rows, NEW b \in rows, ComesBefore(a, b)
    PROVE  Cardinality(NotAfter(rows, a)) # Cardinality(NotAfter(rows, b))
<1> DEFINE x == NotAfter(rows, a)
           y == NotAfter(rows, b)
<1>1. \A c \in rows : ComesBefore(b, c) => ComesBefore(a, c)
  BY RowsAreOrdered
<1>2. ~ComesBefore(b, b)
  BY RowsAreOrdered
<1>3. x \in SUBSET y /\ b \in y /\ b \notin x
  BY <1>1, <1>2 DEF NotAfter
<1>4. y \in SUBSET rows /\ IsFiniteSet(rows)
  BY DEF NotAfter, Rows
<1> HIDE DEF x, y
<1>5. IsFiniteSet(y)
  BY <1>4, FS_Subset
<1>6. Cardinality(y) = Cardinality(x) => y = x
  BY <1>3, <1>5, FS_Subset
<1>7. QED
  BY <1>3, <1>6 DEF x, y

\* Ranking leaves out no row and repeats none.
LEMMA RankedIsPermutation ==
    ASSUME NEW rows, Rows(rows)
    PROVE  /\ DOMAIN Ranked(rows) = 1..Cardinality(rows)
           /\ Matching(Ranked(rows), DOMAIN Ranked(rows), rows)
<1> DEFINE N == Cardinality(rows)
           C(row) == Cardinality(NotAfter(rows, row))
           f == [row \in rows |-> C(row)]
<1>1. IsFiniteSet(rows) /\ N \in Nat
  BY FS_CardinalityType DEF Rows
<1>2. ASSUME NEW row \in rows PROVE C(row) \in 1..N
  <2>1. NotAfter(rows, row) \in SUBSET rows /\ row \in NotAfter(rows, row)
    BY RowsAreOrdered DEF NotAfter
  <2>2. IsFiniteSet(NotAfter(rows, row)) /\ C(row) <= N
    BY <1>1, <2>1, FS_Subset
  <2>3. C(row) \in Nat
    BY <2>2, FS_CardinalityType
  <2>4. C(row) # 0
    BY <2>1, <2>2, FS_EmptySet
  <2> HIDE DEF C, N
  <2>5. QED
    BY <1>1, <2>2, <2>3, <2>4
<1>3. ASSUME NEW a \in rows, NEW b \in rows, C(a) = C(b) PROVE a = b
  <2>1. SUFFICES ASSUME a # b PROVE FALSE
    OBVIOUS
  <2>2. ComesBefore(a, b) \/ ComesBefore(b, a)
    BY <2>1, RowsAreOrdered
  <2>3. QED
    BY <1>3, <2>2, LaterHasMore
<1> HIDE DEF C
<1>4. f \in Injection(rows, 1..N)
  BY <1>2, <1>3 DEF Injection, IsInjective
<1>5. IsFiniteSet(1..N) /\ Cardinality(1..N) = N
  BY <1>1, FS_Interval
<1>6. f \in Surjection(rows, 1..N)
  <2> HIDE DEF f
  <2>1. QED
    BY <1>4, <1>5, FS_Injection
<1>7. \A n \in 1..N : \E row \in rows : C(row) = n
  BY <1>6 DEF Surjection
<1>8. Ranked(rows) = [n \in 1..N |-> CHOOSE row \in rows : C(row) = n]
  BY DEF Ranked, C, NotAfter
<1> DEFINE s == Ranked(rows)
<1>9. \A n \in 1..N : s[n] \in rows /\ C(s[n]) = n
  BY <1>7, <1>8
<1>10. DOMAIN s = 1..N
  BY <1>8
<1> HIDE DEF s, N
<1>11. s \in [1..N -> rows]
  BY <1>8, <1>9 DEF s
<1>12. \A n, m \in 1..N : s[n] = s[m] => n = m
  BY <1>9
<1>13. \A row \in rows : \E n \in 1..N : s[n] = row
  BY <1>2, <1>3, <1>9
<1>14. QED
  BY <1>10, <1>11, <1>12, <1>13, Zenon DEF Matching, s, N

-----------------------------------------------------------------------------
\* A list of the records of S, newest first.
Listing(list, S) ==
    /\ list \in Seq(S)
    /\ \A r \in S : \E i \in DOMAIN list : list[i] = r
    /\ \A i, j \in DOMAIN list : list[i] = list[j] => i = j
    /\ \A i, j \in DOMAIN list : i < j => list[i].at >= list[j].at

\* The order of the summary lists every record once, the newest first.
LEMMA NewestIsListing ==
    ASSUME NEW S, IsFiniteSet(S), NEW order \in NewestFirst(S)
    PROVE  Listing(order, S)
<1>1. Cardinality(S) \in Nat
  BY FS_CardinalityType
<1>2. order \in [1..Cardinality(S) -> S]
  BY DEF NewestFirst
<1>3. order \in Seq(S)
  BY <1>1, <1>2
<1>4. /\ \A r \in S : \E i \in DOMAIN order : order[i] = r /\ \A j \in DOMAIN order : order[j] = r => j = i
      /\ \A i, j \in DOMAIN order : i < j => order[i].at >= order[j].at
  BY DEF NewestFirst
<1>5. \A i, j \in DOMAIN order : order[i] = order[j] => i = j
  <2>1. \A i \in DOMAIN order : order[i] \in S
    BY <1>2
  <2>2. QED
    BY <1>4, <2>1, Zenon
<1>6. QED
  BY <1>3, <1>4, <1>5, Zenon DEF Listing

\* What is chosen from a listing is one.
LEMMA ChosenIsListing ==
    ASSUME NEW S, NEW order, Listing(order, S), NEW Q, Q \subseteq S
    PROVE  Listing(Chosen(order, Q), Q)
<1> DEFINE I == {i \in DOMAIN order : order[i] \in Q}
           places == Ascending(I)
           list == [n \in DOMAIN places |-> order[places[n]]]
<1>1. order \in Seq(S) /\ Len(order) \in Nat /\ DOMAIN order = 1..Len(order)
  BY DEF Listing
<1>2. I \subseteq 0..Len(order)
  BY <1>1
<1>3. /\ {places[n] : n \in DOMAIN places} = I
      /\ \A n, m \in DOMAIN places : n < m => places[n] < places[m]
  BY <1>1, <1>2, AscendingInOrder
<1>4. DOMAIN places = 1..Cardinality(I)
  BY DEF Ascending
<1>5. IsFiniteSet(I) /\ Cardinality(I) \in Nat
  <2>1. IsFiniteSet(0..Len(order))
    BY <1>1, FS_Interval
  <2> HIDE DEF I
  <2>2. IsFiniteSet(I)
    BY <1>2, <2>1, FS_Subset
  <2>3. QED
    BY <2>2, FS_CardinalityType
<1>6. Chosen(order, Q) = list
  BY DEF Chosen
<1> HIDE DEF places
<1>7. \A n \in DOMAIN places : places[n] \in I
  BY <1>3
<1>8. \A i \in I : i \in DOMAIN order /\ order[i] \in Q /\ i \in Nat
  BY <1>1
<1>9. \A i \in DOMAIN order : order[i] \in Q => i \in I
  OBVIOUS
<1> HIDE DEF I
<1>10. DOMAIN list = DOMAIN places /\ \A n \in DOMAIN list : list[n] = order[places[n]]
  OBVIOUS
<1>11. list \in Seq(Q)
  <2>1. list \in [1..Cardinality(I) -> Q]
    BY <1>4, <1>7, <1>8
  <2> HIDE DEF list
  <2>2. QED
    BY <1>5, <2>1
<1> HIDE DEF list
<1>12. \A r \in Q : \E n \in DOMAIN list : list[n] = r
  <2>1. ASSUME NEW r \in Q PROVE \E n \in DOMAIN list : list[n] = r
    <3>1. PICK i \in DOMAIN order : order[i] = r
      BY Zenon DEF Listing
    <3>2. i \in I
      BY <1>9, <2>1, <3>1, Zenon
    <3>3. PICK n \in DOMAIN places : places[n] = i
      BY <1>3, <3>2
    <3>4. QED
      BY <1>10, <3>1, <3>3
  <2>2. QED
    BY <2>1
<1>13. ASSUME NEW n \in DOMAIN list, NEW m \in DOMAIN list
       PROVE  /\ list[n] = list[m] => n = m
              /\ n < m => list[n].at >= list[m].at
  <2>1. list[n] = order[places[n]] /\ list[m] = order[places[m]]
    BY <1>10, <1>13, Zenon
  <2>2. places[n] \in DOMAIN order /\ places[m] \in DOMAIN order
    BY <1>7, <1>8, <1>10, <1>13, Zenon
  <2>3. n \in Nat /\ m \in Nat
    <3>1. n \in 1..Cardinality(I) /\ m \in 1..Cardinality(I)
      BY <1>4, <1>10, <1>13, Zenon
    <3>2. QED
      BY <1>5, <3>1
  <2>4. list[n] = list[m] => places[n] = places[m]
    <3>1. \A i, j \in DOMAIN order : order[i] = order[j] => i = j
      BY Zenon DEF Listing
    <3>2. QED
      BY <2>1, <2>2, <3>1, Zenon
  <2>5. places[n] = places[m] => n = m
    <3>1. ~(places[n] < places[m]) /\ ~(places[m] < places[n]) => ~(n < m) /\ ~(m < n)
      BY <1>3, <1>10, <1>13, Zenon
    <3>2. places[n] \in Nat /\ places[m] \in Nat
      BY <1>7, <1>8, <1>10, <1>13, Zenon
    <3>3. QED
      BY <2>3, <3>1, <3>2
  <2>6. n < m => places[n] < places[m]
    BY <1>3, <1>10, <1>13, Zenon
  <2>7. places[n] < places[m] => order[places[n]].at >= order[places[m]].at
    BY <2>2, Zenon DEF Listing
  <2>8. QED
    BY <2>1, <2>4, <2>5, <2>6, <2>7, Zenon
<1>14. QED
  BY <1>6, <1>11, <1>12, <1>13, Zenon DEF Listing

\* Records of different renders.
Distinct(S) ==
    /\ \A r \in S : r.at \in Nat
    /\ \A r, q \in S : r.id = q.id => r = q

\* The start of a listing keeps the newest.
LEMMA ListingKeepsNewest ==
    ASSUME NEW S, NEW order, Listing(order, S), Distinct(S)
    PROVE  KeepsNewest(FirstOf(FirstOf(order, RecentN), RecentN), S)
<1> DEFINE k == AtMost(RecentN, Len(order))
           list == FirstOf(FirstOf(order, RecentN), RecentN)
<1>1. order \in Seq(S) /\ Len(order) \in Nat /\ DOMAIN order = 1..Len(order)
  BY DEF Listing
<1>2. k \in Nat /\ k <= Len(order) /\ k <= RecentN
  BY <1>1, RecentNAssumption DEF AtMost
<1>3. /\ FirstOf(order, RecentN) \in Seq(S)
      /\ Len(FirstOf(order, RecentN)) = k
      /\ \A i \in 1..k : FirstOf(order, RecentN)[i] = order[i]
  <2> HIDE DEF k
  <2>1. SubSeq(order, 1, k) \in Seq(S) /\ Len(SubSeq(order, 1, k)) = k
           /\ \A i \in 1..k : SubSeq(order, 1, k)[i] = order[i]
    BY <1>1, <1>2
  <2>2. QED
    BY <2>1, Zenon DEF FirstOf, k
<1>4. AtMost(RecentN, k) = k
  <2>1. RecentN \in Nat
    BY RecentNAssumption
  <2> HIDE DEF k
  <2>2. QED
    BY <1>2, <2>1 DEF AtMost
<1> DEFINE first == FirstOf(order, RecentN)
<1>5. list = SubSeq(first, 1, k)
  BY <1>3, <1>4, Zenon DEF FirstOf
<1> HIDE DEF k, first
<1>6. /\ DOMAIN list = 1..k
      /\ \A i \in 1..k : list[i] = order[i]
  <2>1. first \in Seq(S) /\ Len(first) = k /\ \A i \in 1..k : first[i] = order[i]
    BY <1>3, Zenon DEF first
  <2>2. Len(SubSeq(first, 1, k)) = k /\ DOMAIN SubSeq(first, 1, k) = 1..k
           /\ \A i \in 1..k : SubSeq(first, 1, k)[i] = first[i]
    BY <1>2, <2>1
  <2>3. QED
    BY <1>5, <2>1, <2>2, Zenon
<1> HIDE DEF list
<1>7. \A i \in 1..k : i \in DOMAIN order /\ i \in Nat /\ order[i] \in S
  BY <1>1, <1>2
<1>8. ASSUME NEW i \in 1..k, NEW r \in S, r.at > list[i].at
      PROVE  \E j \in 1..i : list[j].id = r.id
  <2>1. PICK p \in DOMAIN order : order[p] = r
    BY Zenon DEF Listing
  <2>2. p \in Nat /\ i \in Nat /\ 1 <= p
    BY <1>1, <1>7
  <2>3. order[i].at \in Nat /\ order[p].at \in Nat /\ order[p].at > order[i].at
    <3>1. order[i] \in S /\ list[i] = order[i]
      BY <1>6, <1>7, Zenon
    <3>2. order[i].at \in Nat /\ r.at \in Nat
      BY <3>1, Zenon DEF Distinct
    <3>3. QED
      BY <1>8, <2>1, <3>1, <3>2
  <2>4. i < p => order[i].at >= order[p].at
    BY <1>7, <2>1, Zenon DEF Listing
  <2>5. p <= i
    BY <2>2, <2>3, <2>4
  <2>6. p \in 1..i /\ p \in 1..k
    BY <1>2, <2>2, <2>5
  <2>7. QED
    BY <1>6, <2>1, <2>6
<1>9. ASSUME NEW i \in 1..k, NEW j \in 1..k, list[i].id = list[j].id PROVE i = j
  <2>1. order[i] \in S /\ order[j] \in S /\ order[i].id = order[j].id
    BY <1>6, <1>7, <1>9
  <2>2. order[i] = order[j]
    BY <2>1, Zenon DEF Distinct
  <2>3. QED
    BY <1>7, <2>2, Zenon DEF Listing
<1>10. QED
  BY <1>6, <1>8, <1>9, Zenon DEF KeepsNewest, list

\* A finite set of records.
Some(S) == IsFiniteSet(S) /\ RecordSet(S)

\* A table counts the renders of S by the days that it has.
ByDay(table, S, D) ==
    /\ DOMAIN table = {d \in {Day(r.at) : r \in S} : d \in D}
    /\ \A d \in DOMAIN table : table[d] = Cardinality(OfDay(S, d))
\* A table by day adds up to the records of its days.
LEMMA DaysAddUp ==
    ASSUME NEW S, Some(S), NEW table, NEW D, ByDay(table, S, D)
    PROVE  Total(table) = Cardinality({r \in S : Day(r.at) \in D})
<1> DEFINE Q == {r \in S : Day(r.at) \in D}
           g == [r \in Q |-> Day(r.at)]
<1>1. IsFiniteSet(Q)
  BY FS_Subset DEF Some
<1>2. \A r \in Q : g[r] \in DOMAIN table
  BY DEF ByDay
<1>3. \A d \in DOMAIN table : OfDay(S, d) = Of(Q, g, d)
  <2>1. ASSUME NEW d \in DOMAIN table PROVE OfDay(S, d) = Of(Q, g, d)
    <3>1. d \in D
      BY DEF ByDay
    <3>2. \A r \in S : Day(r.at) = d <=> r \in Q /\ g[r] = d
      BY <3>1
    <3>3. \A r \in Q : r \in S
      OBVIOUS
    <3> HIDE DEF Q, g
    <3>4. QED
      BY <3>2, <3>3, Zenon DEF OfDay, Of
  <2>2. QED
    BY <2>1
<1> HIDE DEF Q, g
<1>4. Parts(table, Q, g)
  BY <1>1, <1>2, <1>3 DEF Parts, ByDay
<1>5. QED
  BY <1>4, PartsAddUp, Zenon DEF Q

\* Volume counts each render once.
LEMMA VolumeAddsUp ==
    ASSUME NEW S, Some(S)
    PROVE  Renders(Volume(S)) = Cardinality(S)
<1> DEFINE D == {Day(r.at) : r \in S}
           table == [d \in DOMAIN Volume(S) |-> Volume(S)[d].renders]
<1>1. DOMAIN table = {d \in {Day(r.at) : r \in S} : d \in D}
  BY DEF Volume
<1>2. \A d \in DOMAIN table : table[d] = Cardinality(OfDay(S, d))
  BY DEF Volume
<1>3. {r \in S : Day(r.at) \in D} = S
  OBVIOUS
<1> HIDE DEF D, table
<1>4. Total(table) = Cardinality({r \in S : Day(r.at) \in D})
  <2>1. ByDay(table, S, D)
    BY <1>1, <1>2, Zenon DEF ByDay
  <2>2. QED
    BY <2>1, DaysAddUp, Zenon
<1>5. QED
  BY <1>3, <1>4, Zenon DEF Renders, table

\* The last days have the renders of the last 24 hours.
LEMMA WindowIsCounted ==
    ASSUME NEW S, Some(S)
    PROVE  Cardinality({r \in S : r.at >= Now - DayLength}) <= Renders(Since(Volume(S), 1))
<1> DEFINE D == {d \in Nat : d >= Day(Now) - 1}
           since == Since(Volume(S), 1)
           table == [d \in DOMAIN since |-> since[d].renders]
           Q == {r \in S : Day(r.at) \in D}
           window == {r \in S : r.at >= Now - DayLength}
<1>1. \A r \in S : r.at \in Nat /\ Day(r.at) \in Nat
  <2>1. \A n \in Nat : n \div 2 \in Nat
    OBVIOUS
  <2>2. \A r \in S : r.at \in Nat
    BY DEF Some, RecordSet
  <2>3. QED
    BY <2>1, <2>2 DEF Day, DayLength
<1>2. DOMAIN since = {d \in {Day(r.at) : r \in S} : d \in D}
  BY <1>1 DEF Since, Volume
<1>3. \A d \in DOMAIN since : since[d].renders = Cardinality(OfDay(S, d))
  BY DEF Since, Volume
<1> HIDE DEF since
<1>4. ByDay(table, S, D)
  BY <1>2, <1>3, Zenon DEF ByDay
<1>5. window \in SUBSET Q
  BY <1>1 DEF Day, Now, DayLength
<1>6. IsFiniteSet(Q)
  BY FS_Subset DEF Some
<1> HIDE DEF table, Q, window, D
<1>7. Total(table) = Cardinality(Q)
  BY <1>4, DaysAddUp, Zenon DEF Q
<1>8. Cardinality(window) <= Cardinality(Q)
  BY <1>5, <1>6, FS_Subset
<1>9. QED
  BY <1>7, <1>8 DEF Renders, since, table, window

-----------------------------------------------------------------------------
\* The rows count the elements of S by name.
Counted(rows, S, name) ==
    /\ Rows(rows) /\ IsFiniteSet(S)
    /\ \A row \in rows : row.renders = Cardinality(Of(S, name, row.name))
    /\ \A r \in S : \E row \in rows : row.name = name[r]

\* To order the rows leaves their sum.
LEMMA RankedAddUp ==
    ASSUME NEW rows, NEW S, NEW name, Counted(rows, S, name)
    PROVE  Renders(Ranked(rows)) = Cardinality(S)
<1> DEFINE s == Ranked(rows)
           table == [n \in DOMAIN s |-> s[n].renders]
           g == [r \in S |-> CHOOSE n \in DOMAIN s : s[n].name = name[r]]
<1>1. Matching(s, DOMAIN s, rows)
  <2>1. Rows(rows)
    BY DEF Counted
  <2>2. QED
    BY <2>1, RankedIsPermutation, Zenon
<1>2. \A r \in S : \E n \in DOMAIN s : s[n].name = name[r]
  BY <1>1 DEF Matching, Counted
<1>3. \A n \in DOMAIN s : s[n] \in rows
  BY <1>1 DEF Matching
<1>4. ASSUME NEW n \in DOMAIN s, NEW m \in DOMAIN s, s[n].name = s[m].name PROVE n = m
  <2>1. s[n] = s[m]
    BY <1>3, <1>4, Zenon DEF Counted, Rows
  <2>2. QED
    BY <1>1, <2>1, Zenon DEF Matching
<1> HIDE DEF s
<1>5. \A r \in S : g[r] \in DOMAIN s /\ s[g[r]].name = name[r]
  BY <1>2
<1> HIDE DEF g
<1>6. \A n \in DOMAIN s : Of(S, name, s[n].name) = Of(S, g, n)
  <2>1. ASSUME NEW n \in DOMAIN s PROVE Of(S, name, s[n].name) = Of(S, g, n)
    <3>1. \A r \in S : name[r] = s[n].name <=> g[r] = n
      BY <1>4, <1>5
    <3>2. QED
      BY <3>1, Zenon DEF Of
  <2>2. QED
    BY <2>1
<1>7. \A n \in DOMAIN table : table[n] = Cardinality(Of(S, g, n))
  BY <1>3, <1>6, Zenon DEF Counted
<1>8. IsFiniteSet(S) /\ \A r \in S : g[r] \in DOMAIN table
  BY <1>5, Zenon DEF Counted
<1> HIDE DEF table
<1>9. Parts(table, S, g)
  BY <1>7, <1>8, Zenon DEF Parts
<1>10. QED
  BY <1>9, PartsAddUp, Zenon DEF Renders, table, s

\* Rows that are made from the names.
LEMMA CountingRows ==
    ASSUME NEW S, IsFiniteSet(S), NEW name, \A r \in S : name[r] \in Nat,
           NEW rows, NEW row,
           rows = {row[x] : x \in {name[r] : r \in S}},
           \A x \in Nat : row[x].name = x /\ row[x].renders = Cardinality(Of(S, name, x))
    PROVE  Counted(rows, S, name)
<1> DEFINE f == [r \in S |-> row[name[r]]]
<1>1. f \in Surjection(S, rows)
  BY DEF Surjection
<1> HIDE DEF f
<1>2. IsFiniteSet(rows)
  BY <1>1, ImageFinite, Zenon
<1>3. \A a \in rows : \E x \in Nat : a = row[x]
  OBVIOUS
<1>4. \A x \in Nat : Cardinality(Of(S, name, x)) \in Nat
  <2>1. ASSUME NEW x \in Nat PROVE Cardinality(Of(S, name, x)) \in Nat
    <3>1. Of(S, name, x) \in SUBSET S
      BY DEF Of
    <3>2. IsFiniteSet(Of(S, name, x))
      BY <3>1, FS_Subset
    <3>3. QED
      BY <3>2, FS_CardinalityType
  <2>2. QED
    BY <2>1
<1>5. \A a \in rows : a.renders \in Nat /\ a.name \in Nat /\ a.renders = Cardinality(Of(S, name, a.name))
  BY <1>3, <1>4
<1>6. \A a, b \in rows : a.name = b.name => a = b
  BY <1>3
<1>7. \A r \in S : \E a \in rows : a.name = name[r]
  OBVIOUS
<1>8. QED
  BY <1>2, <1>5, <1>6, <1>7, Zenon DEF Counted, Rows

TagRow(S, x) == [name |-> x, renders |-> Cardinality({r \in S : r.tag = x})]

\* Tags count each render once.
LEMMA TagsAddUp ==
    ASSUME NEW S, Some(S)
    PROVE  Renders(Tags(S)) = Cardinality(S)
<1> DEFINE name == [r \in S |-> r.tag]
           row == [x \in Nat |-> TagRow(S, x)]
           rows == {TagRow(S, x) : x \in {r.tag : r \in S}}
<1>1. IsFiniteSet(S) /\ \A r \in S : r.tag \in Nat
  BY DEF Some, RecordSet
<1>2. \A r \in S : name[r] \in Nat
  BY <1>1
<1>3. rows = {row[x] : x \in {name[r] : r \in S}}
  BY <1>1
<1>4. \A x \in Nat : row[x].name = x /\ row[x].renders = Cardinality(Of(S, name, x))
  <2>1. ASSUME NEW x \in Nat
        PROVE  row[x].name = x /\ row[x].renders = Cardinality(Of(S, name, x))
    <3>1. row[x].name = x /\ row[x].renders = Cardinality({r \in S : r.tag = x})
      BY DEF TagRow
    <3>2. Of(S, name, x) = {r \in S : r.tag = x}
      BY DEF Of
    <3>3. QED
      BY <3>1, <3>2
  <2>2. QED
    BY <2>1
<1>5. Tags(S) = Ranked(rows)
  BY Zenon DEF Tags, TagRow
<1> HIDE DEF name, row, rows
<1>6. Counted(rows, S, name)
  BY <1>1, <1>2, <1>3, <1>4, CountingRows, Zenon
<1>7. QED
  BY <1>5, <1>6, RankedAddUp, Zenon

TemplateRow(order, S, t) ==
    [name |-> t, renders |-> Cardinality(OfTemplate(S, t)), tags |-> Tags(OfTemplate(S, t)),
     recent |-> FirstOf(Chosen(order, OfTemplate(S, t)), RecentN)]
TemplateRows(order, S) == {TemplateRow(order, S, t) : t \in {r.template : r \in S}}

\* The table of the templates counts each render once.
LEMMA TemplatesAddUp ==
    ASSUME NEW S, Some(S), NEW order
    PROVE  /\ TemplateTable(order, S) = Ranked(TemplateRows(order, S))
           /\ Rows(TemplateRows(order, S))
           /\ Renders(TemplateTable(order, S)) = Cardinality(S)
<1> DEFINE name == [r \in S |-> r.template]
           row == [x \in Nat |-> TemplateRow(order, S, x)]
           rows == TemplateRows(order, S)
<1>1. IsFiniteSet(S) /\ \A r \in S : r.template \in Nat
  BY DEF Some, RecordSet
<1>2. \A r \in S : name[r] \in Nat
  BY <1>1
<1>3. rows = {row[x] : x \in {name[r] : r \in S}}
  BY <1>1 DEF TemplateRows
<1>4. \A x \in Nat : row[x].name = x /\ row[x].renders = Cardinality(Of(S, name, x))
  <2>1. ASSUME NEW x \in Nat
        PROVE  row[x].name = x /\ row[x].renders = Cardinality(Of(S, name, x))
    <3>1. row[x].name = x /\ row[x].renders = Cardinality(OfTemplate(S, x))
      BY DEF TemplateRow
    <3>2. Of(S, name, x) = OfTemplate(S, x)
      BY DEF Of, OfTemplate
    <3>3. QED
      BY <3>1, <3>2
  <2>2. QED
    BY <2>1
<1>5. TemplateTable(order, S) = Ranked(rows)
  BY Zenon DEF TemplateTable, TemplateRow, TemplateRows
<1> HIDE DEF name, row, rows
<1>6. Counted(rows, S, name)
  BY <1>1, <1>2, <1>3, <1>4, CountingRows, Zenon
<1>7. Renders(TemplateTable(order, S)) = Cardinality(S)
  BY <1>5, <1>6, RankedAddUp, Zenon
<1>8. QED
  BY <1>5, <1>6, <1>7, Zenon DEF Counted, rows

\* The highest of numbers that have a bound.
LEMMA HighestIs ==
    ASSUME NEW V, V \subseteq Nat, NEW b \in Nat, \A v \in V : v <= b
    PROVE  Highest(V) \in V \cup {0} /\ \A w \in V : w <= Highest(V)
<1> DEFINE T == {c \in Nat : \A w \in V : w <= c}
<1>1. T # {} /\ T \in SUBSET Nat
  OBVIOUS
<1>2. PICK c \in T : \A d \in T : c <= d
  BY <1>1, LeastNatural
<1>3. c \in Nat /\ \A w \in V : w <= c
  OBVIOUS
<1>4. c \in V \cup {0}
  <2>1. SUFFICES ASSUME c \notin V, c # 0 PROVE FALSE
    OBVIOUS
  <2>2. c - 1 \in Nat /\ \A w \in V : w <= c - 1
    <3>1. \A w \in V : w \in Nat /\ w # c /\ w <= c
      BY <1>3, <2>1
    <3>2. QED
      BY <1>3, <2>1, <3>1
  <2>3. c - 1 \in T
    BY <2>2, Zenon
  <2>4. c <= c - 1
    BY <1>2, <2>3, Zenon
  <2>5. QED
    BY <1>3, <2>4
<1>5. \E v \in V \cup {0} : \A w \in V : w <= v
  BY <1>3, <1>4
<1>6. QED
  BY <1>5 DEF Highest

\* A part of a finite set.
LEMMA PartIsCounted ==
    ASSUME NEW S, IsFiniteSet(S), NEW Q, Q \subseteq S
    PROVE  /\ IsFiniteSet(Q) /\ Cardinality(Q) \in Nat /\ Cardinality(Q) <= Cardinality(S)
           /\ Cardinality(S \ Q) = Cardinality(S) - Cardinality(Q)
           /\ Cardinality(S) \in Nat
           /\ \A x \in Q : Cardinality(Q) > 0
<1>1. Q \in SUBSET S /\ S \cap Q = Q
  OBVIOUS
<1>2. IsFiniteSet(Q) /\ Cardinality(Q) <= Cardinality(S)
  BY <1>1, FS_Subset
<1>3. Cardinality(Q) \in Nat /\ Cardinality(S) \in Nat
  BY <1>2, FS_CardinalityType
<1>4. Cardinality(S \ Q) = Cardinality(S) - Cardinality(S \cap Q)
  BY FS_Difference
<1>5. ASSUME NEW x \in Q PROVE Cardinality(Q) > 0
  <2>1. Cardinality(Q) # 0
    BY <1>2, FS_EmptySet
  <2>2. QED
    BY <1>3, <2>1
<1>6. QED
  BY <1>1, <1>2, <1>3, <1>4, <1>5

\* The bars count the successes of each day.
BarOf(bar, S, d) ==
    /\ bar.ok = Cardinality(OfDay(Succeeded(S), d))
    /\ bar.ok \in Nat
    /\ bar.height \in 0..100

\* What the bar of a day is.
LEMMA BarsAre ==
    ASSUME NEW S, Some(S)
    PROVE  /\ \A d \in DOMAIN OutcomeBars(Volume(S)) : BarOf(OutcomeBars(Volume(S))[d], S, d)
           /\ \A r \in S : Day(r.at) \in DOMAIN OutcomeBars(Volume(S))
<1> DEFINE vol == Volume(S)
           V == {vol[day].renders : day \in DOMAIN vol}
           max == Highest(V)
           bars == OutcomeBars(vol)
<1>1. IsFiniteSet(S) /\ Cardinality(S) \in Nat
  BY FS_CardinalityType DEF Some
<1>2. DOMAIN vol = {Day(r.at) : r \in S}
         /\ \A d \in DOMAIN vol : /\ vol[d].renders = Cardinality(OfDay(S, d))
                                  /\ vol[d].failures = Cardinality(Failed(OfDay(S, d)))
  BY DEF Volume
<1>3. \A d : OfDay(S, d) \subseteq S
  BY DEF OfDay
<1>4. \A d : IsFiniteSet(OfDay(S, d)) /\ Cardinality(OfDay(S, d)) \in Nat
             /\ Cardinality(OfDay(S, d)) <= Cardinality(S)
  BY <1>1, <1>3, PartIsCounted
<1>5. V \subseteq Nat /\ \A v \in V : v <= Cardinality(S)
  BY <1>2, <1>4
<1>6. max \in Nat /\ \A d \in DOMAIN vol : vol[d].renders <= max
  <2> HIDE DEF V
  <2>1. max \in V \cup {0} /\ \A w \in V : w <= max
    BY <1>1, <1>5, HighestIs
  <2>2. max \in Nat
    <3>1. max \in V \/ max = 0
      BY <2>1, Zenon
    <3>2. \A v \in V : v \in Nat
      BY <1>5
    <3> HIDE DEF max
    <3>3. QED
      BY <3>1, <3>2
  <2>3. \A d \in DOMAIN vol : vol[d].renders \in V
    BY Zenon DEF V
  <2> HIDE DEF vol, max
  <2>4. QED
    BY <2>1, <2>2, <2>3, Zenon
<1>7. \A r \in S : Day(r.at) \in DOMAIN vol /\ vol[Day(r.at)].renders > 0
  <2>1. ASSUME NEW r \in S PROVE Day(r.at) \in DOMAIN vol /\ vol[Day(r.at)].renders > 0
    <3>1. r \in OfDay(S, Day(r.at))
      BY DEF OfDay
    <3>2. Cardinality(OfDay(S, Day(r.at))) > 0
      BY <1>1, <1>3, <3>1, PartIsCounted
    <3>3. QED
      BY <1>2, <3>2
  <2>2. QED
    BY <2>1
<1>8. bars = IF max = 0 THEN <<>>
             ELSE [day \in DOMAIN vol |->
                     [ok |-> vol[day].renders - vol[day].failures, failed |-> vol[day].failures,
                      height |-> (100 * vol[day].renders) \div max]]
  BY DEF OutcomeBars
<1> HIDE DEF vol, max, bars
<1>9. ASSUME NEW d \in DOMAIN bars PROVE BarOf(bars[d], S, d)
  <2>1. max # 0 /\ d \in DOMAIN vol
    BY <1>8
  <2>2. /\ bars[d].ok = vol[d].renders - vol[d].failures
        /\ bars[d].height = (100 * vol[d].renders) \div max
    BY <1>8, <2>1
  <2>3. vol[d].renders \in Nat /\ vol[d].renders <= max /\ max \in Nat
    BY <1>2, <1>4, <1>6, <2>1
  <2>4. bars[d].height \in 0..100
    <3>1. \A a, b \in Nat : a <= b /\ b # 0 => (100 * a) \div b \in 0..100
      <4>1. SUFFICES ASSUME NEW a \in Nat, NEW b \in Nat, a <= b, b # 0
                     PROVE  (100 * a) \div b \in 0..100
        OBVIOUS
      <4> DEFINE q == (100 * a) \div b
      <4>2. q \in Int /\ b * q <= 100 * a /\ 100 * a < b * q + b
        BY <4>1
      <4>3. 100 * a \in Nat /\ 100 * a <= b * 100
        BY <4>1
      <4> HIDE DEF q
      <4>4. q >= 0
        BY <4>1, <4>2, <4>3
      <4>5. q <= 100
        BY <4>1, <4>2, <4>3
      <4>6. QED
        BY <4>2, <4>4, <4>5 DEF q
    <3>2. QED
      BY <2>1, <2>2, <2>3, <3>1
  <2>5. bars[d].ok = Cardinality(OfDay(Succeeded(S), d)) /\ bars[d].ok \in Nat
    <3> DEFINE Q == OfDay(S, d)
               good == Succeeded(Q)
    <3>1. good \subseteq Q /\ Failed(Q) = Q \ good /\ IsFiniteSet(Q)
      BY <1>4 DEF Succeeded, Failed
    <3>2. good = OfDay(Succeeded(S), d)
      BY DEF OfDay, Succeeded
    <3>3. vol[d].renders = Cardinality(Q) /\ vol[d].failures = Cardinality(Failed(Q))
      BY <1>2, <2>1
    <3> HIDE DEF Q, good
    <3>4. Cardinality(Q \ good) = Cardinality(Q) - Cardinality(good)
             /\ Cardinality(Q) \in Nat /\ Cardinality(good) \in Nat
      BY <3>1, PartIsCounted
    <3>5. bars[d].ok = Cardinality(good) /\ Cardinality(good) \in Nat
      BY <2>2, <3>1, <3>3, <3>4
    <3>6. QED
      BY <3>2, <3>5
  <2>6. QED
    BY <2>4, <2>5, Zenon DEF BarOf
<1>10. \A r \in S : Day(r.at) \in DOMAIN bars
  <2>1. ASSUME NEW r \in S PROVE Day(r.at) \in DOMAIN bars
    <3>1. Day(r.at) \in DOMAIN vol /\ vol[Day(r.at)].renders > 0 /\ vol[Day(r.at)].renders <= max
      BY <1>6, <1>7
    <3>2. vol[Day(r.at)].renders \in Nat
      BY <1>2, <1>4, <3>1
    <3>3. max # 0
      BY <1>6, <3>1, <3>2
    <3>4. QED
      BY <1>8, <3>1, <3>3
  <2>2. QED
    BY <2>1
<1>11. QED
  BY <1>9, <1>10, Zenon DEF bars, vol

\* The bars add up to the renders that succeeded.
LEMMA BarsAddUp ==
    ASSUME NEW S, Some(S), NEW bars, bars = OutcomeBars(Volume(S))
    PROVE  Total([d \in DOMAIN bars |-> bars[d].ok]) = Cardinality(Succeeded(S))
<1> DEFINE good == Succeeded(S)
           g == [r \in good |-> Day(r.at)]
           table == [d \in DOMAIN bars |-> bars[d].ok]
<1>1. IsFiniteSet(good) /\ good \subseteq S
  <2>1. good \subseteq S /\ IsFiniteSet(S)
    BY DEF Succeeded, Some
  <2>2. QED
    BY <2>1, PartIsCounted
<1> HIDE DEF good
<1>2. \A d \in DOMAIN bars : bars[d].ok = Cardinality(OfDay(good, d))
  BY BarsAre, Zenon DEF BarOf, good
<1>3. \A r \in good : g[r] \in DOMAIN table
  <2>1. \A r \in S : Day(r.at) \in DOMAIN bars
    BY BarsAre, Zenon
  <2>2. QED
    BY <1>1, <2>1
<1>4. \A d : OfDay(good, d) = Of(good, g, d)
  BY DEF OfDay, Of
<1>5. \A d \in DOMAIN table : table[d] = Cardinality(Of(good, g, d))
  BY <1>2, <1>4
<1> HIDE DEF g, table
<1>6. Parts(table, good, g)
  BY <1>1, <1>3, <1>5, Zenon DEF Parts
<1>7. QED
  BY <1>6, PartsAddUp, Zenon DEF table, good

\* The buckets that are drawn count each success once.
LEMMA HistogramAddsUp ==
    ASSUME NEW S, Some(S)
    PROVE  Total(HistogramBar(Histogram(S))) = Cardinality(Succeeded(S))
<1> DEFINE good == Succeeded(S)
           hist == Histogram(S)
           table == HistogramBar(hist)
           g == [r \in good |-> Bucket(r.outcome.ms)]
<1>1. IsFiniteSet(good)
  <2>1. good \subseteq S /\ IsFiniteSet(S)
    BY DEF Succeeded, Some
  <2>2. QED
    BY <2>1, PartIsCounted
<1>2. \A r \in good : r.outcome.ms \in Nat
  BY DEF Succeeded, Some, RecordSet
<1>3. \A ms \in Nat : Bucket(ms) \in 1..Len(Edges) + 1
  <2>1. ASSUME NEW ms \in Nat PROVE Bucket(ms) \in 1..Len(Edges) + 1
    <3> DEFINE above == {i \in DOMAIN Edges : ms >= Edges[i]}
    <3>1. DOMAIN Edges = 1..5 /\ Len(Edges) = 5
      BY DEF Edges
    <3>2. IsFiniteSet(1..5) /\ Cardinality(1..5) = 5
      <4>1. 1 \in Int /\ 5 \in Int
        OBVIOUS
      <4>2. IsFiniteSet(1..5) /\ Cardinality(1..5) = IF 1 > 5 THEN 0 ELSE 5 - 1 + 1
        BY <4>1, FS_Interval, Zenon
      <4>3. QED
        BY <4>2
    <3>3. above \subseteq 1..5
      BY <3>1
    <3> HIDE DEF above
    <3>4. Cardinality(above) \in Nat /\ Cardinality(above) <= 5
      BY <3>2, <3>3, PartIsCounted
    <3>5. QED
      BY <3>1, <3>4 DEF Bucket, above
  <2>2. QED
    BY <2>1
<1>4. DOMAIN hist = 1..Len(Edges) + 1
         /\ \A b \in DOMAIN hist : hist[b] = Cardinality({r \in good : Bucket(r.outcome.ms) = b})
  BY DEF Histogram
<1>5. \A b : {r \in good : Bucket(r.outcome.ms) = b} = Of(good, g, b)
  BY DEF Of
<1>6. DOMAIN table = {b \in DOMAIN hist : hist[b] > 0} /\ \A b \in DOMAIN table : table[b] = hist[b]
  BY DEF HistogramBar
<1>7. \A r \in good : g[r] = Bucket(r.outcome.ms)
  OBVIOUS
<1> HIDE DEF good, hist, table, g
<1>8. \A b \in DOMAIN hist : hist[b] = Cardinality(Of(good, g, b))
  BY <1>4, <1>5
<1>9. \A r \in good : g[r] \in DOMAIN table
  <2>1. ASSUME NEW r \in good PROVE g[r] \in DOMAIN table
    <3>1. g[r] \in DOMAIN hist
      BY <1>2, <1>3, <1>4, <1>7
    <3>2. r \in Of(good, g, g[r]) /\ Of(good, g, g[r]) \subseteq good
      BY DEF Of
    <3>3. hist[g[r]] > 0
      <4>1. Cardinality(Of(good, g, g[r])) > 0
        BY <1>1, <3>2, PartIsCounted, Zenon
      <4>2. QED
        BY <1>8, <3>1, <4>1
    <3>4. QED
      BY <1>6, <3>1, <3>3
  <2>2. QED
    BY <2>1
<1>10. Parts(table, good, g)
  BY <1>1, <1>6, <1>8, <1>9 DEF Parts
<1>11. QED
  BY <1>10, PartsAddUp, Zenon DEF table, good, hist

\* What a donut is drawn from: each row has a name of its own, which is not that of
\* the slice for the others.
Labelled(rows) ==
    /\ IsFiniteSet(DOMAIN rows)
    /\ \A i \in DOMAIN rows : rows[i].renders \in Nat /\ rows[i].name \in Nat \ {0}
    /\ \A i, j \in DOMAIN rows : rows[i].name = rows[j].name => i = j

SliceOf(rows, i) == [name |-> rows[i].name, renders |-> rows[i].renders]

\* The slices of the rows that are kept.
LEMMA SlicesAddUp ==
    ASSUME NEW rows, Labelled(rows), NEW kept, kept \subseteq DOMAIN rows,
           NEW slices, slices = {SliceOf(rows, i) : i \in kept}
    PROVE  /\ Slices(slices) = Total([i \in kept |-> rows[i].renders])
           /\ IsFiniteSet(slices)
           /\ \A slice \in slices : slice.renders \in Nat /\ slice.name # 0
<1> DEFINE table == [i \in kept |-> rows[i].renders]
           other == [slice \in slices |-> slice.renders]
           p == [i \in kept |-> SliceOf(rows, i)]
<1>1. \A i \in kept : /\ i \in DOMAIN rows /\ rows[i].renders \in Nat /\ rows[i].name \in Nat \ {0}
                      /\ SliceOf(rows, i) \in slices
                      /\ SliceOf(rows, i).name = rows[i].name
                      /\ SliceOf(rows, i).renders = rows[i].renders
  BY DEF Labelled, SliceOf
<1>2. IsFiniteSet(kept)
  BY PartIsCounted DEF Labelled
<1>3. \A i, j \in kept : SliceOf(rows, i) = SliceOf(rows, j) => i = j
  <2>1. ASSUME NEW i \in kept, NEW j \in kept, SliceOf(rows, i) = SliceOf(rows, j) PROVE i = j
    <3>1. rows[i].name = rows[j].name
      BY <1>1, <2>1
    <3>2. \A m, n \in DOMAIN rows : rows[m].name = rows[n].name => m = n
      BY Zenon DEF Labelled
    <3>3. QED
      BY <1>1, <3>1, <3>2, Zenon
  <2>2. QED
    BY <2>1
<1>4. \A slice \in slices : \E i \in kept : slice = SliceOf(rows, i)
  OBVIOUS
<1>5. \A slice \in slices : slice.renders \in Nat /\ slice.name # 0
  BY <1>1, <1>4
<1>6. Table(table)
  BY <1>1, <1>2 DEF Table
<1>7. Matching(p, kept, slices)
  <2>1. p \in [kept -> slices]
    BY <1>1
  <2>2. \A i, j \in kept : p[i] = p[j] => i = j
    BY <1>3
  <2>3. \A slice \in slices : \E i \in kept : p[i] = slice
    BY <1>4
  <2>4. QED
    BY <2>1, <2>2, <2>3, Zenon DEF Matching
<1>8. \A i \in kept : other[p[i]] = table[i]
  BY <1>1
<1>9. DOMAIN table = kept /\ DOMAIN other = slices
  OBVIOUS
<1> HIDE DEF table, other, p
<1>10. Total(other) = Total(table)
  BY <1>6, <1>7, <1>8, <1>9, TotalRenamed
<1>11. IsFiniteSet(slices)
  BY <1>2, <1>7, SameSize
<1>12. QED
  BY <1>5, <1>10, <1>11, Zenon DEF Slices, table, other

\* The donut has a slice for each render, whatever is put together.
LEMMA DonutAddsUp ==
    ASSUME NEW rows, Labelled(rows)
    PROVE  Slices(Donut(rows)) = Renders(rows)
<1> DEFINE table == [i \in DOMAIN rows |-> rows[i].renders]
           total == Total(table)
           kept == {i \in DOMAIN rows : 20 * rows[i].renders >= total}
           one == [i \in kept |-> rows[i].renders]
           other == total - Total(one)
           slices == {SliceOf(rows, i) : i \in kept}
           rest == [name |-> 0, renders |-> other]
<1>1. Table(table) /\ DOMAIN table = DOMAIN rows
  BY DEF Labelled, Table
<1>2. kept \subseteq DOMAIN rows
  OBVIOUS
<1>3. one = Only(table, kept)
  BY DEF Only
<1>4. Donut(rows) = IF total = 0 THEN {} ELSE slices \cup (IF other > 0 THEN {rest} ELSE {})
  BY Zenon DEF Donut, SliceOf
<1>5. total = Renders(rows)
  BY Zenon DEF Renders
<1> HIDE DEF table, total, kept
<1>6. Table(one)
  <2>1. IsFiniteSet(kept)
    BY <1>2, PartIsCounted DEF Labelled
  <2>2. QED
    BY <1>2, <2>1 DEF Table, Labelled
<1> HIDE DEF one
<1>7. total \in Nat /\ Total(one) \in Nat /\ total >= Total(one)
  <2> DEFINE two == Only(table, DOMAIN table \ kept)
  <2>1. total = Total(one) + Total(two)
    BY <1>1, <1>2, <1>3, TotalSplit, Zenon DEF total
  <2>2. Table(two)
    <3>1. IsFiniteSet(DOMAIN table \ kept)
      BY <1>1, PartIsCounted DEF Table
    <3>2. \A x \in DOMAIN table : table[x] \in Nat
      BY <1>1 DEF Table
    <3>3. QED
      BY <3>1, <3>2 DEF Table, Only
  <2> HIDE DEF two
  <2>3. Total(two) \in Nat /\ Total(one) \in Nat
    BY <1>6, <2>2, CellsFinite
  <2>4. QED
    BY <2>1, <2>3
<1>8. other \in Nat
  BY <1>7
<1>9. /\ Slices(slices) = Total(one) /\ IsFiniteSet(slices)
      /\ \A slice \in slices : slice.renders \in Nat /\ slice.name # 0
  BY <1>2, SlicesAddUp, Zenon DEF one
<1>10. CASE total = 0
  <2>1. Donut(rows) = {}
    BY <1>4, <1>10
  <2>2. DOMAIN [slice \in {} |-> slice.renders] = {}
    OBVIOUS
  <2>3. Total([slice \in {} |-> slice.renders]) = 0
    BY <2>2, TotalOfNone, Zenon
  <2>4. QED
    BY <1>5, <1>10, <2>1, <2>3, Zenon DEF Slices
<1>11. CASE total # 0 /\ other = 0
  <2>1. Donut(rows) = slices
    <3>1. ~(other > 0)
      BY <1>11
    <3> HIDE DEF slices, other
    <3>2. QED
      BY <1>4, <1>11, <3>1
  <2>2. total = Total(one)
    BY <1>7, <1>11
  <2>3. QED
    BY <1>5, <1>9, <2>1, <2>2, Zenon
<1>12. CASE total # 0 /\ other # 0
  <2> DEFINE donut == slices \cup {rest}
             d == [slice \in donut |-> slice.renders]
  <2>1. Donut(rows) = donut
    <3>1. other > 0
      BY <1>8, <1>12
    <3> HIDE DEF slices, other, rest
    <3>2. QED
      BY <1>4, <1>12, <3>1
  <2>2. rest.name = 0 /\ rest.renders = other
    OBVIOUS
  <2> HIDE DEF slices, other, rest
  <2>3. rest \notin slices
    BY <1>9, <2>2
  <2>4. IsFiniteSet(donut)
    BY <1>9, FS_AddElement
  <2>5. Table(d) /\ DOMAIN d = donut
    <3>1. \A slice \in donut : slice.renders \in Nat
      BY <1>8, <1>9, <2>2
    <3>2. QED
      BY <2>4, <3>1 DEF Table
  <2>6. donut \ slices = {rest} /\ slices \subseteq donut
    BY <2>3
  <2>7. Only(d, slices) = [slice \in slices |-> slice.renders]
    BY <2>6 DEF Only
  <2>8. Total(Only(d, {rest})) = other
    <3>1. DOMAIN Only(d, {rest}) = {rest} /\ Only(d, {rest})[rest] = other
      BY <2>2 DEF Only
    <3>2. QED
      BY <1>8, <3>1, TotalOfOne
  <2> HIDE DEF d, donut
  <2>9. Total(d) = Total(Only(d, slices)) + Total(Only(d, {rest}))
    <3>1. slices \subseteq DOMAIN d /\ DOMAIN d \ slices = {rest}
      BY <2>5, <2>6, Zenon
    <3>2. Total(d) = Total(Only(d, slices)) + Total(Only(d, DOMAIN d \ slices))
      BY <2>5, <3>1, TotalSplit, Zenon
    <3>3. QED
      BY <3>1, <3>2, Zenon
  <2>10. Total(d) = Total(one) + other
    BY <1>9, <2>7, <2>8, <2>9 DEF Slices
  <2>11. Total(d) = total
    BY <1>7, <2>10 DEF other
  <2>12. QED
    BY <1>5, <2>1, <2>11, Zenon DEF Slices, d, donut
<1>13. QED
  BY <1>10, <1>11, <1>12, Zenon

\* The rows of the table of the templates.
LEMMA TemplateRowsAre ==
    ASSUME NEW S, Some(S), NEW order, NEW table, table = TemplateTable(order, S)
    PROVE  /\ \E n \in Nat : DOMAIN table = 1..n
           /\ \A i \in DOMAIN table : \E t \in {r.template : r \in S} : table[i] = TemplateRow(order, S, t)
           /\ Labelled(table)
<1> DEFINE rows == TemplateRows(order, S)
<1>1. table = Ranked(rows) /\ Rows(rows)
  BY TemplatesAddUp
<1> HIDE DEF rows
<1>2. DOMAIN table = 1..Cardinality(rows) /\ Matching(table, DOMAIN table, rows)
  BY <1>1, RankedIsPermutation, Zenon
<1>3. Cardinality(rows) \in Nat
  BY <1>1, FS_CardinalityType DEF Rows
<1>4. \A i \in DOMAIN table : table[i] \in rows
  BY <1>2, Zenon DEF Matching
<1>5. \A row \in rows : \E t \in {r.template : r \in S} : row = TemplateRow(order, S, t)
  BY DEF rows, TemplateRows
<1>6. \A t \in {r.template : r \in S} : t \in Nat \ {0}
  BY DEF Some, RecordSet
<1>7. \A row \in rows : row.name \in Nat \ {0} /\ row.renders \in Nat
  <2>1. \A t : TemplateRow(order, S, t).name = t
    BY DEF TemplateRow
  <2>2. \A row \in rows : row.renders \in Nat
    BY <1>1, Zenon DEF Rows
  <2>3. ASSUME NEW row \in rows PROVE row.name \in Nat \ {0}
    <3>1. PICK t \in {r.template : r \in S} : row = TemplateRow(order, S, t)
      BY <1>5
    <3>2. row.name = t
      BY <2>1, <3>1, Zenon
    <3>3. QED
      BY <1>6, <3>2
  <2>4. QED
    BY <2>2, <2>3, Zenon
<1>8. \A i, j \in DOMAIN table : table[i].name = table[j].name => i = j
  <2>1. \A a, b \in rows : a.name = b.name => a = b
    BY <1>1, Zenon DEF Rows
  <2>2. \A i, j \in DOMAIN table : table[i] = table[j] => i = j
    BY <1>2, Zenon DEF Matching
  <2>3. ASSUME NEW i \in DOMAIN table, NEW j \in DOMAIN table, table[i].name = table[j].name PROVE i = j
    <3>1. table[i] \in rows /\ table[j] \in rows
      BY <1>4
    <3>2. table[i] = table[j]
      BY <2>1, <2>3, <3>1, Zenon
    <3>3. QED
      BY <2>2, <3>2, Zenon
  <2>4. QED
    BY <2>3, Zenon
<1>9. IsFiniteSet(DOMAIN table)
  <2>1. IsFiniteSet(1..Cardinality(rows))
    BY <1>3, FS_Interval
  <2>2. QED
    BY <1>2, <2>1, Zenon
<1>10. Labelled(table)
  BY <1>4, <1>7, <1>8, <1>9, Zenon DEF Labelled
<1>11. QED
  BY <1>2, <1>3, <1>4, <1>5, <1>10, Zenon

\* A template is found by its name.
LEMMA TemplateIsFound ==
    ASSUME NEW summary, NEW n \in Nat, DOMAIN summary.templates = 1..n, Labelled(summary.templates),
           NEW i \in 1..n
    PROVE  TemplateRenders(summary, summary.templates[i].name, RecentN)
               = FirstOf(summary.templates[i].recent, RecentN)
<1> DEFINE name == summary.templates[i].name
           found == {k \in DOMAIN summary.templates : summary.templates[k].name = name}
           rows == Ascending(found)
<1>1. found = {i}
  BY Zenon DEF Labelled
<1>2. DOMAIN rows = 1..1
  <2>1. Cardinality({i}) = 1
    BY FS_Singleton
  <2>2. DOMAIN rows = 1..Cardinality(found)
    BY DEF Ascending
  <2> HIDE DEF found, rows
  <2>3. QED
    BY <1>1, <2>1, <2>2, Zenon
<1>3. {rows[m] : m \in DOMAIN rows} = found
  <2>1. found \subseteq 0..n
    BY <1>1
  <2> HIDE DEF found
  <2>2. QED
    BY <2>1, AscendingInOrder
<1> HIDE DEF rows
<1>4. rows[1] = i /\ rows # <<>>
  <2>1. 1 \in DOMAIN rows
    BY <1>2
  <2>2. rows[1] \in found
    BY <1>3, <2>1, Zenon
  <2>3. rows[1] = i
    BY <1>1, <2>2, Zenon
  <2>4. DOMAIN <<>> = {}
    OBVIOUS
  <2>5. QED
    BY <2>1, <2>3, <2>4, Zenon
<1>5. TemplateRenders(summary, name, RecentN)
        = IF rows = <<>> THEN <<>> ELSE FirstOf(summary.templates[rows[1]].recent, RecentN)
  BY Zenon DEF TemplateRenders, rows
<1>6. QED
  BY <1>4, <1>5, Zenon

\* Each row of the table counts its tags and keeps the newest renders of its template.
LEMMA RowsAreRight ==
    ASSUME NEW S, Some(S), Distinct(S), NEW order, Listing(order, S),
           NEW summary, summary.templates = TemplateTable(order, S),
           NEW i \in DOMAIN summary.templates, NEW row, row = summary.templates[i]
    PROVE  /\ Renders(row.tags) = row.renders
           /\ KeepsNewest(TemplateRenders(summary, row.name, RecentN), OfTemplate(S, row.name))
<1>1. PICK n \in Nat : DOMAIN summary.templates = 1..n
  BY TemplateRowsAre
<1>2. Labelled(summary.templates)
  BY TemplateRowsAre
<1>3. PICK t \in {r.template : r \in S} : row = TemplateRow(order, S, t)
  BY TemplateRowsAre
<1> DEFINE Q == OfTemplate(S, t)
<1>4. /\ row.name = t /\ row.renders = Cardinality(Q) /\ row.tags = Tags(Q)
      /\ row.recent = FirstOf(Chosen(order, Q), RecentN)
  BY <1>3 DEF TemplateRow
<1>5. Q \subseteq S
  BY DEF OfTemplate
<1> HIDE DEF Q
<1>6. Some(Q) /\ Distinct(Q)
  <2>1. IsFiniteSet(Q)
    BY <1>5, PartIsCounted DEF Some
  <2>2. RecordSet(Q)
    BY <1>5 DEF Some, RecordSet
  <2>3. Distinct(Q)
    BY <1>5 DEF Distinct
  <2>4. QED
    BY <2>1, <2>2, <2>3 DEF Some
<1>7. Renders(row.tags) = row.renders
  BY <1>4, <1>6, TagsAddUp, Zenon
<1>8. TemplateRenders(summary, row.name, RecentN) = FirstOf(row.recent, RecentN)
  BY <1>1, <1>2, TemplateIsFound, Zenon
<1>9. Listing(Chosen(order, Q), Q)
  BY <1>5, ChosenIsListing
<1>10. KeepsNewest(FirstOf(FirstOf(Chosen(order, Q), RecentN), RecentN), Q)
  BY <1>6, <1>9, ListingKeepsNewest
<1>11. QED
  BY <1>4, <1>7, <1>8, <1>10, Zenon DEF Q

\* Whatever the log: each render is counted once.
THEOREM LogCountsOnce ==
    ASSUME NEW R, NEW log, LogOf(log, R), NEW order \in NewestFirst(LatestRecords(log))
    PROVE  CountsOnce(log, Summary(log, order), Dashboard(Summary(log, order)))
<1> DEFINE S == LatestRecords(log)
           summary == Summary(log, order)
           charts == Dashboard(summary)
           renders == Cardinality(Ids(log))
           bars == charts.outcomes
<1>1. /\ S \subseteq R /\ IsFiniteSet(S)
      /\ \A r, q \in S : r.id = q.id => r = q
      /\ \A k \in DOMAIN log : \E r \in S : r.id = log[k].id /\ r.at >= log[k].at
      /\ Cardinality(S) = renders
  BY OneRecordPerRender
<1>2. /\ summary.volume = Volume(S) /\ summary.histogram = Histogram(S)
      /\ summary.templates = TemplateTable(order, S)
      /\ summary.recent = FirstOf(order, RecentN) /\ summary.totals = Totals(order, S)
  BY DEF Summary
<1>3. order \in NewestFirst(S)
  OBVIOUS
<1> HIDE DEF S, summary
<1>4. /\ bars = OutcomeBars(summary.volume)
      /\ charts.histogram = HistogramBar(summary.histogram)
      /\ charts.donut = Donut(summary.templates)
  BY DEF Dashboard
<1> HIDE DEF charts, renders
<1>5. Some(S) /\ Distinct(S)
  BY <1>1 DEF Some, RecordSet, LogOf, Distinct
<1>6. Listing(order, S)
  BY <1>1, <1>3, NewestIsListing
<1>7. Renders(summary.volume) = renders
  BY <1>1, <1>2, <1>5, VolumeAddsUp, Zenon
<1>8. Renders(summary.templates) = renders
  BY <1>1, <1>2, <1>5, TemplatesAddUp, Zenon
<1>9. Renders(TotalPerTemplate(summary)) = renders
  <2>1. Renders(TotalPerTemplate(summary)) = Renders(summary.templates)
    BY DEF Renders, TotalPerTemplate
  <2>2. QED
    BY <1>8, <2>1, Zenon
<1>10. ASSUME NEW i \in DOMAIN summary.templates
       PROVE  LET row == summary.templates[i]
              IN /\ Renders(row.tags) = row.renders
                 /\ KeepsNewest(TemplateRenders(summary, row.name, RecentN), OfTemplate(S, row.name))
  BY <1>2, <1>5, <1>6, RowsAreRight, Zenon
<1>11. Slices(charts.donut) = renders
  <2>1. Labelled(summary.templates)
    BY <1>2, <1>5, TemplateRowsAre
  <2>2. QED
    BY <1>4, <1>8, <2>1, DonutAddsUp, Zenon
<1>12. Total(charts.histogram) = Total([d \in DOMAIN bars |-> bars[d].ok])
  <2>1. Total(charts.histogram) = Cardinality(Succeeded(S))
    BY <1>2, <1>4, <1>5, HistogramAddsUp, Zenon
  <2>2. Total([d \in DOMAIN bars |-> bars[d].ok]) = Cardinality(Succeeded(S))
    BY <1>2, <1>4, <1>5, BarsAddUp, Zenon
  <2>3. QED
    BY <2>1, <2>2, Zenon
<1>13. \A d \in DOMAIN bars : bars[d].ok >= 0 /\ bars[d].height \in 0..100
  <2>1. ASSUME NEW d \in DOMAIN bars PROVE bars[d].ok \in Nat /\ bars[d].height \in 0..100
    BY <1>2, <1>4, <1>5, <2>1, BarsAre, Zenon DEF BarOf
  <2>2. QED
    BY <2>1
<1>14. summary.totals.renders <= Renders(Since(summary.volume, 1))
  <2>1. summary.totals.renders = Cardinality({r \in S : r.at >= Now - DayLength})
    BY <1>2 DEF Totals
  <2>2. QED
    BY <1>2, <1>5, <2>1, WindowIsCounted
<1>15. KeepsNewest(RecentRenders(summary, RecentN), {log[k] : k \in DOMAIN log})
  <2> DEFINE list == FirstOf(FirstOf(order, RecentN), RecentN)
             Q == {log[k] : k \in DOMAIN log}
  <2>1. RecentRenders(summary, RecentN) = list
    BY <1>2, Zenon DEF RecentRenders
  <2>2. KeepsNewest(list, S)
    BY <1>5, <1>6, ListingKeepsNewest
  <2>3. Listing(list, S) \/ \A i \in DOMAIN list : list[i] \in S
    <3>1. order \in Seq(S)
      BY <1>6 DEF Listing
    <3>2. \A s \in Seq(S) : FirstOf(s, RecentN) \in Seq(S)
      <4>1. ASSUME NEW s \in Seq(S) PROVE FirstOf(s, RecentN) \in Seq(S)
        <5>1. AtMost(RecentN, Len(s)) \in Nat /\ AtMost(RecentN, Len(s)) <= Len(s)
          BY RecentNAssumption DEF AtMost
        <5>2. QED
          BY <5>1 DEF FirstOf
      <4>2. QED
        BY <4>1
    <3>3. list \in Seq(S)
      BY <3>1, <3>2
    <3> HIDE DEF list
    <3>4. QED
      BY <3>3
  <2> HIDE DEF list
  <2>4. ASSUME NEW i \in DOMAIN list, NEW q \in Q, q.at > list[i].at
        PROVE  \E j \in 1..i : list[j].id = q.id
    <3>1. PICK k \in DOMAIN log : q = log[k]
      OBVIOUS
    <3>2. PICK r \in S : r.id = log[k].id /\ r.at >= log[k].at
      BY <1>1
    <3>3. r.at \in Nat /\ log[k].at \in Nat /\ list[i].at \in Nat
      BY <1>5, <2>3 DEF Distinct, LogOf, RecordSet, Listing
    <3>4. r.at > list[i].at
      BY <2>4, <3>1, <3>2, <3>3
    <3>5. \E j \in 1..i : list[j].id = r.id
      BY <2>2, <3>4, Zenon DEF KeepsNewest
    <3>6. QED
      BY <3>1, <3>2, <3>5, Zenon
  <2>5. \A i, j \in DOMAIN list : list[i].id = list[j].id => i = j
    BY <2>2, Zenon DEF KeepsNewest
  <2> HIDE DEF Q
  <2>6. KeepsNewest(list, Q)
    BY <2>4, <2>5, Zenon DEF KeepsNewest
  <2>7. QED
    BY <2>1, <2>6, Zenon DEF Q
<1>16. QED
  BY <1>7, <1>9, <1>10, <1>11, <1>12, <1>13, <1>14, <1>15, Zenon
     DEF CountsOnce, S, summary, charts, renders

-----------------------------------------------------------------------------
SummarySpec == Asked(SummaryQuestions) /\ [][SummaryNext]_inquiry

\* What a reply is.
Summarised ==
    /\ question \in SummaryQuestions
    /\ reply # <<>> =>
        /\ question.kind = "log" =>
              \E order \in NewestFirst(LatestRecords(question.log)) :
                 LET summary == Summary(question.log, order)
                 IN answer = [summary |-> summary, dashboard |-> Dashboard(summary)]
        /\ question.kind = "shares" =>
              answer = Donut([i \in 1..3 |-> [name |-> i, renders |-> question.shares[i]]])

\* The logs that are asked about are logs.
LEMMA LogsAreLogs == \A log \in Logs : LogOf(log, Records)
<1>1. RecordSet(Records)
  <2>1. \A r \in Records : r.at \in 0..Now /\ r.outcome \in Outcomes /\ r.template \in 1..2 /\ r.tag \in 1..2
    BY DEF Records
  <2>2. \A outcome \in Outcomes : outcome.success \in BOOLEAN /\ outcome.ms \in Nat
    <3>1. /\ [success |-> FALSE, ms |-> 0].success \in BOOLEAN /\ [success |-> FALSE, ms |-> 0].ms \in Nat
          /\ [success |-> TRUE, ms |-> 99].success \in BOOLEAN /\ [success |-> TRUE, ms |-> 99].ms \in Nat
          /\ [success |-> TRUE, ms |-> 100].success \in BOOLEAN /\ [success |-> TRUE, ms |-> 100].ms \in Nat
      OBVIOUS
    <3>2. QED
      BY <3>1, Zenon DEF Outcomes
  <2>3. QED
    BY <2>1, <2>2 DEF RecordSet, Now
<1>2. \A log \in Logs : log \in Seq(Records)
  <2>1. \A n \in Nat : \A log \in [1..n -> Records] : log \in Seq(Records)
    OBVIOUS
  <2>2. OneTemplate \subseteq Records
    BY DEF OneTemplate
  <2>3. \A log \in Logs : \E n \in Nat : log \in [1..n -> Records]
    <3>1. ASSUME NEW log \in Logs PROVE \E n \in Nat : log \in [1..n -> Records]
      <4>1. log \in UNION {[1..k -> Records] : k \in 0..2} \/ log \in [1..3 -> OneTemplate]
        BY <3>1 DEF Logs, UpTo
      <4>2. CASE log \in UNION {[1..k -> Records] : k \in 0..2}
        <5>1. PICK k \in 0..2 : log \in [1..k -> Records]
          BY <4>2, Zenon
        <5>2. k \in Nat
          OBVIOUS
        <5>3. QED
          BY <5>1, <5>2, Zenon
      <4>3. CASE log \in [1..3 -> OneTemplate]
        <5>1. log \in [1..3 -> Records]
          BY <2>2, <4>3
        <5>2. 3 \in Nat
          OBVIOUS
        <5>3. QED
          BY <5>1, <5>2, Zenon
      <4>4. QED
        BY <4>1, <4>2, <4>3, Zenon
    <3>2. QED
      BY <3>1, Zenon
  <2>4. QED
    BY <2>1, <2>3, Zenon
<1>3. QED
  BY <1>1, <1>2, Zenon DEF LogOf

\* Each render is counted once, by whatever summary is asked for.
THEOREM SpecEachRenderCountsOnce == SummarySpec => []EachRenderCountsOnce
<1>1. Asked(SummaryQuestions) => Summarised
  BY DEF Asked, Summarised
<1>2. Summarised /\ [SummaryNext]_inquiry => Summarised'
  <2> SUFFICES ASSUME Summarised, [SummaryNext]_inquiry PROVE Summarised'
    OBVIOUS
  <2>1. CASE AnswerLog
    BY <2>1 DEF Summarised, AnswerLog, Answer, answer
  <2>2. CASE AnswerShares
    BY <2>2 DEF Summarised, AnswerShares, Answer, answer
  <2>3. CASE AnswerLatencies
    BY <2>3 DEF Summarised, AnswerLatencies, Answer, answer
  <2>4. CASE UNCHANGED inquiry
    BY <2>4 DEF Summarised, inquiry, answer
  <2>5. QED
    BY <2>1, <2>2, <2>3, <2>4 DEF SummaryNext
<1>3. Summarised => EachRenderCountsOnce
  <2> SUFFICES ASSUME Summarised PROVE EachRenderCountsOnce
    OBVIOUS
  <2>1. ASSUME Replied("log") PROVE CountsOnce(question.log, answer.summary, answer.dashboard)
    <3>1. question.log \in Logs
      BY <2>1 DEF Summarised, Replied, SummaryQuestions, LatencyQuestions
    <3>2. LogOf(question.log, Records)
      BY <3>1, LogsAreLogs, Zenon
    <3>3. PICK order \in NewestFirst(LatestRecords(question.log)) :
             answer = [summary |-> Summary(question.log, order),
                       dashboard |-> Dashboard(Summary(question.log, order))]
      BY <2>1, Zenon DEF Summarised, Replied
    <3>4. /\ answer.summary = Summary(question.log, order)
          /\ answer.dashboard = Dashboard(Summary(question.log, order))
      BY <3>3
    <3>5. QED
      BY <3>2, <3>4, LogCountsOnce, Zenon
  <2>2. ASSUME Replied("shares") PROVE Slices(answer) = Total(question.shares)
    <3> DEFINE rows == [i \in 1..3 |-> [name |-> i, renders |-> question.shares[i]]]
    <3>1. question.shares \in [1..3 -> {1, 19, 20}]
      BY <2>2 DEF Summarised, Replied, SummaryQuestions, LatencyQuestions, Shares
    <3>2. answer = Donut(rows)
      BY <2>2, Zenon DEF Summarised, Replied
    <3>3. Labelled(rows)
      <4>1. IsFiniteSet(DOMAIN rows)
        <5>1. DOMAIN rows = 1..3 /\ 1 \in Int /\ 3 \in Int
          OBVIOUS
        <5> HIDE DEF rows
        <5>2. QED
          BY <5>1, FS_Interval, Zenon
      <4>2. \A i \in DOMAIN rows : rows[i].renders \in Nat /\ rows[i].name \in Nat \ {0} /\ rows[i].name = i
        BY <3>1
      <4>3. QED
        BY <4>1, <4>2, Zenon DEF Labelled
    <3>4. [x \in DOMAIN rows |-> rows[x].renders] = question.shares
      BY <3>1
    <3> HIDE DEF rows
    <3>5. Renders(rows) = Total(question.shares)
      BY <3>4, Zenon DEF Renders
    <3>6. QED
      BY <3>2, <3>3, <3>5, DonutAddsUp, Zenon
  <2>3. QED
    BY <2>1, <2>2, Zenon DEF EachRenderCountsOnce
<1>4. QED
  BY <1>1, <1>2, <1>3, PTL DEF SummarySpec
=============================================================================
