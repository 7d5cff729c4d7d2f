------------------------------ MODULE Bundles ------------------------------
(***************************************************************************)
(* From the publish form to the stored manifest and back: the fields of the *)
(* multipart request make a bundle, the bundle is validated, its files are   *)
(* stored under their content hashes, and the manifest that lists them is    *)
(* built, serialized, and checked again whenever it is read.                 *)
(*                                                                           *)
(* A content is a name that stands for its bytes and for their hash.         *)
(*                                                                           *)
(* Sources: routes/templates.rs, bundle.rs, registry/publish.rs,             *)
(* manifest.rs.                                                              *)
(***************************************************************************)
EXTENDS Inquiry

CONSTANT MaxFields  \* bound: files[...] fields of one form

\* Paths of each kind the validations tell apart.
Blank == {"", " "}
Absolute == {"/logo"}
Dotted == {"a..b"}
FormPaths == Blank \cup Absolute \cup Dotted \cup {"main.typ", "schema.json", "logo"}
Entrypoint == "main.typ"

\* Contents: "bytes" is not UTF-8, and of the texts only "json" is JSON.
Utf8 == {"code", "prose", "json"}
Json == {"json"}
Absent == "absent"

\* Metadata that cannot be parsed is absent too.
Metadata == {Absent, "nameless", "authorless", "complete"}

-----------------------------------------------------------------------------
(* The form                                                                  *)

\* A field files[<path>]; "closed" is whether its name ends with ].
FileFields == [path : FormPaths, closed : BOOLEAN, content : {"bytes", "json"}]

\* extract_filename_from_field
Named(field) == field.closed /\ field.path # ""

\* publish_template: a later field of the same name replaces an earlier one.
FilesOfForm(fields) ==
    LET kept == {i \in DOMAIN fields : Named(fields[i])}
        last(path) == CHOOSE i \in kept : /\ fields[i].path = path
                                          /\ \A j \in kept : fields[j].path = path => j <= i
    IN [path \in {fields[i].path : i \in kept} |-> fields[last(path)].content]

\* with_schema, then add_file for every other file.
BundleOf(form) ==
    LET files == FilesOfForm(form.fields)
        schema == IF form.schema = Absent THEN {} ELSE {"schema.json"}
    IN [main |-> form.main, metadata |-> form.metadata,
        files |-> [path \in DOMAIN files \cup schema |->
                     IF path \in DOMAIN files THEN files[path] ELSE form.schema]]

-----------------------------------------------------------------------------
(* Validation                                                                *)

\* TemplateMetadata::validate
ValidMetadata(metadata) == metadata = "complete"

BundlePathAnyMain(path) == path \notin Blank \cup Absolute \cup Dotted \* mutant
\* validate_bundle_file_path
BundlePath(path) == path \notin Blank \cup Absolute \cup Dotted \cup {Entrypoint}

\* TemplateBundle::validate
ValidBundle(bundle) ==
    /\ bundle.main \in Utf8
    /\ ValidMetadata(bundle.metadata)
    /\ "schema.json" \in DOMAIN bundle.files => bundle.files["schema.json"] \in Json
    /\ \A path \in DOMAIN bundle.files : BundlePath(path)

-----------------------------------------------------------------------------
(* The manifest                                                              *)

\* Manifest::validate_file_path; every hash is one that ContentAddress made.
ManifestPath(path) == path \notin Blank \cup Absolute \cup Dotted

\* Manifest::new, and validate after from_bytes.
ValidManifest(manifest) ==
    /\ Entrypoint \in DOMAIN manifest.files
    /\ ValidMetadata(manifest.metadata)
    /\ \A path \in DOMAIN manifest.files : ManifestPath(path)

\* publish: main.typ goes in first, the other files after it.
ManifestOf(bundle) ==
    [metadata |-> bundle.metadata,
     files |-> [path \in {Entrypoint} \cup DOMAIN bundle.files |->
                  IF path \in DOMAIN bundle.files THEN bundle.files[path] ELSE bundle.main]]

Forms == [main : {Absent, "bytes", "code"}, schema : {Absent, "json", "prose"},
          metadata : Metadata, fields : UpTo(FileFields, MaxFields)]

\* publish_template and publish: what is refused before anything is stored, and
\* what is refused when the files already are.
Publish(form) ==
    LET bundle == BundleOf(form)
        manifest == ManifestOf(bundle)
    IN IF Absent \in {form.main, form.metadata} \/ ~ValidBundle(bundle) THEN [outcome |-> "refused", stored |-> {}]
       ELSE IF ~ValidManifest(manifest)
            THEN [outcome |-> "failed", stored |-> {bundle.main}]
            ELSE [outcome |-> "published", manifest |-> manifest,
                  stored |-> {bundle.main} \cup {bundle.files[path] : path \in DOMAIN bundle.files}]

BundleQuestions == [kind : {"publish"}, form : Forms]
AnswerPublish == Answer("publish", Publish(question.form))
BundleNext == AnswerPublish

-----------------------------------------------------------------------------
\* What publish lets through is a template that can be loaded: its manifest is
\* not refused once the files are stored, nor when it is read back; its entry
\* point is the main_typ of the form, and every file of the form is found under
\* its own path, in its last version.
PublishedIsLoadable ==
    Replied("publish") =>
        LET form == question.form IN
        /\ answer.outcome # "failed"
        /\ answer.outcome = "published" =>
             /\ ValidManifest(answer.manifest)
             /\ answer.manifest.files[Entrypoint] = form.main
             /\ \A path \in DOMAIN FilesOfForm(form.fields) :
                    answer.manifest.files[path] = FilesOfForm(form.fields)[path]
             /\ {answer.manifest.files[path] : path \in DOMAIN answer.manifest.files}
                    \subseteq answer.stored
=============================================================================
