--------------------------- MODULE TemplateStore ---------------------------
(***************************************************************************)
(* The template registry: publishing a bundle, resolving a tag, loading a   *)
(* template, listing, deleting a version and collecting what it orphaned.   *)
(*                                                                          *)
(* Tags (refs/), manifests (manifests/) and file blobs (blobs/) live in S3; *)
(* each server or worker process (instance) has two caches.  A call of the  *)
(* registry is a plan, the sequence of the steps it still has to take; each *)
(* step is one storage call or one cache access, and the calls of all       *)
(* clients interleave.  Sources: registry/publish.rs, templates.rs, mod.rs  *)
(* and the loading half of registry/render.rs.                              *)
(***************************************************************************)
EXTENDS Integers, Sequences

CONSTANTS
    Clients,      \* requests in flight
    Instances,    \* processes: servers and workers
    Names,        \* template names, with their namespace
    Versions,     \* tags of a name, numbered in order of preference, latest first
    Manifests,    \* manifest hashes
    Files,        \* blob hashes
    FilesOf,      \* blobs of each manifest: content addressed, so constant
    EntryOf,      \* the blob of main.typ
    None,         \* no manifest
    Offered,      \* bound: kinds of call the clients make
    MaxCalls,     \* bound: calls of all clients
    MaxFaults     \* bound: storage calls that fail

Tags == Names \X Versions
Kinds == {"publish", "delete", "render", "source", "metadata", "list"}

ASSUME InstancesAssumption == None \notin Instances \cup Clients /\ Instances \cap Clients = {}
ASSUME VersionsAssumption == Versions \subseteq Nat
ASSUME ManifestsAssumption ==
    /\ None \notin Manifests
    /\ Manifests \cap Files = {}
    /\ FilesOf \in [Manifests -> SUBSET Files]
    /\ EntryOf \in [Manifests -> Files]
    /\ \A m \in Manifests : EntryOf[m] \in FilesOf[m]
ASSUME LimitsAssumption == Offered \subseteq Kinds /\ MaxCalls \in Nat /\ MaxFaults \in Nat

VARIABLES
    refs,       \* manifest hash under refs/{name}/{tag}, or None
    manifests,  \* stored manifests
    blobs,      \* stored file blobs
    refCache,   \* ref_cache of each instance
    objects,    \* blob_cache of each instance: manifests and files
    call,       \* the call each client is in
    left,       \* calls left
    faults,     \* storage faults left
    raced,      \* history: a delete and a publish were in flight together
    blind,      \* history: a collection skipped a tag or manifest it could not read
    replaced,   \* history: manifests a republish has taken a tag from
    settled     \* history: who has the last write of a tag: the client whose publish or
                \* delete has had the tag to itself so far, the instance that wrote once
                \* it has, None if calls overlapped

stored == <<refs, manifests, blobs>>
caches == <<refCache, objects>>
history == <<raced, blind, replaced, settled>>
vars == <<stored, caches, call, left, faults, history>>

\* Steps of each call, in the order the code takes them.
Plan(kind) ==
    CASE kind = "publish"  -> <<"put files", "put manifest", "put ref", "cache ref">>
      [] kind = "delete"   -> <<"find ref", "drop ref", "forget ref", "list refs", "read refs",
                                "read orphan", "read live", "drop blobs", "drop manifest">>
      [] kind = "render"   -> <<"resolve", "manifest", "entry", "hydrate">>
      [] kind = "source"   -> <<"resolve", "manifest", "entry">>
      [] kind = "metadata" -> <<"resolve", "scan", "info", "resolve", "manifest">>
      [] kind = "list"     -> <<"scan", "info">>

\* at, tag, m: the instance that serves the call, and what it is about.  pin: the hash of a name:tag@hash reference.
\* tags, live, files, keep: what it has listed and not read yet, or has read.
\* found, steady: names listed so far, and names nobody changed meanwhile.
Idle == [kind |-> "list", plan |-> <<>>, end |-> "none", at |-> None, tag |-> None,
         m |-> None, pin |-> None, tags |-> {}, live |-> {}, files |-> {}, keep |-> {},
         found |-> {}, steady |-> {}]

\* Any registry that publishes one after the other leave behind; some of the
\* instances have just resolved every tag.
Init ==
    /\ refs \in [Tags -> Manifests \cup {None}]
    /\ manifests = {refs[t] : t \in Tags} \ {None}
    /\ blobs = UNION {FilesOf[m] : m \in manifests}
    /\ \E warm \in SUBSET Instances :
          refCache = [i \in Instances |-> IF i \in warm THEN refs ELSE [t \in Tags |-> None]]
    /\ objects = [i \in Instances |-> {}]
    /\ call = [c \in Clients |-> Idle]
    /\ left = MaxCalls
    /\ faults = MaxFaults
    /\ raced = FALSE /\ blind = FALSE
    /\ replaced = {}
    /\ settled = [t \in Tags |-> None]

-----------------------------------------------------------------------------
(* One storage call: it succeeds, is lost, or takes effect and reports an    *)
(* error (the answer of the last attempt is lost).                           *)

Outcomes == {"ok", "lost", "applied"}

S3(o) ==
    /\ o \in Outcomes
    /\ IF o = "ok" THEN UNCHANGED faults ELSE faults > 0 /\ faults' = faults - 1

Host(c) == call[c].at
At(c, step) == call[c].plan # <<>> /\ Head(call[c].plan) = step

\* The call's next step, with what it has learned; or its end.
Ended(r, how) == [Idle EXCEPT !.kind = r.kind, !.end = how, !.found = r.found, !.steady = r.steady]
Stays(c, r) == call' = [call EXCEPT ![c] = r]
Ends(c, how) == Stays(c, Ended(call[c], how))
Goes(c, r) ==
    Stays(c, IF Len(r.plan) = 1 THEN Ended(r, "ok") ELSE [r EXCEPT !.plan = Tail(@)])

\* The outcome of a step that only had to succeed.
GoesIf(c, good) == IF good THEN Goes(c, call[c]) ELSE Ends(c, "error")

Busy(kind) == \E c \in Clients : call[c].kind = kind /\ call[c].plan # <<>>

\* A call about the tag that writes it, or that may cache it at the instance.
Writes(kind) == kind \in {"publish", "delete"}
Writing(r, t) == r.plan # <<>> /\ r.tag = t /\ Writes(r.kind)
Resolves(kind) == kind \in {"render", "source", "metadata"}
Resolving(r, i, t) == r.plan # <<>> /\ r.tag = t /\ r.at = i /\ Resolves(r.kind)

\* A new write has the tag to itself if no other is in flight, nor a call that
\* resolves it here; a call that starts to resolve it here comes between.
Claims(c, kind, i, t) ==
    settled' =
        IF Writes(kind)
        THEN [settled EXCEPT ![t] =
                 IF \E d \in Clients : Writing(call[d], t) \/ Resolving(call[d], i, t)
                 THEN None ELSE c]
        ELSE [settled EXCEPT ![t] =
                 IF Resolves(kind) /\ \E d \in Clients : @ = d /\ Host(d) = i THEN None ELSE @]

Start(c, kind, t, m) ==
    /\ call[c].plan = <<>>
    /\ left > 0 /\ left' = left - 1
    /\ \E i \in Instances, pin \in IF kind = "render" THEN {None, m} ELSE {None} :
          /\ call' = [call EXCEPT ![c] =
              [Idle EXCEPT !.kind = kind, !.plan = Plan(kind), !.at = i, !.tag = t, !.pin = pin,
                           !.m = IF kind = "publish" THEN m ELSE None,
                           !.files = IF kind = "publish" THEN FilesOf[m] ELSE {},
                           !.steady = IF kind = "list" THEN Names ELSE {t[1]}]]
          /\ Claims(c, kind, i, t)
    /\ raced' = (raced \/ (kind = "publish" /\ Busy("delete")) \/ (kind = "delete" /\ Busy("publish")))
    /\ UNCHANGED <<stored, caches, faults, blind, replaced>>

\* A write of a tag: nobody can rely on what they saw of its template.
Changed(calls, t) == [c \in Clients |-> [calls[c] EXCEPT !.steady = @ \ {t[1]}]]

Wrote(c, o) == IF o = "ok" THEN [call[c] EXCEPT !.plan = Tail(@)] ELSE Ended(call[c], "error")

-----------------------------------------------------------------------------
(* publish                                                                   *)

\* main.typ first, then the other files of the bundle in no fixed order.
NextFile(c) ==
    LET m == call[c].m IN
    IF EntryOf[m] \in call[c].files THEN {EntryOf[m]} ELSE call[c].files

PutFile(c) ==
    /\ At(c, "put files")
    /\ \E f \in NextFile(c), o \in Outcomes :
          /\ S3(o)
          /\ blobs' = IF o = "lost" THEN blobs ELSE blobs \cup {f}
          /\ LET r == [call[c] EXCEPT !.files = @ \ {f}] IN
             CASE o # "ok" -> Ends(c, "error")
               [] o = "ok" /\ r.files = {} -> Goes(c, r)
               [] OTHER -> Stays(c, r)
    /\ UNCHANGED <<refs, manifests, caches, left, history>>

PutManifest(c) ==
    /\ At(c, "put manifest")
    /\ \E o \in Outcomes :
          /\ S3(o)
          /\ manifests' = IF o = "lost" THEN manifests ELSE manifests \cup {call[c].m}
          /\ GoesIf(c, o = "ok")
    /\ UNCHANGED <<refs, blobs, caches, left, history>>

PutRef(c) ==
    /\ At(c, "put ref")
    /\ LET t == call[c].tag  m == call[c].m IN
       \E o \in Outcomes :
          /\ S3(o)
          /\ IF o = "lost"
             THEN Ends(c, "error") /\ UNCHANGED <<refs, replaced>>
             ELSE /\ refs' = [refs EXCEPT ![t] = m]
                  /\ replaced' = replaced \cup ({refs[t]} \ {None, m})
                  /\ call' = Changed([call EXCEPT ![c] = Wrote(c, o)], t)
    /\ UNCHANGED <<manifests, blobs, caches, left, raced, blind, settled>>

\* The ref cache of this instance takes the new hash; publish returns.
Settle(c) ==
    settled' = [settled EXCEPT ![call[c].tag] = IF @ = c THEN Host(c) ELSE @]

\* Mutated: publish leaves the ref cache of its instance alone.
CacheRefNot(c) ==
    /\ At(c, "cache ref")
    /\ Settle(c)
    /\ Goes(c, call[c])
    /\ UNCHANGED <<stored, caches, left, faults, raced, blind, replaced>>

CacheRef(c) ==
    /\ At(c, "cache ref")
    /\ refCache' = [refCache EXCEPT ![Host(c)][call[c].tag] = call[c].m]
    /\ Settle(c)
    /\ Goes(c, call[c])
    /\ UNCHANGED <<stored, objects, left, faults, raced, blind, replaced>>

-----------------------------------------------------------------------------
(* delete_version and gc_orphaned                                            *)

FindRef(c) ==
    /\ At(c, "find ref")
    /\ \E o \in {"ok", "lost"} :
          /\ S3(o)
          /\ IF o = "ok" /\ refs[call[c].tag] # None
             THEN Goes(c, [call[c] EXCEPT !.m = refs[call[c].tag]])
             ELSE Ends(c, "error")
    /\ UNCHANGED <<stored, caches, left, history>>

DropRef(c) ==
    /\ At(c, "drop ref")
    /\ LET t == call[c].tag IN
       \E o \in Outcomes :
          /\ S3(o)
          /\ IF o = "lost"
             THEN Ends(c, "error") /\ UNCHANGED refs
             ELSE /\ refs' = [refs EXCEPT ![t] = None]
                  /\ call' = Changed([call EXCEPT ![c] = Wrote(c, o)], t)
    /\ UNCHANGED <<manifests, blobs, caches, left, history>>

ForgetRef(c) ==
    /\ At(c, "forget ref")
    /\ refCache' = [refCache EXCEPT ![Host(c)][call[c].tag] = None]
    /\ Settle(c)
    /\ Goes(c, call[c])
    /\ UNCHANGED <<stored, objects, left, faults, raced, blind, replaced>>

Tagged == {t \in Tags : refs[t] # None}

ListRefs(c) ==
    /\ At(c, "list refs")
    /\ \E o \in {"ok", "lost"} :
          /\ S3(o)
          /\ IF o = "ok" THEN Goes(c, [call[c] EXCEPT !.tags = Tagged]) ELSE Ends(c, "error")
    /\ UNCHANGED <<stored, caches, left, history>>

\* Mutated: a tag that is gone by now may have kept the manifest alive.
ReadRefCautious(c) ==
    /\ At(c, "read refs")
    /\ \E t \in call[c].tags :
          Stays(c, [call[c] EXCEPT
                !.tags = @ \ {t},
                !.live = @ \cup {IF refs[t] = None THEN call[c].m ELSE refs[t]}])
    /\ UNCHANGED <<stored, caches, left, faults, history>>

\* A tag that cannot be read, or is gone by now, keeps nothing alive.
ReadRef(c) ==
    /\ At(c, "read refs")
    /\ \E t \in call[c].tags, o \in {"ok", "lost"} :
          /\ S3(o)
          /\ Stays(c, [call[c] EXCEPT
                !.tags = @ \ {t},
                !.live = IF o = "ok" THEN @ \cup ({refs[t]} \ {None}) ELSE @])
          /\ blind' = (blind \/ o # "ok")
    /\ UNCHANGED <<stored, caches, left, raced, replaced, settled>>

\* The manifest is kept if another tag points to it.
RefsRead(c) ==
    /\ At(c, "read refs")
    /\ call[c].tags = {}
    /\ IF call[c].m \in call[c].live THEN Ends(c, "kept") ELSE Goes(c, call[c])
    /\ UNCHANGED <<stored, caches, left, faults, history>>

ReadOrphan(c) ==
    /\ At(c, "read orphan")
    /\ \E o \in {"ok", "lost"} :
          /\ S3(o)
          /\ Goes(c, [call[c] EXCEPT
                !.files = IF o = "ok" /\ call[c].m \in manifests THEN FilesOf[call[c].m] ELSE {}])
    /\ UNCHANGED <<stored, caches, left, history>>

\* Mutated: the manifest's own hash is kept in place of its files.
ReadLiveHash(c) ==
    /\ At(c, "read live")
    /\ \E m \in call[c].live : Stays(c, [call[c] EXCEPT !.live = @ \ {m}, !.keep = @ \cup {m}])
    /\ UNCHANGED <<stored, caches, left, faults, history>>

\* Mutated: only the entrypoints of surviving manifests are kept.
ReadLiveMain(c) ==
    /\ At(c, "read live")
    /\ \E m \in call[c].live :
          Stays(c, [call[c] EXCEPT !.live = @ \ {m}, !.keep = @ \cup {EntryOf[m]}])
    /\ UNCHANGED <<stored, caches, left, faults, history>>

\* A surviving manifest that cannot be read keeps none of its files alive.
ReadLive(c) ==
    /\ At(c, "read live")
    /\ \E m \in call[c].live, o \in {"ok", "lost"} :
          /\ S3(o)
          /\ Stays(c, [call[c] EXCEPT
                !.live = @ \ {m},
                !.keep = IF o = "ok" /\ m \in manifests THEN @ \cup FilesOf[m] ELSE @])
          /\ blind' = (blind \/ o # "ok")
    /\ UNCHANGED <<stored, caches, left, raced, replaced, settled>>

LiveRead(c) ==
    /\ At(c, "read live")
    /\ call[c].live = {}
    /\ Goes(c, call[c])
    /\ UNCHANGED <<stored, caches, left, faults, history>>

\* Mutated: blobs that another manifest shares are not kept.
DoomedWithShared(c) == call[c].files

Doomed(c) == call[c].files \ call[c].keep

\* delete_many that fails may have deleted any of its keys.
DropBlobs(c) ==
    /\ At(c, "drop blobs")
    /\ \E o \in {"ok", "lost"} :
          /\ S3(o)
          /\ \E gone \in IF o = "ok" THEN {Doomed(c)} ELSE SUBSET Doomed(c) :
                blobs' = blobs \ gone
          /\ GoesIf(c, o = "ok")
    /\ UNCHANGED <<refs, manifests, caches, left, history>>

DropManifest(c) ==
    /\ At(c, "drop manifest")
    /\ \E o \in Outcomes :
          /\ S3(o)
          /\ manifests' = IF o = "lost" THEN manifests ELSE manifests \ {call[c].m}
          /\ GoesIf(c, o = "ok")
    /\ UNCHANGED <<refs, blobs, caches, left, history>>

-----------------------------------------------------------------------------
(* resolve, load_template and the listings                                   *)

\* A reference that names a hash must resolve to that hash.
Matches(r, m) == r.pin \in {None, m}

\* A fresh cache entry answers; otherwise storage does, and is cached next.
Resolve(c) ==
    /\ At(c, "resolve")
    /\ LET t == call[c].tag  hit == refCache[Host(c)][t] IN
       \/ /\ hit # None
          /\ IF Matches(call[c], hit) THEN Goes(c, [call[c] EXCEPT !.m = hit])
                                      ELSE Ends(c, "error")
          /\ UNCHANGED faults
       \/ /\ hit = None
          /\ \E o \in {"ok", "lost"} :
                /\ S3(o)
                /\ IF o = "ok" /\ refs[t] # None
                   THEN Stays(c, [call[c] EXCEPT !.m = refs[t], !.plan = <<"fill">> \o Tail(@)])
                   ELSE Ends(c, "error")
    /\ UNCHANGED <<stored, caches, left, history>>

FillRefCache(c) ==
    /\ At(c, "fill")
    /\ LET t == call[c].tag  m == call[c].m  i == Host(c) IN
       /\ refCache' = [refCache EXCEPT ![i][t] = m]
       /\ GoesIf(c, Matches(call[c], m))
    /\ UNCHANGED <<stored, objects, left, faults, history>>

\* get_immutable: from the cache, or from storage into the cache.
Fetch(c, key, o) ==
    LET i == Host(c) IN
    IF key \in objects[i] THEN o = "ok" /\ UNCHANGED <<objects, faults>>
    ELSE /\ S3(o)
         /\ objects' = IF o = "ok" /\ key \in manifests \cup blobs
                       THEN [objects EXCEPT ![i] = @ \cup {key}] ELSE objects

Got(c, key) == key \in objects'[Host(c)]

LoadManifest(c) ==
    /\ At(c, "manifest")
    /\ \E o \in {"ok", "lost"} : Fetch(c, call[c].m, o)
    /\ IF Got(c, call[c].m)
       THEN Goes(c, [call[c] EXCEPT !.files = FilesOf[call[c].m]])
       ELSE Ends(c, "error")
    /\ UNCHANGED <<stored, refCache, left, history>>

LoadEntrypoint(c) ==
    /\ At(c, "entry")
    /\ \E o \in {"ok", "lost"} : Fetch(c, EntryOf[call[c].m], o)
    /\ GoesIf(c, Got(c, EntryOf[call[c].m]))
    /\ UNCHANGED <<stored, refCache, left, history>>

\* hydrate_file_system: all files at once, so in any order.
HydrateFile(c) ==
    /\ At(c, "hydrate")
    /\ \E f \in call[c].files, o \in {"ok", "lost"} :
          /\ Fetch(c, f, o)
          /\ LET r == [call[c] EXCEPT !.files = @ \ {f}] IN
             CASE ~Got(c, f) -> Ends(c, "error")
               [] Got(c, f) /\ r.files = {} -> Goes(c, r)
               [] OTHER -> Stays(c, r)
    /\ UNCHANGED <<stored, refCache, left, history>>

\* list_templates scans every tag, get_template_info those of one name.
InScope(c) == IF call[c].kind = "list" THEN Names ELSE {call[c].tag[1]}

Scan(c) ==
    /\ At(c, "scan")
    /\ LET seen == {t \in Tagged : t[1] \in InScope(c)} IN
       \E o \in {"ok", "lost"} :
          /\ S3(o)
          /\ IF o = "lost" \/ (seen = {} /\ call[c].kind # "list")
             THEN Ends(c, "error")
             ELSE Goes(c, [call[c] EXCEPT !.tags = seen])
    /\ UNCHANGED <<stored, caches, left, history>>

\* Mutated: always the tag latest.
PreferredLatest(ts, n) == <<n, 0>>

\* latest if there is one, otherwise the first tag in order.
Preferred(ts, n) ==
    CHOOSE t \in ts : t[1] = n /\ \A u \in ts : u[1] = n => t[2] <= u[2]

\* A template whose preferred tag or manifest cannot be read is left out of
\* the list; a lookup of that one template fails.
SkipOrFail(c, r) == IF r.kind = "list" THEN Stays(c, r) ELSE Ends(c, "error")

ReadPreferred(c) ==
    /\ At(c, "info")
    /\ \E n \in {t[1] : t \in call[c].tags}, o \in {"ok", "lost"} :
       LET m == refs[Preferred(call[c].tags, n)]
           r == [call[c] EXCEPT !.tags = {t \in @ : t[1] # n}]
       IN /\ S3(o)
          /\ IF o = "ok" /\ m # None
             THEN Stays(c, [r EXCEPT !.m = m, !.live = {n}, !.plan = <<"describe">> \o @])
             ELSE SkipOrFail(c, r)
    /\ UNCHANGED <<stored, caches, left, history>>

Describe(c) ==
    /\ At(c, "describe")
    /\ \E o \in {"ok", "lost"} : Fetch(c, call[c].m, o)
    /\ LET r == [call[c] EXCEPT !.plan = Tail(@), !.live = {}] IN
       IF Got(c, r.m) THEN Stays(c, [r EXCEPT !.found = @ \cup call[c].live]) ELSE SkipOrFail(c, r)
    /\ UNCHANGED <<stored, refCache, left, history>>

Described(c) ==
    /\ At(c, "info")
    /\ call[c].tags = {}
    /\ Goes(c, call[c])
    /\ UNCHANGED <<stored, caches, left, faults, history>>

-----------------------------------------------------------------------------
(* The environment                                                           *)

\* An entry of the ref cache is older than REF_CACHE_TTL, or evicted.
Expire(i, t) ==
    /\ refCache[i][t] # None
    /\ refCache' = [refCache EXCEPT ![i][t] = None]
    /\ UNCHANGED <<stored, objects, call, left, faults, history>>

Publishing(c) == PutFile(c) \/ PutManifest(c) \/ PutRef(c) \/ CacheRef(c)
Deleting(c) ==
    \/ FindRef(c) \/ DropRef(c) \/ ForgetRef(c) \/ ListRefs(c) \/ ReadRef(c) \/ RefsRead(c)
    \/ ReadOrphan(c) \/ ReadLive(c) \/ LiveRead(c) \/ DropBlobs(c) \/ DropManifest(c)
Loading(c) ==
    \/ Resolve(c) \/ FillRefCache(c) \/ LoadManifest(c) \/ LoadEntrypoint(c) \/ HydrateFile(c)
    \/ Scan(c) \/ ReadPreferred(c) \/ Describe(c) \/ Described(c)
Step(c) == Publishing(c) \/ Deleting(c) \/ Loading(c)

Next ==
    \/ \E c \in Clients, kind \in Offered, t \in Tags, m \in Manifests : Start(c, kind, t, m)
    \/ \E c \in Clients : Step(c)
    \/ \E i \in Instances, t \in Tags : Expire(i, t)

Spec == Init /\ [][Next]_vars

-----------------------------------------------------------------------------
(* Properties                                                                *)

Steps == {"put files", "put manifest", "put ref", "cache ref", "find ref", "drop ref",
          "forget ref", "list refs", "read refs", "read orphan", "read live", "drop blobs",
          "drop manifest", "resolve", "fill", "manifest", "entry", "hydrate", "scan", "info",
          "describe"}

CallType ==
    [kind : Kinds, plan : Seq(Steps),
     end : {"none", "ok", "error", "kept"}, at : Instances \cup {None},
     tag : Tags \cup {None}, m : Manifests \cup {None}, pin : Manifests \cup {None},
     tags : SUBSET Tags,
     live : SUBSET (Manifests \cup Names), files : SUBSET Files, keep : SUBSET Files,
     found : SUBSET Names, steady : SUBSET Names]

\* The registry stores what it is typed to store, and a call is at one of
\* the steps of its plan.
TypeOK ==
    /\ refs \in [Tags -> Manifests \cup {None}]
    /\ manifests \subseteq Manifests /\ blobs \subseteq Files
    /\ refCache \in [Instances -> [Tags -> Manifests \cup {None}]]
    /\ objects \in [Instances -> SUBSET (Manifests \cup Files)]
    /\ \A c \in Clients : call[c] \in CallType
    /\ left \in 0..MaxCalls /\ faults \in 0..MaxFaults
    /\ raced \in BOOLEAN /\ blind \in BOOLEAN /\ replaced \subseteq Manifests
    /\ settled \in [Tags -> Instances \cup Clients \cup {None}]

\* delete_version collects "only what nothing else references": as long as no
\* publish overlaps it and it can read every tag and manifest it keeps, what
\* a tag points to stays complete, whatever else fails and however many
\* deletes run at the same time.
Complete(m) == m \in manifests /\ FilesOf[m] \subseteq blobs

CollectionSparesTagged ==
    (~raced /\ ~blind) => \A t \in Tagged : Complete(refs[t])

\* The same without the excuse of a failed read: gc_orphaned removes a blob
\* "only if no *surviving* manifest still references it".
CollectionSparesReferenced == ~raced => \A t \in Tagged : Complete(refs[t])

\* Deletes that run at once do not each leave to the other what they orphan:
\* with nothing failing, once all calls have ended the store holds no manifest
\* without a tag.  A manifest that lost its tag to a republish is never
\* collected.
Undisturbed == ~raced /\ faults = MaxFaults
AllIdle == \A c \in Clients : call[c].plan = <<>>

OrphansAreCollected ==
    Undisturbed /\ AllIdle => manifests \subseteq {refs[t] : t \in Tagged} \cup replaced

\* Nor does it hold a blob without a manifest, which is true of two deletes at
\* once and false of three (TemplateLeak.cfg): a delete takes a manifest that
\* another one dropped before it could read it for one without files.
BlobsAreCollected ==
    Undisturbed /\ AllIdle => blobs \subseteq UNION {FilesOf[m] : m \in manifests}

\* A publish or a delete that had its tag to itself from its start to the write
\* of the cache (no other write of the tag anywhere, no call that resolves it at
\* the same instance) leaves its instance serving what it wrote: whatever other
\* tags, instances and later resolves do, until another write of the tag starts.
OwnWriteIsSeen ==
    \A t \in Tags, i \in Instances :
        settled[t] = i => refCache[i][t] \in {None, refs[t]}

\* What REF_CACHE_TTL says without that condition, for a single instance: "a
\* republish on this instance updates the entry immediately".  Once all calls
\* have ended, the one cache there is holds no other hash than storage; which is
\* false of two publishes whose last steps cross (TemplateStale.cfg).
RepublishIsSeen ==
    \A t \in Tags, i \in Instances :
        Instances = {i} /\ AllIdle => refCache[i][t] \in {None, refs[t]}

\* list_templates leaves out only templates that changed while it ran.
ListingIsComplete ==
    \A c \in Clients :
        (call[c].kind = "list" /\ call[c].end = "ok" /\ ~raced /\ faults = MaxFaults)
            => {t[1] : t \in Tagged} \cap call[c].steady = call[c].found \cap call[c].steady

\* A load of a tag fails only for a storage fault, or because the tag has
\* moved on from the manifest it resolved to (then the cached hash was stale
\* or the template was deleted under the call).
LoadFailsOnlyWhenGone ==
    [][\A c \in Clients :
         (/\ At(c, "manifest") \/ At(c, "entry") \/ At(c, "hydrate")
          /\ call'[c].end = "error" /\ faults' = faults)
            => (raced \/ blind \/ refs[call[c].tag] # call[c].m)]_vars
=============================================================================
