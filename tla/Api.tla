-------------------------------- MODULE Api --------------------------------
(***************************************************************************)
(* The HTTP API over the registry: how an error that arises at one step of  *)
(* a request becomes a status, and how long lists are paged.                 *)
(*                                                                           *)
(* A handler is the sequence of the steps it takes; a fault happens at one    *)
(* of them. An error is a pair of its type and its variant.                  *)
(*                                                                           *)
(* Sources: papermake-server routes/*.rs, error.rs, models/api.rs;           *)
(* papermake-registry registry/*.rs, error.rs, render_storage/types.rs.      *)
(***************************************************************************)
EXTENDS Inquiry

CONSTANTS MaxList,  \* bound: entries of a list; U32Max, the last offset, is just above it
          MaxLimit, \* bound: the limit a client asks for, from 0
          PageCap   \* MAX_RENDER_PAGE_LIMIT and MAX_JOB_ITEMS_LIMIT

ASSUME PageBoundsAssumption == MaxList \in Nat /\ MaxLimit \in Nat /\ PageCap \in Nat \ {0}

U32Max == MaxList + 1

-----------------------------------------------------------------------------
(* Errors                                                                    *)

Fine == <<"none", "none">>
Storage == <<"Storage", "Backend">>
BadReference == <<"Reference", "Invalid">>

BlobErrorBlanket(fault) == <<"RenderStorage", "NotFound">> \* mutant
\* map_blob_not_found
BlobError(fault) == IF fault = "absent" THEN <<"RenderStorage", "NotFound">> ELSE Storage

\* The objects that map_blob_not_found is used for.
ByRenderOrJob == {"meta", "pdf", "job"}
WriteSteps == {"put_data", "put_pdf", "put_meta", "put_file", "put_manifest", "put_ref",
           "put_shard", "put_job", "put_marker", "delete_ref", "delete_blobs"}
ReadSteps == {"list", "entrypoint", "blobs", "tag_ref"}
\* Steps that read, and whose failure is passed over.
Skipped == {"describe", "shard", "live_refs", "orphan"}
Checks == {"parse", "name", "pin", "form", "id", "inputs", "path"}

\* The error of a step for a fault; Fine when the code carries on.
StepError(step, fault) ==
    CASE step = "summary" -> IF fault = "absent" THEN Fine ELSE <<"RenderStorage", "Query">>
      [] step = "stage" -> <<"RenderStorage", "Query">>
      [] step \in Skipped -> Fine
      [] step = "results" -> IF fault = "absent" THEN Fine ELSE Storage
      [] step = "list_refs" -> IF fault = "absent" THEN <<"Api", "TemplateNotFound">> ELSE Storage
      [] step = "ref" -> IF fault = "absent" THEN <<"Template", "NotFound">> ELSE Storage
      [] step \in ByRenderOrJob ->
            IF fault = "corrupt" THEN <<"RenderStorage", "Serialization">> ELSE BlobError(fault)
      [] step = "manifest" -> IF fault = "corrupt" THEN <<"ContentAddressing", "ManifestError">> ELSE Storage
      [] step \in WriteSteps \cup ReadSteps -> Storage
      [] step \in {"parse", "name", "pin"} -> BadReference
      [] step \in {"form", "id", "inputs", "path"} -> <<"Api", "BadRequest">>
      [] step = "capacity" -> <<"RenderPool", "Exhausted">>
      [] step = "compile" -> IF fault = "slow" THEN <<"RenderPool", "Timeout">> ELSE <<"Template", "Invalid">>
      [] step = "export" -> <<"Compilation", "TypstError">>
      [] step = "outcome" -> <<"RenderStorage", "RenderFailed">>

Load == <<"ref", "pin", "manifest", "entrypoint", "blobs">>
Handler ==
    [render    |-> <<"parse">> \o Load \o <<"put_data", "capacity", "compile", "export", "put_pdf",
                                           "put_meta", "stage">>,
     source    |-> <<"parse", "ref", "pin", "manifest", "entrypoint">>,
     metadata  |-> <<"path", "ref", "pin", "list_refs", "tag_ref", "manifest">>,
     tags      |-> <<"list_refs", "tag_ref", "manifest">>,
     templates |-> <<"list", "describe">>,
     publish   |-> <<"form", "name", "put_file", "put_manifest", "put_ref">>,
     pdf       |-> <<"id", "meta", "outcome", "pdf">>,
     renders   |-> <<"summary">>,
     analytics |-> <<"summary">>,
     job       |-> <<"job", "list", "shard">>,
     items     |-> <<"job", "results">>,
     batch     |-> <<"inputs", "put_shard", "put_job", "put_marker">>,
     uiPublish |-> <<"name", "put_file", "put_manifest", "put_ref">>,
     uiDelete  |-> <<"name", "ref", "delete_ref", "list", "live_refs", "orphan", "delete_blobs">>]

\* What can go wrong at a step.
Faults(step) ==
    CASE step \in WriteSteps \cup {"stage", "list"} -> {"down"}
      [] step \in ByRenderOrJob \cup {"summary", "manifest"} -> {"absent", "down", "corrupt"}
      [] step \in Skipped \cup {"ref", "list_refs", "results", "entrypoint", "blobs", "tag_ref"}
            -> {"absent", "down"}
      [] step \in Checks -> {"bad"}
      [] step = "capacity" -> {"full"}
      [] step = "compile" -> {"slow", "broken"}
      [] step \in {"export", "outcome"} -> {"broken"}

\* How a handler passes an error of the registry on.
Wrapped(endpoint, error) ==
    IF error = Fine \/ error[1] = "Api" THEN error
    ELSE CASE endpoint = "batch" \/ (endpoint = "renders" /\ error[1] = "RenderStorage") -> <<"Api", "Internal">>
           [] endpoint \in {"uiPublish", "uiDelete"} -> <<"Api", "BadRequest">>
           [] OTHER -> error

\* ApiError::into_response; of the other errors of a template or of a render, the
\* client is shown the diagnostics.
NotFound == {<<"Api", "TemplateNotFound">>, <<"Template", "NotFound">>, <<"RenderStorage", "NotFound">>}
Status(error) ==
    CASE error = Fine -> 200
      [] error \in NotFound -> 404
      [] error = <<"Api", "BadRequest">> \/ error[1] = "Reference" -> 400
      [] error = <<"RenderPool", "Timeout">> -> 408
      [] error = <<"RenderPool", "Exhausted">> -> 503
      [] \/ error[1] \in {"Template", "Compilation"} /\ error \notin NotFound
         \/ error = <<"RenderStorage", "RenderFailed">> -> 422
      [] OTHER -> 500

Steps(endpoint) == {Handler[endpoint][i] : i \in DOMAIN Handler[endpoint]}
Requests ==
    {r \in [endpoint : DOMAIN Handler, step : UNION {Steps(e) : e \in DOMAIN Handler},
            fault : {"absent", "down", "corrupt", "bad", "full", "slow", "broken"}] :
        r.step \in Steps(r.endpoint) /\ r.fault \in Faults(r.step)}

Respond(request) == Status(Wrapped(request.endpoint, StepError(request.step, request.fault)))

-----------------------------------------------------------------------------
(* Pages. A list is the sequence of its entries; a page has the entries, and  *)
(* its PaginationInfo tells whether there are more and with the limit that     *)
(* held where the next page begins. A job's items come without one.           *)

\* skip, then take
Window(list, offset, limit) == SubSeq(list, offset + 1, AtMost(offset + limit, Len(list)))

\* list_templates, after the search; PaginatedResponse::new with a total.
TemplatesPage(list, offset, limit) ==
    LET page == Window(list, offset, limit)
    IN [data |-> page, more |-> offset + Len(page) < Len(list), next |-> offset + limit]

\* list_renders: one more than the window is fetched, in saturating arithmetic.
RendersPage(list, offset, limit) ==
    LET size == AtLeast(1, AtMost(limit, PageCap))
        fetched == Window(list, 0, AtMost(offset + size + 1, U32Max))
        rest == Window(fetched, offset, Len(fetched))
    IN [data |-> Window(rest, 0, size), more |-> Len(rest) > size, next |-> offset + size]

ShardsOfFloor(job, offset, end) == \* mutant
    (offset \div job.shardSize)..(end \div job.shardSize - 1)
\* The shards that hold the items offset..end-1.
ShardsOf(job, offset, end) == (offset \div job.shardSize)..((end - 1) \div job.shardSize)

\* get_job_items and list_job_items: the items of the completed shards.
ItemsPage(job, offset, limit) ==
    LET size == AtMost(limit, PageCap)
        end == AtMost(offset + size, job.total)
        items == {i \in offset..end - 1 :
                    \E k \in ShardsOf(job, offset, end) \cap job.done : i \div job.shardSize = k}
    IN IF size = 0 \/ offset >= job.total THEN <<>> ELSE Ascending(items)

\* What a client makes of it, who has the total from the job and knows what the
\* limit is clamped to: the items of a shard that is not done are left out, so the
\* length of a page tells nothing.
ItemsSeen(job, offset, limit) ==
    LET next == offset + AtMost(limit, PageCap)
    IN [data |-> ItemsPage(job, offset, limit), more |-> next < job.total, next |-> next]

\* A client that pages through a list from where it starts, which may be the end of
\* the list or past it, while there is more. A page that leads back to itself tells
\* the client nothing new: it would be asked for without end.
Offsets == 0..U32Max
Walk(page, start) ==
    LET from[offset \in Offsets] ==
            IF page[offset].more /\ page[offset].next # offset
            THEN [data |-> page[offset].data \o from[page[offset].next].data,
                  ends |-> from[page[offset].next].ends]
            ELSE [data |-> page[offset].data, ends |-> ~page[offset].more]
    IN from[start]

Lists == {[i \in 1..n |-> i] : n \in 0..MaxList}
\* Jobs with the shards that are completed, each of which has an item.
PagedJobs ==
    {job \in [total : 1..MaxList, shardSize : 1..MaxLimit, done : SUBSET (0..MaxList - 1)] :
        \A k \in job.done : k * job.shardSize < job.total}
Limits == 0..MaxLimit

ApiQuestions ==
    [kind : {"request"}, request : Requests]
        \cup [kind : {"templates", "renders"}, list : Lists, limit : Limits,
              start : Offsets]
        \cup [kind : {"items"}, job : PagedJobs, limit : Limits, start : Offsets]

AnswerRequest == question.kind = "request" /\ Answer("request", Respond(question.request))
AnswerTemplates ==
    /\ question.kind = "templates"
    /\ Answer("templates", Walk([offset \in Offsets |-> TemplatesPage(question.list, offset, question.limit)],
                           question.start))
AnswerRenders ==
    /\ question.kind = "renders"
    /\ Answer("renders", Walk([offset \in Offsets |-> RendersPage(question.list, offset, question.limit)],
                           question.start))
AnswerItems ==
    /\ question.kind = "items"
    /\ Answer("items", Walk([offset \in Offsets |-> ItemsSeen(question.job, offset, question.limit)],
                       question.start))

ApiNext == AnswerRequest \/ AnswerTemplates \/ AnswerRenders \/ AnswerItems

-----------------------------------------------------------------------------
ClientsFault == {"bad", "broken"}
StoresFault == {"down", "corrupt"}
\* The steps that look up what the client names.
LookupSteps(endpoint) ==
    CASE endpoint \in {"render", "source", "metadata"} -> {"ref", "list_refs"}
      [] endpoint = "tags" -> {"list_refs"}
      [] OTHER -> ByRenderOrJob

\* A client can tell from the status whose fault it is: an outage or a broken
\* object is never answered as "not found" or as a bad request (it is a 5xx,
\* or the read is passed over), what the client got wrong is never a 5xx, and 404
\* is the answer exactly when what it names does not exist. The forms of the UI
\* answer 400 to everything; but no request that changes something is answered
\* as a success when a step of it failed, unless the step is only a sweep's read. A
\* read that is passed over fails no request.
StatusTellsWhoseFault ==
    Replied("request") =>
        LET e == question.request.endpoint
            s == question.request.step
            fault == question.request.fault
        IN /\ e \notin {"uiPublish", "uiDelete"} =>
                /\ fault \in StoresFault => answer >= 500 \/ s \in Skipped
                /\ fault \in ClientsFault => answer \in 400..499 \ {404}
                /\ answer = 404 <=> fault = "absent" /\ s \in LookupSteps(e)
           /\ e \in {"render", "publish", "batch", "uiPublish", "uiDelete"} =>
                answer >= 400 \/ s \in Skipped
           /\ s \in Skipped => answer = 200

\* Wherever it starts, a client that pages through a list sees every entry from
\* there on, once and in order, and comes to an end; of a job, the items of the
\* completed shards, wherever the pages fall on the shards. So it is for renders
\* whatever the limit. Templates do not clamp it, and items only from above: with a
\* limit of zero the client sees nothing, and while there is something to see it
\* is told for ever that there is more.
WalkSeesAll ==
    LET stuck(size) == question.limit = 0 /\ question.start < size
        left == SubSeq(question.list, question.start + 1, Len(question.list))
    IN  /\ Replied("templates") =>
            IF stuck(Len(question.list)) THEN answer = [data |-> <<>>, ends |-> FALSE]
            ELSE answer = [data |-> left, ends |-> TRUE]
        /\ Replied("renders") => answer = [data |-> left, ends |-> TRUE]
        /\ Replied("items") =>
            LET items == {i \in question.start..question.job.total - 1 :
                            i \div question.job.shardSize \in question.job.done}
                seen == answer.data
            IN IF stuck(question.job.total) THEN answer = [data |-> <<>>, ends |-> FALSE]
               ELSE /\ answer.ends
                    /\ {seen[n] : n \in DOMAIN seen} = items
                    /\ \A n, m \in DOMAIN seen : n < m => seen[n] < seen[m]
=============================================================================
