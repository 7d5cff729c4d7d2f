---------------------------- MODULE RenderStore ----------------------------
(***************************************************************************)
(* The life of rendered outputs: a server renders and stores them, stages a *)
(* record of each in a memory buffer and flushes the buffer to S3; a        *)
(* maintenance worker aggregates the flushed records into summary.json and  *)
(* prunes what has expired.  The expiry index written by the flush is the   *)
(* only thing that ever prunes an output.                                   *)
(*                                                                          *)
(* Every S3 call is an action.  Sources: registry/history.rs,               *)
(* render_storage/s3_buffered.rs, retention.rs, aggregator.rs, and the main *)
(* loops of papermake-server and papermake-worker.                          *)
(***************************************************************************)
EXTENDS Integers, Sequences, FiniteSets

CONSTANTS
    Clients,      \* requests in flight on the server
    Loop, Main,   \* its flush loop, and main flushing at shutdown
    Ids,          \* render ids
    Retains,      \* retention of a render in days; 0 keeps it forever
    RawDays,      \* ANALYTICS_RETENTION_DAYS
    FlushMax,     \* flush_max_records
    Cap,          \* max_buffered_records
    MaxDay,       \* bound: the last day; the first is 1
    MaxRenders,   \* bound: render requests
    Mishaps,      \* bound: what may go wrong, of Kinds
    MaxMishaps    \* bound: how often

\* A storage call fails, a process is killed, a client disconnects, or the
\* server is told to stop.
Kinds == {"fault", "crash", "cancel", "stop"}

Flushers == Clients \cup {Loop, Main}

ASSUME TasksAssumption == Loop # Main /\ Clients \cap {Loop, Main} = {}
ASSUME RetentionAssumption == Retains \subseteq Nat /\ RawDays \in Nat /\ MaxDay \in Nat \ {0}
ASSUME BufferAssumption == FlushMax \in Nat \ {0} /\ Cap \in Nat \ {0}
ASSUME LimitsAssumption == MaxRenders \in Nat /\ Mishaps \subseteq Kinds /\ MaxMishaps \in Nat

VARIABLES
    data, pdf,  \* renders/{id}/data and renders/{id}/pdf
    meta,       \* renders/{id}/meta.json, or NoMeta
    raw,        \* records under analytics/raw/
    index,      \* files under expiry/: a date, ids and a sequence number
    summary,    \* ids counted by summary.json
    up,         \* the server: "up", "draining", "flushed" or "down"
    request,    \* the render request of each client
    buffer,     \* staged records
    flight,     \* what each flush has drained and not written yet
    seq,        \* the sequence number of index files
    worker,     \* the maintenance cycle
    day,        \* the date
    renders,    \* render requests left
    left,       \* mishaps left
    lost,       \* history: ids with a record lost by a crash, a cap or an error
    cut,        \* history: ids with a record lost by an orderly shutdown
    clash       \* history: open, ids rendered between prune's look at them and its
                \* delete; hit, those of which it has deleted something then

artifacts == <<data, pdf, meta>>
analytics == <<raw, index, summary>>
server == <<up, request, buffer, flight, seq>>
vars == <<artifacts, analytics, server, renders, worker, day, left, lost, cut, clash>>

NoMeta == [ok |-> FALSE, expiry |-> -1]

\* expiry_date: 0 days means never, written 0 here.
Expiry(d, retain) == IF retain = 0 THEN 0 ELSE d + retain
IsDue(expiry, today) == expiry > 0 /\ expiry <= today

NoRequest == [step |-> "none", id |-> CHOOSE i \in Ids : TRUE, retain |-> 0,
              ok |-> FALSE, day |-> 0]
NoFlight == [recs |-> <<>>, raws |-> {}, dates |-> {}]
Resting == [step |-> "rest", today |-> 0, files |-> {}, ids |-> {}, doomed |-> {}, eaten |-> {},
            seen |-> {}]

Init ==
    /\ data = {} /\ pdf = {} /\ meta = [i \in Ids |-> NoMeta]
    /\ raw = {} /\ index = {} /\ summary = {}
    /\ up = "up" /\ buffer = <<>> /\ seq = 0
    /\ request = [c \in Clients |-> NoRequest]
    /\ flight = [f \in Flushers |-> NoFlight]
    /\ worker = Resting
    /\ day = 1
    /\ renders = MaxRenders /\ left = MaxMishaps
    /\ lost = {} /\ cut = {} /\ clash = [open |-> {}, hit |-> {}]

-----------------------------------------------------------------------------
(* One storage call: it succeeds, is lost, or takes effect and reports an    *)
(* error.                                                                    *)

Outcomes == {"ok", "lost", "applied"}
Suffer(kind) == kind \in Mishaps /\ left > 0 /\ left' = left - 1
S3(o) == o \in Outcomes /\ IF o = "ok" THEN UNCHANGED left ELSE Suffer("fault")
Put(set, e, o) == IF o = "lost" THEN set ELSE set \cup {e}

-----------------------------------------------------------------------------
(* render_and_store_with                                                     *)

\* Some request is storing the output, with its meta.json still to come.
Storing(id) ==
    \E c \in Clients : request[c].step \in {"data", "render", "pdf", "meta"} /\ request[c].id = id

Ask(c, id, retain) ==
    /\ up = "up" /\ request[c].step = "none"
    /\ renders > 0 /\ renders' = renders - 1
    /\ request' = [request EXCEPT ![c] = [NoRequest EXCEPT !.step = "data", !.id = id, !.retain = retain]]
    /\ clash' = [open |-> clash.open \cup (worker.doomed \cap {id}), hit |-> clash.hit]
    /\ UNCHANGED <<artifacts, analytics, up, buffer, flight, seq, worker, day, left, lost, cut>>

At(c, step) == request[c].step = step
Goes(c, step) == request' = [request EXCEPT ![c].step = step]
Returns(c) == request' = [request EXCEPT ![c] = NoRequest]
GoesIf(c, o, step) == IF o = "ok" THEN Goes(c, step) ELSE Returns(c)
\* The record is stamped once there is an outcome.
Stamped(c, ok) == request' = [request EXCEPT ![c].step = "meta", ![c].ok = ok, ![c].day = day]

\* Every render keeps its input, a failed one too.
PutData(c) ==
    /\ At(c, "data")
    /\ \E o \in Outcomes :
          /\ S3(o)
          /\ data' = Put(data, request[c].id, o)
          /\ GoesIf(c, o, "render")
    /\ UNCHANGED <<pdf, meta, analytics, up, buffer, flight, seq, renders, worker, day, lost, cut, clash>>

\* Loading the template or rendering may fail; that is recorded as well.
Render(c) ==
    /\ At(c, "render")
    /\ Goes(c, "pdf") \/ Stamped(c, FALSE)
    /\ UNCHANGED <<artifacts, analytics, up, buffer, flight, seq, renders, worker, day, left, lost, cut, clash>>

PutPdf(c) ==
    /\ At(c, "pdf")
    /\ \E o \in Outcomes :
          /\ S3(o)
          /\ pdf' = Put(pdf, request[c].id, o)
          /\ IF o = "ok" THEN Stamped(c, TRUE) ELSE Returns(c)
    /\ UNCHANGED <<data, meta, analytics, up, buffer, flight, seq, renders, worker, day, lost, cut, clash>>

Record(c) == LET r == request[c] IN
    [id |-> r.id, day |-> r.day, ok |-> r.ok, expiry |-> Expiry(r.day, r.retain)]

PutMeta(c) ==
    /\ At(c, "meta")
    /\ LET rec == Record(c) IN
       \E o \in Outcomes :
          /\ S3(o)
          /\ meta' = IF o = "lost" THEN meta
                     ELSE [meta EXCEPT ![rec.id] = [ok |-> rec.ok, expiry |-> rec.expiry]]
          /\ GoesIf(c, o, "stage")
          /\ lost' = IF o = "applied" THEN lost \cup {rec.id} ELSE lost
    /\ UNCHANGED <<data, pdf, analytics, up, buffer, flight, seq, renders, worker, day, cut, clash>>

\* store_render: the push, and a flush once the buffer is long enough.
Stage(c) ==
    /\ At(c, "stage")
    /\ buffer' = Append(buffer, Record(c))
    /\ IF Len(buffer') >= FlushMax THEN Goes(c, "flush") ELSE Returns(c)
    /\ UNCHANGED <<artifacts, analytics, up, flight, seq, renders, worker, day, left, lost, cut, clash>>

-----------------------------------------------------------------------------
(* flush and write_drained                                                   *)

Recs(f) == {flight[f].recs[i] : i \in DOMAIN flight[f].recs}
Flushing(f) == flight[f].recs # <<>>
Returned(f) ==
    /\ up' = IF f = Main THEN "flushed" ELSE up
    /\ IF f \in Clients THEN Returns(f) ELSE UNCHANGED request
MayFlush(f) ==
    \/ f \in Clients /\ At(f, "flush")
    \/ f = Loop /\ up = "up"
    \/ f = Main /\ up = "draining" /\ \A c \in Clients : At(c, "none")

\* The drained records are split by render date and by expiry date.
Drain(f) ==
    /\ MayFlush(f) /\ ~Flushing(f) /\ buffer # <<>>
    /\ LET recs == {buffer[i] : i \in DOMAIN buffer} IN
       flight' = [flight EXCEPT ![f] =
           [recs |-> buffer, raws |-> {r.day : r \in recs}, dates |-> {r.expiry : r \in recs} \ {0}]]
    /\ buffer' = <<>>
    /\ UNCHANGED <<artifacts, analytics, up, request, seq, renders, worker, day, left, lost, cut, clash>>

\* Another flush has taken the records meanwhile.
NothingToFlush(c) ==
    /\ At(c, "flush") /\ ~Flushing(c) /\ buffer = <<>>
    /\ Returns(c)
    /\ UNCHANGED <<artifacts, analytics, up, buffer, flight, seq, renders, worker, day, left, lost, cut, clash>>

\* A put failed: the drained records go back in front of what was staged
\* since, and the oldest beyond the cap are dropped.
DrainedForgotten(f) == buffer \* mutant
Drained(f) == flight[f].recs \o buffer
Restage(f) ==
    LET all == Drained(f)
        over == IF Len(all) > Cap THEN Len(all) - Cap ELSE 0
    IN /\ buffer' = SubSeq(all, over + 1, Len(all))
       /\ lost' = lost \cup {all[i].id : i \in 1..over}
       /\ flight' = [flight EXCEPT ![f] = NoFlight]
       /\ Returned(f)

Earliest(dates) == CHOOSE d \in dates : \A e \in dates : d <= e

\* The flush ends with its last put.
Written(f, fl) ==
    /\ flight' = [flight EXCEPT ![f] = IF fl.raws = {} /\ fl.dates = {} THEN NoFlight ELSE fl]
    /\ IF fl.raws = {} /\ fl.dates = {} THEN Returned(f) ELSE UNCHANGED <<up, request>>
    /\ UNCHANGED <<buffer, lost>>

PutRaw(f) ==
    /\ flight[f].raws # {}
    /\ LET d == Earliest(flight[f].raws) IN
       \E o \in Outcomes :
          /\ S3(o)
          /\ raw' = IF o = "lost" THEN raw ELSE raw \cup {r \in Recs(f) : r.day = d}
          /\ IF o = "ok" THEN Written(f, [flight[f] EXCEPT !.raws = @ \ {d}]) ELSE Restage(f)
    /\ UNCHANGED <<artifacts, index, summary, seq, renders, worker, day, cut, clash>>

IndexFileNextSeq(d, ids) == [date |-> d, ids |-> ids, seq |-> seq + 1] \* mutant
IndexFile(d, ids) == [date |-> d, ids |-> ids, seq |-> seq]

PutIndex(f) ==
    /\ flight[f].raws = {} /\ flight[f].dates # {}
    /\ LET d == Earliest(flight[f].dates)
           ids == {r.id : r \in {q \in Recs(f) : q.expiry = d}}
       IN \E o \in Outcomes :
          /\ S3(o)
          /\ index' = Put(index, IndexFile(d, ids), o)
          /\ seq' = seq + 1
          /\ IF o = "ok" THEN Written(f, [flight[f] EXCEPT !.dates = @ \ {d}]) ELSE Restage(f)
    /\ UNCHANGED <<artifacts, raw, summary, renders, worker, day, cut, clash>>

-----------------------------------------------------------------------------
(* The server process                                                        *)

InMemory == {buffer[i].id : i \in DOMAIN buffer}
            \cup {r.id : r \in UNION {Recs(f) : f \in Flushers}}
\* A request that has put its meta.json and not staged its record.
Unstaged(c) == IF At(c, "stage") THEN {request[c].id} ELSE {}

SignalStop ==
    /\ up = "up" /\ Suffer("stop")
    /\ up' = "draining"
    /\ UNCHANGED <<artifacts, analytics, request, buffer, flight, seq, renders, worker, day, lost, cut, clash>>

Gone(state) ==
    /\ up' = state /\ buffer' = <<>>
    /\ flight' = [f \in Flushers |-> NoFlight]
    /\ request' = [c \in Clients |-> NoRequest]

\* All requests have ended and main's own flush has returned, well or not, or
\* found the buffer empty; the runtime drops the flush loop wherever it is.
Exit ==
    /\ \/ up = "flushed"
       \/ MayFlush(Main) /\ ~Flushing(Main) /\ buffer = <<>>
    /\ Gone("down")
    /\ cut' = cut \cup InMemory
    /\ UNCHANGED <<artifacts, analytics, seq, renders, worker, day, left, lost, clash>>

Crash ==
    /\ up # "down" /\ Suffer("crash")
    /\ Gone("down")
    /\ lost' = lost \cup InMemory \cup UNION {Unstaged(c) : c \in Clients}
    /\ UNCHANGED <<artifacts, analytics, seq, renders, worker, day, cut, clash>>

Restart ==
    /\ up = "down" /\ Gone("up")
    /\ UNCHANGED <<artifacts, analytics, seq, renders, worker, day, left, lost, cut, clash>>

\* The client disconnects: the handler is dropped at its await point, with
\* the records its flush has drained.
Cancel(c) ==
    /\ request[c].step # "none" /\ Suffer("cancel")
    /\ Returns(c)
    /\ flight' = [flight EXCEPT ![c] = NoFlight]
    /\ lost' = lost \cup {r.id : r \in Recs(c)} \cup Unstaged(c)
    /\ UNCHANGED <<artifacts, analytics, up, buffer, seq, renders, worker, day, cut, clash>>

-----------------------------------------------------------------------------
(* The maintenance worker: aggregator::run, then retention::prune            *)

On(step) == worker.step = step
Does(w) == worker' = w
outside == <<server, renders, day, lost, cut>>

\* load_raw_records; the date of the cycle is taken first.
Aggregate ==
    /\ On("rest")
    /\ \E o \in {"ok", "lost"} :
          /\ S3(o)
          /\ Does([Resting EXCEPT !.step = IF o = "ok" THEN "summary" ELSE "expiry",
                                  !.today = day, !.seen = {r.id : r \in raw}])
    /\ clash' = [open |-> {}, hit |-> clash.hit]
    /\ UNCHANGED <<artifacts, analytics, outside>>

PutSummary ==
    /\ On("summary")
    /\ \E o \in Outcomes :
          /\ S3(o)
          /\ summary' = IF o = "lost" THEN summary ELSE worker.seen
    /\ Does([worker EXCEPT !.step = "expiry", !.seen = {}])
    /\ UNCHANGED <<artifacts, raw, index, outside, clash>>

\* An error anywhere ends the pass; the next cycle starts over.
DoesIf(o, w) == Does(IF o = "ok" THEN w ELSE Resting)

DueBefore(file) == file.date < worker.today \* mutant
DueFile(file) == file.date <= worker.today

ListExpiry ==
    /\ On("expiry")
    /\ \E o \in {"ok", "lost"} :
          /\ S3(o)
          /\ DoesIf(o, [worker EXCEPT !.step = "read",
                          !.files = {f \in index : DueFile(f)}])
    /\ UNCHANGED <<artifacts, analytics, outside, clash>>

\* The entries of one due file.
ReadExpiry ==
    /\ On("read")
    /\ \E f \in worker.files, o \in {"ok", "lost"} :
          /\ S3(o)
          /\ DoesIf(o, [worker EXCEPT !.files = @ \ {f}, !.eaten = @ \cup {f}, !.ids = @ \cup f.ids])
    /\ UNCHANGED <<artifacts, analytics, outside, clash>>

\* expiry_entry_is_due: meta.json decides, and an absent one is due.
EntryIsBelieved(id) == TRUE \* mutant
EntryForeverIsDue(id) == meta[id] = NoMeta \/ meta[id].expiry <= worker.today \* mutant
EntryIsDue(id) == meta[id] = NoMeta \/ IsDue(meta[id].expiry, worker.today)

CheckMeta ==
    /\ On("read") /\ worker.files = {}
    /\ \E id \in worker.ids, o \in {"ok", "lost"} :
          /\ S3(o)
          /\ DoesIf(o, [worker EXCEPT !.ids = @ \ {id},
                                      !.doomed = IF EntryIsDue(id) THEN @ \cup {id} ELSE @])
          /\ clash' = [open |-> IF Storing(id) THEN clash.open \cup {id} ELSE clash.open,
                       hit |-> clash.hit]
    /\ UNCHANGED <<artifacts, analytics, outside>>

\* A delete_many that fails may have deleted any of its keys.
DropArtifacts ==
    /\ On("read") /\ worker.files = {} /\ worker.ids = {}
    /\ LET all == {"meta", "pdf", "data"} \X worker.doomed IN
       \E o \in {"ok", "lost"} : \E gone \in IF o = "ok" THEN {all} ELSE SUBSET all :
          /\ S3(o)
          /\ meta' = [i \in Ids |-> IF <<"meta", i>> \in gone THEN NoMeta ELSE meta[i]]
          /\ pdf' = {i \in pdf : <<"pdf", i>> \notin gone}
          /\ data' = {i \in data : <<"data", i>> \notin gone}
          /\ clash' = [open |-> clash.open, hit |-> clash.hit \cup {i \in clash.open : \E k \in gone : k[2] = i}]
          /\ DoesIf(o, [worker EXCEPT !.step = "index", !.doomed = {}])
    /\ UNCHANGED <<analytics, outside>>

DropIndex ==
    /\ On("index")
    /\ \E o \in {"ok", "lost"} : \E gone \in IF o = "ok" THEN {worker.eaten} ELSE SUBSET worker.eaten :
          /\ S3(o)
          /\ index' = index \ gone
          /\ DoesIf(o, [worker EXCEPT !.step = "raw", !.eaten = {}])
    /\ UNCHANGED <<artifacts, raw, summary, outside, clash>>

\* A raw file holds the records of one date.
ListRaw ==
    /\ On("raw")
    /\ \E o \in {"ok", "lost"} :
          /\ S3(o)
          /\ DoesIf(o, [worker EXCEPT !.step = "drop raw",
                          !.seen = {r \in raw : r.day < worker.today - RawDays}])
    /\ UNCHANGED <<artifacts, analytics, outside, clash>>

DropRaw ==
    /\ On("drop raw")
    /\ \E o \in {"ok", "lost"} : \E gone \in IF o = "ok" THEN {worker.seen} ELSE SUBSET worker.seen :
          /\ S3(o)
          /\ raw' = raw \ gone
    /\ Does(Resting)
    /\ UNCHANGED <<artifacts, index, summary, outside, clash>>

\* The worker is killed in the middle of a cycle, and starts over.
WorkerCrash ==
    /\ ~On("rest") /\ Suffer("crash")
    /\ Does(Resting)
    /\ UNCHANGED <<artifacts, analytics, outside, clash>>

Midnight ==
    /\ day < MaxDay
    /\ day' = day + 1
    /\ UNCHANGED <<artifacts, analytics, server, renders, worker, left, lost, cut, clash>>

-----------------------------------------------------------------------------
Request(c) == PutData(c) \/ Render(c) \/ PutPdf(c) \/ PutMeta(c) \/ Stage(c) \/ NothingToFlush(c)
Flush(f) == Drain(f) \/ PutRaw(f) \/ PutIndex(f)
Maintain ==
    \/ Aggregate \/ PutSummary \/ ListExpiry \/ ReadExpiry \/ CheckMeta
    \/ DropArtifacts \/ DropIndex \/ ListRaw \/ DropRaw
Environment ==
    \/ SignalStop \/ Exit \/ Crash \/ Restart \/ WorkerCrash \/ Midnight
    \/ \E c \in Clients : Cancel(c)

Next ==
    \/ \E c \in Clients, id \in Ids, retain \in Retains : Ask(c, id, retain)
    \/ \E c \in Clients : Request(c)
    \/ \E f \in Flushers : Flush(f)
    \/ Maintain
    \/ Environment

Spec == Init /\ [][Next]_vars

\* Requests run to their end; the loops of server and worker wake up again
\* and again; a server that is down is restarted; days pass.
FairSpec ==
    /\ Spec
    /\ \A c \in Clients : WF_vars(Request(c) \/ Flush(c))
    /\ WF_vars(Flush(Loop)) /\ WF_vars(Flush(Main) \/ Exit \/ Restart)
    /\ WF_vars(Maintain) /\ WF_vars(Midnight)

-----------------------------------------------------------------------------
(* Properties                                                                *)

RecordType == [id : Ids, day : 1..MaxDay, ok : BOOLEAN, expiry : Nat]

TypeOK ==
    /\ data \subseteq Ids /\ pdf \subseteq Ids
    /\ meta \in [Ids -> {NoMeta} \cup [ok : BOOLEAN, expiry : Nat]]
    /\ \A r \in raw : r \in RecordType
    /\ \A f \in index : f.date \in Nat \ {0} /\ f.ids \subseteq Ids /\ f.seq < seq
    /\ summary \subseteq Ids
    /\ up \in {"up", "draining", "flushed", "down"}
    /\ buffer \in Seq(RecordType) /\ \A f \in Flushers : flight[f].recs \in Seq(RecordType)
    /\ \A c \in Clients : request[c].step \in
          {"none", "data", "render", "pdf", "meta", "stage", "flush"}
    /\ worker.today <= day

\* An output is served until it expires: whatever fails and however renewals,
\* retries and the steps of prune interleave, a meta.json that is not due has its
\* input and, for a success, its PDF. The exception is an id of which prune has
\* deleted something although it was rendered between prune's look at its
\* meta.json and the delete (retention.rs:112-122).
ServableUntilDue ==
    \A id \in Ids \ clash.hit :
        (meta[id] # NoMeta /\ ~IsDue(meta[id].expiry, day)) =>
            id \in data /\ (meta[id].ok => id \in pdf)

\* Prune takes a meta.json that is not due from nobody, however old the entries of
\* the index are that name it, but from a render that came between its look and
\* its delete in this very pass.
UndueIsKept ==
    [][\A id \in Ids \ clash.open :
          (meta[id] # NoMeta /\ ~IsDue(meta[id].expiry, day)) => meta'[id] # NoMeta]_vars

\* "Consult each render's current meta.json and only prune those whose recorded
\* expiry is actually due": without the exception it is false (RendersClash.cfg).
OnlyDueArePruned ==
    [][\A id \in Ids : (meta[id] # NoMeta /\ meta'[id] = NoMeta) => IsDue(meta[id].expiry, day)]_vars

\* The index is "the only mechanism that ever prunes": an output that expires
\* has an index entry for that date, or a record that still brings one.  Only
\* a crash, a dropped request, the cap and a half failed meta.json lose it.
ExpiringIsIndexed ==
    \A id \in Ids \ (lost \cup cut) :
        LET e == meta[id].expiry
            Brings(r) == r.id = id /\ r.expiry = e
        IN e > 0 =>
            \/ \E f \in index : f.date = e /\ id \in f.ids
            \/ \E r \in {buffer[i] : i \in DOMAIN buffer} : Brings(r)
            \/ \E f \in Flushers : \E r \in Recs(f) : Brings(r)
            \/ \E c \in Clients : At(c, "stage") /\ Brings(Record(c))

\* Housekeeping ends: an output that is due is deleted or renewed, unless its
\* index entry was lost.
DueIsPruned ==
    \A id \in Ids : IsDue(meta[id].expiry, day)
        ~> (~IsDue(meta[id].expiry, day) \/ id \in lost \cup cut)

\* "Flush any staged records on shutdown so none are lost."
StopLosesNothing == cut = {}

\* "the persisted summary.json keeps the rollups, so history survives": a
\* render that was counted stays counted when its raw file is pruned.
HistorySurvives == [][summary \subseteq summary']_vars
=============================================================================
