-------------------------- MODULE RenderStoreProofs --------------------------
(***************************************************************************)
(* Proofs of the safety properties of RenderStore, for every number of       *)
(* requests, ids, days and mishaps.                                          *)
(*                                                                          *)
(* ExpiringIsIndexed follows a record on its way: an expiry is announced by  *)
(* the request that has put it in meta.json, by the buffer or by a flush,    *)
(* until an index file carries it, and stays in a file that this cycle of    *)
(* prune has not used up (Covered).  ServableUntilDue needs that a request   *)
(* finds what it has put until it puts meta.json (Kept), and that whatever   *)
(* prune is about to delete is due and not being stored, but for ids that a  *)
(* render came to after prune's look at them (DoomedIsDue).                  *)
(***************************************************************************)
EXTENDS RenderStore, LeastNumber, SequenceTheorems

RequestSteps == {"none", "data", "render", "pdf", "meta", "stage", "flush"}
NoId == NoRequest.id

RequestType ==
    [step : RequestSteps, id : Ids \cup {NoId}, retain : Nat, ok : BOOLEAN, day : Nat]

\* A request is about an id, and its record has a date once it has an outcome.
RequestOK(r) ==
    /\ r \in RequestType
    /\ r.step # "none" => r.id \in Ids
    /\ r.step \in {"meta", "stage", "flush"} => r.day \in 1..MaxDay

RequestsTyped ==
    /\ request \in [Clients -> RequestType]
    /\ \A c \in Clients : RequestOK(request[c])

FlightType == [recs : Seq(RecordType), raws : SUBSET Nat, dates : SUBSET (Nat \ {0})]

IndexType == [date : Nat \ {0}, ids : SUBSET Ids, seq : Nat]

WorkerType ==
    [step : {"rest", "summary", "expiry", "read", "index", "raw", "drop raw"}, today : Nat,
     files : SUBSET IndexType, ids : SUBSET Ids, doomed : SUBSET Ids,
     eaten : SUBSET IndexType, seen : SUBSET (Ids \cup RecordType)]

StoreTyped ==
    /\ data \subseteq Ids /\ pdf \subseteq Ids
    /\ meta \in [Ids -> {NoMeta} \cup [ok : BOOLEAN, expiry : Nat]]
    /\ raw \subseteq RecordType
    /\ index \subseteq IndexType /\ \A f \in index : f.seq < seq
    /\ summary \subseteq Ids

ServerTyped ==
    /\ up \in {"up", "draining", "flushed", "down"}
    /\ RequestsTyped
    /\ buffer \in Seq(RecordType)
    /\ flight \in [Flushers -> FlightType]
    /\ seq \in Nat

\* What the worker holds in each step of its cycle.
WorkerTyped ==
    /\ worker \in WorkerType
    /\ worker.today <= day
    /\ worker.step = "summary" => worker.seen \subseteq Ids
    /\ worker.step # "read" => worker.ids = {} /\ worker.doomed = {}
    /\ worker.step \notin {"read", "index"} => worker.eaten = {}
    /\ worker.files # {} => worker.doomed = {}
    /\ \A f \in worker.files \cup worker.eaten : f.date <= worker.today /\ f.seq < seq

Typed ==
    /\ StoreTyped /\ ServerTyped /\ WorkerTyped
    /\ day \in 1..MaxDay

\* main flushes, and leaves, only when no request is left.
QuietAtStop ==
    (up = "flushed" \/ flight[Main] # NoFlight) =>
        up \in {"draining", "flushed"} /\ \A c \in Clients : request[c].step = "none"

\* A flush carries what it has drained, and its request waits for it.
FlushesOwned ==
    /\ \A f \in Flushers : flight[f] = NoFlight \/ Flushing(f)
    /\ \A c \in Clients : flight[c] # NoFlight => request[c].step = "flush"

\* A server that is down holds nothing.
DownIsEmpty ==
    up = "down" =>
        /\ buffer = <<>> /\ \A f \in Flushers : flight[f] = NoFlight
        /\ \A c \in Clients : request[c].step = "none"

\* A file whose entry for id prune has looked at in this cycle: it is deleted
\* at the end of the cycle whatever is put meanwhile.
Spent(f, id) == f \in worker.eaten /\ id \notin worker.ids

\* The records that are staged.
Staged == {buffer[i] : i \in DOMAIN buffer}

\* The ids that may have lost a record.
Forgiven == lost \cup cut

\* What will tell prune that id expires on e.
Announced(id, e) ==
    \/ \E r \in Staged : r.id = id /\ r.expiry = e
    \/ \E f \in Flushers : \E r \in Recs(f) : r.id = id /\ r.expiry = e /\ e \in flight[f].dates
    \/ \E c \in Clients : At(c, "stage") /\ request[c].id = id /\ Record(c).expiry = e

Indexed(id, e) == \E f \in index : f.date = e /\ id \in f.ids

StillIndexed(id, e) == \E f \in index : f.date = e /\ id \in f.ids /\ ~Spent(f, id)

Covered ==
    \A id \in Ids \ Forgiven, e \in Nat \ {0} :
        meta[id].expiry = e =>
            \/ Announced(id, e)
            \/ StillIndexed(id, e)
            \/ id \in worker.doomed /\ Indexed(id, e)

\* A request that has put its input and its PDF finds them in the store until
\* it is done, unless prune has deleted something of what it was storing.
Kept ==
    \A c \in Clients : request[c].id \notin clash.hit =>
        /\ request[c].step \in {"render", "pdf", "meta"} => request[c].id \in data
        /\ (request[c].step = "meta" /\ request[c].ok) => request[c].id \in pdf

\* What prune is about to delete is due and nobody is storing it, unless somebody
\* began to before prune had its look or has begun since.
DoomedIsDue ==
    \A id \in worker.doomed \ clash.open :
        ~Storing(id) /\ (meta[id] = NoMeta \/ IsDue(meta[id].expiry, worker.today))

Served == Kept /\ DoomedIsDue /\ ServableUntilDue

RenderInv == Typed /\ QuietAtStop /\ FlushesOwned /\ DownIsEmpty /\ Covered /\ Served

-----------------------------------------------------------------------------
(* Requests                                                                  *)

\* No request is about no id.
LEMMA NoRequestOK == RequestOK(NoRequest)
  BY DEF RequestOK, RequestType, RequestSteps, NoId, NoRequest

Others(c) == \A d \in Clients \ {c} : request'[d] = request[d]

\* One request changes at a time, to r.
LEMMA RequestSet ==
    ASSUME RequestsTyped, NEW c \in Clients, NEW r, RequestOK(r),
           request' = [request EXCEPT ![c] = r]
    PROVE  RequestsTyped' /\ request'[c] = r /\ Others(c)
  <1>1. r \in RequestType
    BY DEF RequestOK
  <1>2. request' \in [Clients -> RequestType]
    BY <1>1 DEF RequestsTyped
  <1>3. request'[c] = r /\ Others(c)
    BY DEF RequestsTyped, Others
  <1> QED BY <1>2, <1>3 DEF RequestsTyped, Others, RequestOK

\* A request that ends has no more steps, and no other changes.
LEMMA ReturnsFacts ==
    ASSUME RequestsTyped, NEW c \in Clients, Returns(c)
    PROVE  RequestsTyped' /\ request'[c] = NoRequest /\ Others(c)
  BY RequestSet, NoRequestOK DEF Returns

\* The same request, one step further.
Moved(c, step) ==
    /\ request'[c].step = step
    /\ request'[c].id = request[c].id /\ request'[c].retain = request[c].retain
    /\ request'[c].ok = request[c].ok /\ request'[c].day = request[c].day

\* A request that goes on keeps what it is about.
LEMMA GoesFacts ==
    ASSUME RequestsTyped, NEW c \in Clients, NEW step \in RequestSteps, Goes(c, step),
           request[c].step # "none",
           step \in {"meta", "stage", "flush"} => request[c].step \in {"meta", "stage", "flush"}
    PROVE  RequestsTyped' /\ Moved(c, step) /\ Others(c)
  <1> DEFINE r == [request[c] EXCEPT !.step = step]
  <1>1. request[c] \in RequestType /\ RequestOK(request[c])
    BY DEF RequestsTyped
  <1>2. /\ r \in RequestType /\ r.step = step /\ r.id = request[c].id
        /\ r.retain = request[c].retain /\ r.ok = request[c].ok /\ r.day = request[c].day
    BY <1>1 DEF RequestType
  <1>3. RequestOK(r)
    BY <1>1, <1>2 DEF RequestOK
  <1>4. request' = [request EXCEPT ![c] = r]
    BY DEF Goes, RequestsTyped
  <1> HIDE DEF r
  <1> QED BY <1>2, <1>3, <1>4, RequestSet DEF Moved

\* A request that has an outcome is stamped with the day.
LEMMA StampedFacts ==
    ASSUME RequestsTyped, day \in 1..MaxDay, NEW c \in Clients, NEW ok \in BOOLEAN,
           Stamped(c, ok), request[c].step # "none"
    PROVE  /\ RequestsTyped' /\ Others(c)
           /\ request'[c].step = "meta" /\ request'[c].id = request[c].id
           /\ request'[c].ok = ok /\ request'[c].day = day
  <1> DEFINE r == [request[c] EXCEPT !.step = "meta", !.ok = ok, !.day = day]
  <1>1. request[c] \in RequestType /\ RequestOK(request[c]) /\ day \in Nat
    BY DEF RequestsTyped
  <1>2. r \in RequestType /\ r.step = "meta" /\ r.id = request[c].id /\ r.ok = ok /\ r.day = day
    BY <1>1 DEF RequestType, RequestSteps
  <1>3. RequestOK(r)
    BY <1>1, <1>2 DEF RequestOK
  <1>4. request' = [request EXCEPT ![c] = r]
    BY DEF Stamped, RequestsTyped
  <1> HIDE DEF r
  <1> QED BY <1>2, <1>3, <1>4, RequestSet

\* The record of a request that has an outcome.
LEMMA RecordTyped ==
    ASSUME RequestsTyped, NEW c \in Clients, request[c].step \in {"meta", "stage", "flush"}
    PROVE  /\ Record(c) \in RecordType
           /\ Record(c).id = request[c].id /\ Record(c).ok = request[c].ok
  <1>1. RequestOK(request[c])
    BY DEF RequestsTyped
  <1>2. request[c].id \in Ids /\ request[c].day \in 1..MaxDay /\ request[c].retain \in Nat
        /\ request[c].ok \in BOOLEAN
    BY <1>1 DEF RequestOK, RequestType
  <1>3. Expiry(request[c].day, request[c].retain) \in Nat
    BY <1>2, RetentionAssumption DEF Expiry
  <1> QED BY <1>2, <1>3 DEF Record, RecordType

-----------------------------------------------------------------------------
(* Flushes                                                                   *)

\* A flush carries records, and is under way as long as it carries any.
LEMMA RecsTyped ==
    ASSUME ServerTyped, NEW f \in Flushers
    PROVE  /\ flight[f] \in FlightType /\ Recs(f) \subseteq RecordType
           /\ Flushing(f) <=> Recs(f) # {}
  <1>1. flight[f] \in FlightType /\ flight[f].recs \in Seq(RecordType)
    BY DEF ServerTyped, FlightType
  <1>2. \A i \in DOMAIN flight[f].recs : flight[f].recs[i] \in RecordType
    BY <1>1, ElementOfSeq
  <1>3. Recs(f) = {} <=> flight[f].recs = <<>>
    <2>1. DOMAIN flight[f].recs = 1..Len(flight[f].recs) /\ Len(flight[f].recs) \in Nat
      BY <1>1, LenProperties
    <2>2. flight[f].recs = <<>> <=> Len(flight[f].recs) = 0
      BY <1>1, EmptySeq
    <2>3. ASSUME Recs(f) = {}
          PROVE  Len(flight[f].recs) = 0
      <3>1. \A i \in DOMAIN flight[f].recs : flight[f].recs[i] \in Recs(f)
        BY DEF Recs
      <3>2. 1..Len(flight[f].recs) = {}
        BY <2>1, <2>3, <3>1
      <3>3. \A n \in Nat : 1..n = {} => n = 0
        <4>1. \A n \in Nat : n # 0 => 1 \in 1..n
          OBVIOUS
        <4> QED BY <4>1, Zenon
      <3> QED BY <2>1, <3>2, <3>3, Zenon
    <2>4. ASSUME Len(flight[f].recs) = 0
          PROVE  Recs(f) = {}
      <3>1. DOMAIN flight[f].recs = {}
        BY <2>1, <2>4
      <3> QED BY <3>1 DEF Recs
    <2> QED BY <2>2, <2>3, <2>4
  <1> QED BY <1>1, <1>2, <1>3 DEF Recs, Flushing

\* A flush that has ended has a type.
LEMMA NoFlightTyped == NoFlight \in FlightType
  BY DEF NoFlight, FlightType

\* A flush that ends, of a request or of main.
LEMMA ReturnedFacts ==
    ASSUME ServerTyped, NEW f \in Flushers, Returned(f)
    PROVE  /\ RequestsTyped'
           /\ up' = IF f = Main THEN "flushed" ELSE up
           /\ \A c \in Clients : request'[c] \in {NoRequest, request[c]}
           /\ \A c \in Clients \ {f} : request'[c] = request[c]
           /\ f \in Clients => request'[f] = NoRequest
  <1>1. CASE f \in Clients
    BY <1>1, ReturnsFacts DEF Returned, ServerTyped, Others
  <1>2. CASE f \notin Clients
    BY <1>2 DEF Returned, ServerTyped, RequestsTyped
  <1> QED BY <1>1, <1>2 DEF Returned

\* A put failed: every drained or staged record is staged again, or dropped
\* beyond the cap and counted as lost.
LEMMA RestageFacts ==
    ASSUME ServerTyped, NEW f \in Flushers, Restage(f)
    PROVE  /\ buffer' \in Seq(RecordType)
           /\ flight' = [flight EXCEPT ![f] = NoFlight]
           /\ lost \subseteq lost'
           /\ \A r \in Recs(f) \cup Staged : r \in Staged' \/ r.id \in lost'
           /\ Returned(f)
  <1> DEFINE recs == flight[f].recs
             all == recs \o buffer
             over == IF Len(all) > Cap THEN Len(all) - Cap ELSE 0
  <1>1. recs \in Seq(RecordType) /\ buffer \in Seq(RecordType)
    BY RecsTyped DEF ServerTyped, FlightType
  <1>2. /\ all \in Seq(RecordType) /\ Len(all) = Len(recs) + Len(buffer)
        /\ \A i \in 1..Len(recs) : all[i] = recs[i]
        /\ \A i \in 1..Len(buffer) : all[Len(recs) + i] = buffer[i]
    <2>1. /\ all \in Seq(RecordType) /\ Len(all) = Len(recs) + Len(buffer)
          /\ \A i \in 1..Len(recs) + Len(buffer) :
                all[i] = IF i <= Len(recs) THEN recs[i] ELSE buffer[i - Len(recs)]
      BY <1>1, ConcatProperties
    <2>2. Len(recs) \in Nat /\ Len(buffer) \in Nat
      BY <1>1, LenProperties
    <2> HIDE DEF recs, all
    <2>3. ASSUME NEW i \in 1..Len(recs)
          PROVE  all[i] = recs[i]
      BY <2>1, <2>2
    <2>4. ASSUME NEW i \in 1..Len(buffer)
          PROVE  all[Len(recs) + i] = buffer[i]
      <3>1. /\ Len(recs) + i \in 1..Len(recs) + Len(buffer) /\ ~(Len(recs) + i <= Len(recs))
            /\ (Len(recs) + i) - Len(recs) = i
        BY <2>2
      <3> QED BY <2>1, <3>1
    <2> QED BY <2>1, <2>3, <2>4
  <1>3. Len(all) \in Nat /\ Len(recs) \in Nat /\ Len(buffer) \in Nat /\ over \in 0..Len(all)
    BY <1>1, <1>2, LenProperties, BufferAssumption
  <1>4. /\ buffer' = SubSeq(all, over + 1, Len(all))
        /\ lost' = lost \cup {all[i].id : i \in 1..over}
        /\ flight' = [flight EXCEPT ![f] = NoFlight]
        /\ Returned(f)
    BY DEF Restage, Drained
  <1> HIDE DEF all, over, recs
  <1>5. /\ buffer' \in Seq(RecordType) /\ Len(buffer') = Len(all) - over
        /\ \A j \in 1..(Len(all) - over) : buffer'[j] = all[over + j]
    BY <1>2, <1>3, <1>4, SubSeqProperties
  <1>6. ASSUME NEW i \in 1..Len(all)
        PROVE  (\E j \in DOMAIN buffer' : buffer'[j] = all[i]) \/ all[i].id \in lost'
    <2>1. CASE i <= over
      BY <1>3, <1>4, <2>1
    <2>2. CASE i > over
      <3>1. i - over \in 1..(Len(all) - over) /\ over + (i - over) = i
        BY <1>3, <2>2
      <3>2. i - over \in DOMAIN buffer'
        BY <1>5, <3>1, LenProperties
      <3> QED BY <1>5, <3>1, <3>2
    <2> QED BY <1>3, <2>1, <2>2
  <1>7. ASSUME NEW r \in Recs(f) \cup Staged
        PROVE  \E i \in 1..Len(all) : all[i] = r
    <2>1. DOMAIN recs = 1..Len(recs) /\ DOMAIN buffer = 1..Len(buffer)
      BY <1>1, LenProperties
    <2>2. CASE r \in Recs(f)
      <3>1. PICK i \in DOMAIN recs : recs[i] = r
        BY <2>2 DEF Recs, recs
      <3> QED BY <1>2, <1>3, <2>1, <3>1
    <2>3. CASE r \in Staged
      <3>1. PICK i \in 1..Len(buffer) : r = buffer[i]
        BY <2>1, <2>3 DEF Staged
      <3>2. Len(recs) + i \in 1..Len(all)
        BY <1>2, <1>3, <3>1
      <3> QED BY <1>2, <3>1, <3>2
    <2> QED BY <2>2, <2>3
  <1>8. ASSUME NEW r \in Recs(f) \cup Staged
        PROVE  r \in Staged' \/ r.id \in lost'
    BY <1>6, <1>7 DEF Staged
  <1> QED BY <1>4, <1>5, <1>8

\* A put adds at most one element, and takes none away.
LEMMA PutStays ==
    ASSUME NEW S, NEW T \in SUBSET S, NEW e \in S, NEW o
    PROVE  Put(T, e, o) \in SUBSET S /\ T \subseteq Put(T, e, o)
  BY DEF Put

\* What leaves a part of the state alone leaves its type alone.
LEMMA StoreTypeStays ==
    ASSUME StoreTyped, UNCHANGED <<artifacts, analytics, seq>>
    PROVE  StoreTyped'
  BY DEF StoreTyped, artifacts, analytics

\* The types of the worker outlive a later day and a higher sequence number.
LEMMA WorkerTypeStays ==
    ASSUME WorkerTyped, seq \in Nat, day \in Nat, UNCHANGED worker,
           day' \in Nat, day' >= day, seq' \in Nat, seq' >= seq
    PROVE  WorkerTyped'
  <1>0. worker.today \in Nat /\ worker.today <= day
    BY DEF WorkerTyped, WorkerType
  <1>1. worker.today <= day'
    BY <1>0
  <1>2. ASSUME NEW f \in worker.files \cup worker.eaten
        PROVE  f.date <= worker.today /\ f.seq < seq'
    <2>1. f \in IndexType /\ f.seq \in Nat
      BY DEF WorkerTyped, WorkerType, IndexType
    <2> QED BY <2>1 DEF WorkerTyped
  <1> QED BY <1>1, <1>2 DEF WorkerTyped

-----------------------------------------------------------------------------
(* Types, action by action                                                   *)

\* A new request keeps the types and touches no other request.
LEMMA AskTyped ==
    ASSUME Typed, NEW c \in Clients, NEW id \in Ids, NEW retain \in Retains, Ask(c, id, retain)
    PROVE  Typed' /\ Others(c) /\ request'[c].step = "data" /\ request'[c].id = id
  <1> DEFINE r == [NoRequest EXCEPT !.step = "data", !.id = id, !.retain = retain]
  <1>1. RequestOK(r) /\ r.step = "data" /\ r.id = id
    BY NoRequestOK, RetentionAssumption DEF RequestOK, RequestType, RequestSteps, NoRequest
  <1>2. request' = [request EXCEPT ![c] = r] /\ RequestsTyped
    BY DEF Ask, Typed, ServerTyped
  <1> HIDE DEF r
  <1>3. RequestsTyped' /\ request'[c] = r /\ Others(c)
    BY <1>1, <1>2, RequestSet
  <1>4. ServerTyped'
    BY <1>3 DEF Ask, Typed, ServerTyped
  <1>5. StoreTyped' /\ WorkerTyped'
    BY StoreTypeStays, WorkerTypeStays DEF Ask, Typed, ServerTyped
  <1> QED BY <1>1, <1>3, <1>4, <1>5 DEF Ask, Typed

\* A request goes on after a put that succeeded, and ends after one that failed.
LEMMA GoesIfTyped ==
    ASSUME RequestsTyped, NEW c \in Clients, NEW o, NEW step \in RequestSteps, GoesIf(c, o, step),
           request[c].step # "none",
           step \in {"meta", "stage", "flush"} => request[c].step \in {"meta", "stage", "flush"}
    PROVE  /\ RequestsTyped' /\ Others(c)
           /\ IF o = "ok" THEN Moved(c, step) ELSE request'[c] = NoRequest
  BY GoesFacts, ReturnsFacts DEF GoesIf

\* Every step of a request keeps the types.
LEMMA RequestTyped ==
    ASSUME Typed, NEW c \in Clients, Request(c)
    PROVE  Typed'
  <1> USE DEF RequestSteps
  <1>0. /\ RequestsTyped /\ seq \in Nat /\ day \in 1..MaxDay /\ day \in Nat
        /\ RequestOK(request[c])
    BY DEF Typed, ServerTyped, RequestsTyped
  <1>1. CASE PutData(c)
    <2>1. PICK o \in Outcomes : data' = Put(data, request[c].id, o) /\ GoesIf(c, o, "render")
      BY <1>1 DEF PutData
    <2>2. RequestsTyped' /\ data' \subseteq Ids
      BY <1>0, <1>1, <2>1, GoesIfTyped, PutStays DEF PutData, At, RequestOK, Typed, StoreTyped
    <2> QED BY <1>0, <1>1, <2>2, WorkerTypeStays
            DEF PutData, Typed, ServerTyped, StoreTyped, analytics
  <1>2. CASE Render(c)
    <2>1. RequestsTyped'
      BY <1>0, <1>2, GoesFacts, StampedFacts DEF Render, At
    <2> QED BY <1>0, <1>2, <2>1, WorkerTypeStays, StoreTypeStays DEF Render, Typed, ServerTyped
  <1>3. CASE PutPdf(c)
    <2>1. PICK o \in Outcomes : /\ pdf' = Put(pdf, request[c].id, o)
                                /\ IF o = "ok" THEN Stamped(c, TRUE) ELSE Returns(c)
      BY <1>3 DEF PutPdf
    <2>2. RequestsTyped'
      BY <1>0, <1>3, <2>1, StampedFacts, ReturnsFacts DEF PutPdf, At
    <2>3. pdf' \subseteq Ids
      BY <1>0, <1>3, <2>1, PutStays DEF PutPdf, At, RequestOK, Typed, StoreTyped
    <2> QED BY <1>0, <1>3, <2>2, <2>3, WorkerTypeStays
            DEF PutPdf, Typed, ServerTyped, StoreTyped, analytics
  <1>4. CASE PutMeta(c)
    <2> DEFINE rec == Record(c)
    <2>1. PICK o \in Outcomes :
              /\ meta' = IF o = "lost" THEN meta
                         ELSE [meta EXCEPT ![rec.id] = [ok |-> rec.ok, expiry |-> rec.expiry]]
              /\ GoesIf(c, o, "stage")
      BY <1>4 DEF PutMeta
    <2>2. request[c].step = "meta" /\ rec \in RecordType
      BY <1>0, <1>4, RecordTyped DEF PutMeta, At
    <2>3. RequestsTyped'
      BY <1>0, <2>1, <2>2, GoesIfTyped
    <2>4. meta' \in [Ids -> {NoMeta} \cup [ok : BOOLEAN, expiry : Nat]]
      BY <2>1, <2>2 DEF Typed, StoreTyped, RecordType
    <2> QED BY <1>0, <1>4, <2>3, <2>4, WorkerTypeStays
            DEF PutMeta, Typed, ServerTyped, StoreTyped, analytics
  <1>5. CASE Stage(c)
    <2>1. request[c].step = "stage" /\ Record(c) \in RecordType
      BY <1>0, <1>5, RecordTyped DEF Stage, At
    <2>2. RequestsTyped'
      BY <1>0, <1>5, <2>1, GoesFacts, ReturnsFacts DEF Stage
    <2>3. buffer' \in Seq(RecordType)
      BY <1>5, <2>1, AppendProperties DEF Stage, Typed, ServerTyped
    <2> QED BY <1>0, <1>5, <2>2, <2>3, WorkerTypeStays, StoreTypeStays
            DEF Stage, Typed, ServerTyped
  <1>6. CASE NothingToFlush(c)
    <2>1. RequestsTyped'
      BY <1>0, <1>6, ReturnsFacts DEF NothingToFlush
    <2> QED BY <1>0, <1>6, <2>1, WorkerTypeStays, StoreTypeStays
            DEF NothingToFlush, Typed, ServerTyped
  <1> QED BY <1>1, <1>2, <1>3, <1>4, <1>5, <1>6 DEF Request

\* What is staged is records.
LEMMA StagedTyped ==
    ASSUME ServerTyped
    PROVE  Staged \subseteq RecordType /\ (buffer = <<>> => Staged = {})
  <1>1. buffer \in Seq(RecordType)
    BY DEF ServerTyped
  <1>2. \A i \in DOMAIN buffer : buffer[i] \in RecordType
    BY <1>1, ElementOfSeq
  <1>3. buffer = <<>> => DOMAIN buffer = {}
    BY <1>1, LenProperties, EmptySeq
  <1> QED BY <1>2, <1>3 DEF Staged

\* The earliest of some dates is one of them.
LEMMA EarliestIsOne ==
    ASSUME NEW dates \in SUBSET Nat, dates # {}
    PROVE  Earliest(dates) \in dates
  BY LeastNatural DEF Earliest

\* The flight of f becomes fl, and no other changes.
LEMMA FlightSet ==
    ASSUME ServerTyped, NEW f \in Flushers, NEW fl \in FlightType,
           flight' = [flight EXCEPT ![f] = fl]
    PROVE  /\ flight' \in [Flushers -> FlightType] /\ flight'[f] = fl
           /\ \A g \in Flushers \ {f} : flight'[g] = flight[g]
           /\ Recs(f)' = {fl.recs[i] : i \in DOMAIN fl.recs}
           /\ \A g \in Flushers \ {f} : Recs(g)' = Recs(g)
  <1>1. flight \in [Flushers -> FlightType]
    BY DEF ServerTyped
  <1> QED BY <1>1 DEF Recs

\* A flush that has ended carries nothing.
LEMMA NoRecs == {NoFlight.recs[i] : i \in DOMAIN NoFlight.recs} = {}
  <1>1. DOMAIN NoFlight.recs = {}
    BY LenProperties, EmptySeq DEF NoFlight
  <1> QED BY <1>1

\* What a flush drains it carries, each record with its date.
LEMMA DrainFacts ==
    ASSUME ServerTyped, NEW f \in Flushers, Drain(f)
    PROVE  /\ ServerTyped' /\ Staged' = {}
           /\ Recs(f)' = Staged /\ Recs(f) = {}
           /\ \A r \in Staged : r.expiry # 0 => r.expiry \in flight'[f].dates
           /\ \A g \in Flushers \ {f} : flight'[g] = flight[g] /\ Recs(g)' = Recs(g)
  <1> DEFINE fl == [recs |-> buffer, raws |-> {r.day : r \in Staged},
                    dates |-> {r.expiry : r \in Staged} \ {0}]
  <1>1. Staged \subseteq RecordType /\ buffer \in Seq(RecordType)
    BY StagedTyped DEF ServerTyped
  <1>2. fl \in FlightType /\ fl.recs = buffer /\ fl.dates = {r.expiry : r \in Staged} \ {0}
    <2>1. {r.day : r \in Staged} \subseteq Nat /\ {r.expiry : r \in Staged} \subseteq Nat
      BY <1>1 DEF RecordType
    <2> QED BY <1>1, <2>1 DEF FlightType
  <1>3. flight' = [flight EXCEPT ![f] = fl] /\ buffer' = <<>>
    BY DEF Drain, Staged
  <1> HIDE DEF fl
  <1>4. flight' \in [Flushers -> FlightType] /\ buffer' \in Seq(RecordType)
    BY <1>2, <1>3, FlightSet, EmptySeq
  <1>5. ServerTyped'
    BY <1>4 DEF Drain, ServerTyped, RequestsTyped
  <1>6. Recs(f)' = Staged
    <2>1. Recs(f)' = {fl.recs[i] : i \in DOMAIN fl.recs}
      BY <1>2, <1>3, FlightSet
    <2> QED BY <1>2, <2>1, Zenon DEF Staged
  <1>7. Recs(f) = {}
    BY RecsTyped DEF Drain
  <1>8. Staged' = {}
    BY <1>3, <1>5, EmptySeq, LenProperties DEF Staged
  <1> QED BY <1>2, <1>3, <1>5, <1>6, <1>7, <1>8, FlightSet

\* After a successful put a flush carries what is left, or ends with its request.
LEMMA WrittenFacts ==
    ASSUME ServerTyped, NEW f \in Flushers, NEW fl \in FlightType, Written(f, fl)
    PROVE  /\ flight' \in [Flushers -> FlightType]
           /\ flight'[f] \in {fl, NoFlight}
           /\ fl.dates # {} => flight'[f] = fl
           /\ \A g \in Flushers \ {f} : flight'[g] = flight[g] /\ Recs(g)' = Recs(g)
           /\ RequestsTyped'
           /\ \A c \in Clients : request'[c] \in {NoRequest, request[c]}
           /\ \A c \in Clients \ {f} : request'[c] = request[c]
           /\ up' \in {up, "flushed"} /\ (up' # up => f = Main)
           /\ (f = Main /\ flight'[f] = NoFlight) => up' = "flushed"
           /\ Staged' = Staged /\ buffer' = buffer /\ lost' = lost
  <1>1. CASE fl.raws = {} /\ fl.dates = {}
    <2>1. flight' = [flight EXCEPT ![f] = NoFlight] /\ Returned(f)
      BY <1>1 DEF Written
    <2>2. /\ flight' \in [Flushers -> FlightType] /\ flight'[f] = NoFlight
          /\ \A g \in Flushers \ {f} : flight'[g] = flight[g] /\ Recs(g)' = Recs(g)
      BY <2>1, NoFlightTyped, FlightSet
    <2>3. /\ RequestsTyped'
          /\ up' = IF f = Main THEN "flushed" ELSE up
          /\ \A c \in Clients : request'[c] \in {NoRequest, request[c]}
          /\ \A c \in Clients \ {f} : request'[c] = request[c]
      BY <2>1, ReturnedFacts
    <2>4. UNCHANGED <<buffer, lost>> /\ Staged' = Staged
      BY DEF Written, Staged
    <2> QED BY <1>1, <2>2, <2>3, <2>4
  <1>2. CASE ~(fl.raws = {} /\ fl.dates = {})
    <2>1. flight' = [flight EXCEPT ![f] = fl] /\ UNCHANGED <<up, request>>
      BY <1>2 DEF Written
    <2>2. fl # NoFlight
      BY <1>2 DEF NoFlight
    <2>3. RequestsTyped'
      BY <2>1 DEF RequestsTyped, ServerTyped
    <2> QED BY <1>2, <2>1, <2>2, <2>3, FlightSet DEF Written, Staged
  <1> QED BY <1>1, <1>2

\* The flight after a put that succeeded.
LEMMA FlightShrinks ==
    ASSUME ServerTyped, NEW f \in Flushers, NEW d
    PROVE  /\ [flight[f] EXCEPT !.raws = @ \ {d}] \in FlightType
           /\ [flight[f] EXCEPT !.raws = @ \ {d}].recs = flight[f].recs
           /\ [flight[f] EXCEPT !.raws = @ \ {d}].dates = flight[f].dates
           /\ [flight[f] EXCEPT !.dates = @ \ {d}] \in FlightType
           /\ [flight[f] EXCEPT !.dates = @ \ {d}].recs = flight[f].recs
           /\ [flight[f] EXCEPT !.dates = @ \ {d}].dates = flight[f].dates \ {d}
  <1>1. flight[f] \in FlightType
    BY DEF ServerTyped
  <1> QED BY <1>1 DEF FlightType

\* A failed put keeps the types of the server.
LEMMA RestageTyped ==
    ASSUME ServerTyped, NEW f \in Flushers, Restage(f), seq' \in Nat
    PROVE  ServerTyped'
  <1>1. /\ buffer' \in Seq(RecordType) /\ flight' = [flight EXCEPT ![f] = NoFlight]
        /\ Returned(f)
    BY RestageFacts
  <1>2. flight' \in [Flushers -> FlightType]
    BY <1>1, NoFlightTyped, FlightSet
  <1>3. RequestsTyped' /\ up' \in {"up", "draining", "flushed", "down"}
    BY <1>1, ReturnedFacts DEF ServerTyped
  <1> QED BY <1>1, <1>2, <1>3 DEF ServerTyped

\* A successful put keeps the types of the server.
LEMMA WrittenTyped ==
    ASSUME ServerTyped, NEW f \in Flushers, NEW fl \in FlightType, Written(f, fl), seq' \in Nat
    PROVE  ServerTyped'
  <1>1. /\ flight' \in [Flushers -> FlightType] /\ RequestsTyped' /\ buffer' = buffer
        /\ up' \in {up, "flushed"}
    BY WrittenFacts
  <1> QED BY <1>1 DEF ServerTyped

\* Every step of a flush keeps the types.
LEMMA FlushTyped ==
    ASSUME Typed, NEW f \in Flushers, Flush(f)
    PROVE  Typed'
  <1>0. /\ ServerTyped /\ StoreTyped /\ WorkerTyped /\ seq \in Nat /\ day \in 1..MaxDay
        /\ day \in Nat /\ flight[f] \in FlightType /\ Recs(f) \subseteq RecordType
    BY RecsTyped DEF Typed, ServerTyped
  <1>1. CASE Drain(f)
    <2>1. ServerTyped' /\ UNCHANGED <<artifacts, analytics, seq, worker, day>>
      BY <1>0, <1>1, DrainFacts DEF Drain
    <2> QED BY <1>0, <2>1, StoreTypeStays, WorkerTypeStays DEF Typed
  <1>2. CASE PutRaw(f)
    <2> DEFINE d == Earliest(flight[f].raws)
               fl == [flight[f] EXCEPT !.raws = @ \ {d}]
    <2>1. PICK o \in Outcomes :
              /\ raw' = IF o = "lost" THEN raw ELSE raw \cup {r \in Recs(f) : r.day = d}
              /\ IF o = "ok" THEN Written(f, fl) ELSE Restage(f)
      BY <1>2 DEF PutRaw
    <2>2. fl \in FlightType
      BY <1>0, FlightShrinks
    <2>3. UNCHANGED <<artifacts, index, summary, seq, worker, day>>
      BY <1>2 DEF PutRaw
    <2> HIDE DEF fl
    <2>4. ServerTyped'
      BY <1>0, <2>1, <2>2, <2>3, WrittenTyped, RestageTyped
    <2>5. raw' \subseteq RecordType
      BY <1>0, <2>1 DEF StoreTyped
    <2>6. StoreTyped'
      BY <1>0, <2>3, <2>5 DEF StoreTyped, artifacts
    <2> QED BY <1>0, <2>3, <2>4, <2>6, WorkerTypeStays DEF Typed
  <1>3. CASE PutIndex(f)
    <2> DEFINE d == Earliest(flight[f].dates)
               fl == [flight[f] EXCEPT !.dates = @ \ {d}]
               ids == {r.id : r \in {q \in Recs(f) : q.expiry = d}}
               file == [date |-> d, ids |-> ids, seq |-> seq]
    <2>1. PICK o \in Outcomes :
              /\ index' = Put(index, file, o)
              /\ IF o = "ok" THEN Written(f, fl) ELSE Restage(f)
      BY <1>3 DEF PutIndex, IndexFile
    <2>2. /\ UNCHANGED <<artifacts, raw, summary, worker, day>> /\ seq' = seq + 1
          /\ flight[f].dates # {}
      BY <1>3 DEF PutIndex
    <2>3. d \in flight[f].dates /\ d \in Nat \ {0}
      BY <1>0, <2>2, EarliestIsOne DEF FlightType
    <2>4. fl \in FlightType
      BY <1>0, FlightShrinks
    <2>5. ids \subseteq Ids
      BY <1>0 DEF RecordType
    <2>6. file \in IndexType /\ file.seq = seq
      BY <1>0, <2>3, <2>5 DEF IndexType
    <2> HIDE DEF fl, d, ids, file
    <2>7. ServerTyped'
      BY <1>0, <2>1, <2>2, <2>4, WrittenTyped, RestageTyped
    <2>8. index' \subseteq IndexType /\ \A g \in index' : g = file \/ g \in index
      BY <1>0, <2>1, <2>6 DEF StoreTyped, Put
    <2>9. \A g \in index' : g.seq < seq'
      <3>1. \A g \in index : g.seq \in Nat /\ g.seq < seq
        BY <1>0 DEF StoreTyped, IndexType
      <3> QED BY <1>0, <2>2, <2>6, <2>8, <3>1
    <2>10. StoreTyped'
      BY <1>0, <2>2, <2>8, <2>9 DEF StoreTyped, artifacts
    <2> QED BY <1>0, <2>2, <2>7, <2>10, WorkerTypeStays DEF Typed
  <1> QED BY <1>1, <1>2, <1>3 DEF Flush

\* A process that goes leaves nothing in memory.
LEMMA GoneFacts ==
    ASSUME NEW state \in {"up", "down"}, Gone(state), seq' \in Nat
    PROVE  /\ ServerTyped' /\ up' = state
           /\ \A c \in Clients : request'[c] = NoRequest
           /\ Staged' = {} /\ \A f \in Flushers : flight'[f] = NoFlight /\ Recs(f)' = {}
  <1>1. request' \in [Clients -> RequestType] /\ \A c \in Clients : request'[c] = NoRequest
    BY NoRequestOK DEF Gone, RequestOK
  <1>2. flight' \in [Flushers -> FlightType] /\ \A f \in Flushers : flight'[f] = NoFlight
    BY NoFlightTyped DEF Gone
  <1>3. buffer' \in Seq(RecordType) /\ DOMAIN buffer' = {}
    BY EmptySeq, LenProperties DEF Gone
  <1>4. ServerTyped'
    BY <1>1, <1>2, <1>3, NoRequestOK DEF Gone, ServerTyped, RequestsTyped
  <1>5. \A f \in Flushers : Recs(f)' = {}
    <2> TAKE f \in Flushers
    <2>1. Recs(f)' = {NoFlight.recs[i] : i \in DOMAIN NoFlight.recs}
      BY <1>2, Zenon DEF Recs
    <2> QED BY <2>1, NoRecs
  <1> QED BY <1>1, <1>2, <1>3, <1>4, <1>5 DEF Gone, Staged

\* A dropped handler takes its request and its flush with it, and nothing else.
LEMMA CancelFacts ==
    ASSUME ServerTyped, NEW c \in Clients, Cancel(c)
    PROVE  /\ ServerTyped' /\ request'[c] = NoRequest /\ Others(c)
           /\ flight'[c] = NoFlight
           /\ \A f \in Flushers \ {c} : flight'[f] = flight[f] /\ Recs(f)' = Recs(f)
           /\ Staged' = Staged
  <1>1. RequestsTyped /\ c \in Flushers
    BY DEF ServerTyped, Flushers
  <1>2. RequestsTyped' /\ request'[c] = NoRequest /\ Others(c)
    BY <1>1, ReturnsFacts DEF Cancel
  <1>3. /\ flight' \in [Flushers -> FlightType] /\ flight'[c] = NoFlight
        /\ \A f \in Flushers \ {c} : flight'[f] = flight[f] /\ Recs(f)' = Recs(f)
    BY <1>1, NoFlightTyped, FlightSet DEF Cancel
  <1> QED BY <1>2, <1>3 DEF Cancel, ServerTyped, Staged

\* A worker that starts over has its type.
LEMMA RestingTyped ==
    ASSUME day' \in Nat, worker' = Resting
    PROVE  WorkerTyped'
  BY DEF WorkerTyped, WorkerType, Resting

\* Stops, crashes, restarts, dropped handlers and midnight keep the types.
LEMMA EnvironmentTyped ==
    ASSUME Typed, Environment
    PROVE  Typed'
  <1>0. /\ ServerTyped /\ StoreTyped /\ WorkerTyped /\ seq \in Nat /\ day \in 1..MaxDay
        /\ day \in Nat
    BY DEF Typed, ServerTyped
  <1>1. CASE SignalStop
    BY <1>0, <1>1, StoreTypeStays, WorkerTypeStays
       DEF SignalStop, Typed, ServerTyped, RequestsTyped
  <1>2. CASE Exit \/ Crash \/ Restart
    <2>1. Gone("up") \/ Gone("down")
      BY <1>2 DEF Exit, Crash, Restart
    <2>2. UNCHANGED <<artifacts, analytics, seq, worker, day>>
      BY <1>2 DEF Exit, Crash, Restart
    <2> QED BY <1>0, <2>1, <2>2, GoneFacts, StoreTypeStays, WorkerTypeStays DEF Typed
  <1>3. CASE WorkerCrash
    <2>1. UNCHANGED <<artifacts, analytics, server, day>> /\ worker' = Resting
      BY <1>3 DEF WorkerCrash, outside, Does
    <2>2. WorkerTyped'
      BY <1>0, <2>1, RestingTyped
    <2> QED BY <1>0, <2>1, <2>2, StoreTypeStays DEF Typed, ServerTyped, RequestsTyped, server
  <1>4. CASE Midnight
    <2>1. UNCHANGED <<artifacts, analytics, server, worker>> /\ day' \in 1..MaxDay /\ day' >= day
      BY <1>0, <1>4, RetentionAssumption DEF Midnight
    <2> QED BY <1>0, <2>1, StoreTypeStays, WorkerTypeStays
            DEF Typed, ServerTyped, RequestsTyped, server
  <1>5. CASE \E c \in Clients : Cancel(c)
    <2>1. ServerTyped' /\ UNCHANGED <<artifacts, analytics, seq, worker, day>>
      BY <1>0, <1>5, CancelFacts DEF Cancel
    <2> QED BY <1>0, <2>1, StoreTypeStays, WorkerTypeStays DEF Typed
  <1> QED BY <1>1, <1>2, <1>3, <1>4, <1>5 DEF Environment

\* The worker goes on to w, or gives the pass up.
LEMMA DoesIfTyped ==
    ASSUME day' \in Nat, NEW w, NEW o, DoesIf(o, w), w \in WorkerType, w.today <= day',
           w.step = "summary" => w.seen \subseteq Ids,
           w.step # "read" => w.ids = {} /\ w.doomed = {},
           w.step \notin {"read", "index"} => w.eaten = {},
           w.files # {} => w.doomed = {},
           \A f \in w.files \cup w.eaten : f.date <= w.today /\ f.seq < seq'
    PROVE  WorkerTyped' /\ worker' \in {w, Resting} /\ (o = "ok" => worker' = w)
  BY RestingTyped DEF DoesIf, Does, WorkerTyped

\* A step of the worker leaves the server and the calendar alone.
MaintainsOnly == UNCHANGED <<server, renders, day, lost, cut>>

\* Every step of the maintenance cycle is of the worker alone.
LEMMA MaintainFrame ==
    ASSUME Maintain
    PROVE  MaintainsOnly
  BY DEF Maintain, MaintainsOnly, outside, Aggregate, PutSummary, ListExpiry, ReadExpiry, CheckMeta,
         DropArtifacts, DropIndex, ListRaw, DropRaw

\* The files of the index have a date and ids.
LEMMA IndexTyped ==
    ASSUME StoreTyped
    PROVE  \A f \in index : f \in IndexType /\ f.date \in Nat \ {0} /\ f.ids \in SUBSET Ids
  BY DEF StoreTyped, IndexType

\* So have the files the worker holds.
LEMMA WorkerFilesTyped ==
    ASSUME WorkerTyped
    PROVE  \A f \in worker.files \cup worker.eaten :
               f \in IndexType /\ f.date \in Nat \ {0} /\ f.ids \in SUBSET Ids
  <1>1. worker.files \subseteq IndexType /\ worker.eaten \subseteq IndexType
    BY DEF WorkerTyped, WorkerType
  <1> QED BY <1>1 DEF IndexType

\* Reading a due file takes its ids up, or ends the pass.
LEMMA ReadExpiryFacts ==
    ASSUME WorkerTyped, day' = day, seq' = seq, day \in Nat, ReadExpiry
    PROVE  /\ WorkerTyped'
           /\ \/ worker' = Resting
              \/ \E f \in worker.files :
                    worker' = [worker EXCEPT !.files = @ \ {f}, !.eaten = @ \cup {f},
                                             !.ids = @ \cup f.ids]
  <1>1. PICK f \in worker.files, o \in {"ok", "lost"} :
            DoesIf(o, [worker EXCEPT !.files = @ \ {f}, !.eaten = @ \cup {f}, !.ids = @ \cup f.ids])
    BY DEF ReadExpiry
  <1> DEFINE w == [worker EXCEPT !.files = @ \ {f}, !.eaten = @ \cup {f}, !.ids = @ \cup f.ids]
  <1>2. worker \in WorkerType /\ worker.step = "read" /\ f \in IndexType /\ f.ids \in SUBSET Ids
    BY WorkerFilesTyped DEF WorkerTyped, ReadExpiry, On
  <1>3. /\ w \in WorkerType /\ w.step = "read" /\ w.today = worker.today /\ w.doomed = worker.doomed
        /\ w.files = worker.files \ {f} /\ w.eaten = worker.eaten \cup {f}
    BY <1>2 DEF WorkerType
  <1>4. DoesIf(o, w)
    BY <1>1
  <1> HIDE DEF w
  <1>5. WorkerTyped' /\ worker' \in {w, Resting}
    <2>1. w.today <= day'
      BY <1>3 DEF WorkerTyped
    <2>2. \A g \in w.files \cup w.eaten : g.date <= w.today /\ g.seq < seq'
      BY <1>3 DEF WorkerTyped
    <2>3. w.files # {} => w.doomed = {}
      BY <1>3 DEF WorkerTyped
    <2> QED BY <1>3, <1>4, <2>1, <2>2, <2>3, DoesIfTyped
  <1> QED BY <1>5 DEF w

\* Looking at meta.json dooms an id or lets it go, or ends the pass.
LEMMA CheckMetaFacts ==
    ASSUME WorkerTyped, day' = day, seq' = seq, day \in Nat, CheckMeta
    PROVE  /\ WorkerTyped'
           /\ \E id \in worker.ids :
                 /\ id \in Ids
                 /\ clash' = [open |-> IF Storing(id) THEN clash.open \cup {id} ELSE clash.open, hit |-> clash.hit]
                 /\ \/ worker' = Resting
                    \/ worker' = [worker EXCEPT
                           !.ids = @ \ {id},
                           !.doomed = IF EntryIsDue(id) THEN @ \cup {id} ELSE @]
  <1>1. PICK id \in worker.ids, o \in {"ok", "lost"} :
            /\ DoesIf(o, [worker EXCEPT !.ids = @ \ {id},
                             !.doomed = IF EntryIsDue(id) THEN @ \cup {id} ELSE @])
            /\ clash' = [open |-> IF Storing(id) THEN clash.open \cup {id} ELSE clash.open, hit |-> clash.hit]
    BY DEF CheckMeta
  <1> DEFINE w == [worker EXCEPT !.ids = @ \ {id},
                             !.doomed = IF EntryIsDue(id) THEN @ \cup {id} ELSE @]
  <1>2. worker \in WorkerType /\ worker.step = "read" /\ worker.files = {} /\ id \in Ids
    BY DEF WorkerTyped, WorkerType, CheckMeta, On
  <1>3. /\ w \in WorkerType /\ w.step = "read" /\ w.today = worker.today
        /\ w.files = worker.files /\ w.eaten = worker.eaten
    BY <1>2 DEF WorkerType
  <1>4. DoesIf(o, w)
    BY <1>1
  <1> HIDE DEF w
  <1>5. WorkerTyped' /\ worker' \in {w, Resting}
    <2>1. w.today <= day'
      BY <1>3 DEF WorkerTyped
    <2>2. \A g \in w.files \cup w.eaten : g.date <= w.today /\ g.seq < seq'
      BY <1>3 DEF WorkerTyped
    <2> QED BY <1>2, <1>3, <1>4, <2>1, <2>2, DoesIfTyped
  <1> QED BY <1>1, <1>2, <1>5 DEF w

\* Only doomed artifacts are deleted, and all of them unless the pass ends.
LEMMA DropArtifactsFacts ==
    ASSUME WorkerTyped, day' = day, seq' = seq, day \in Nat, DropArtifacts
    PROVE  /\ WorkerTyped' /\ worker.files = {} /\ worker.ids = {}
           /\ worker' \in {Resting, [worker EXCEPT !.step = "index", !.doomed = {}]}
           /\ UNCHANGED analytics
           /\ \E gone \in SUBSET ({"meta", "pdf", "data"} \X worker.doomed) :
                 /\ worker' # Resting => gone = {"meta", "pdf", "data"} \X worker.doomed
                 /\ meta' = [i \in Ids |-> IF <<"meta", i>> \in gone THEN NoMeta ELSE meta[i]]
                 /\ pdf' = {i \in pdf : <<"pdf", i>> \notin gone}
                 /\ data' = {i \in data : <<"data", i>> \notin gone}
                 /\ clash' = [open |-> clash.open,
                               hit |-> clash.hit \cup {i \in clash.open : \E k \in gone : k[2] = i}]
  <1> DEFINE all == {"meta", "pdf", "data"} \X worker.doomed
             w == [worker EXCEPT !.step = "index", !.doomed = {}]
  <1>1. PICK o \in {"ok", "lost"} : \E gone \in IF o = "ok" THEN {all} ELSE SUBSET all :
            /\ meta' = [i \in Ids |-> IF <<"meta", i>> \in gone THEN NoMeta ELSE meta[i]]
            /\ pdf' = {i \in pdf : <<"pdf", i>> \notin gone}
            /\ data' = {i \in data : <<"data", i>> \notin gone}
            /\ clash' = [open |-> clash.open,
                          hit |-> clash.hit \cup {i \in clash.open : \E k \in gone : k[2] = i}]
            /\ DoesIf(o, w)
    BY DEF DropArtifacts
  <1>2. /\ worker \in WorkerType /\ worker.step = "read" /\ worker.files = {} /\ worker.ids = {}
        /\ UNCHANGED analytics
    BY DEF WorkerTyped, DropArtifacts, On
  <1>3. /\ w \in WorkerType /\ w.step = "index" /\ w.today = worker.today /\ w.ids = worker.ids
        /\ w.files = worker.files /\ w.eaten = worker.eaten /\ w.doomed = {}
    BY <1>2 DEF WorkerType
  <1>4. DoesIf(o, w) /\ worker' = IF o = "ok" THEN w ELSE Resting
    BY <1>1 DEF DoesIf, Does
  <1> HIDE DEF w
  <1>5. WorkerTyped' /\ worker' \in {w, Resting}
    <2>1. w.today <= day'
      BY <1>3 DEF WorkerTyped
    <2>2. \A g \in w.files \cup w.eaten : g.date <= w.today /\ g.seq < seq'
      BY <1>3 DEF WorkerTyped
    <2> QED BY <1>2, <1>3, <1>4, <2>1, <2>2, DoesIfTyped
  <1> HIDE DEF all
  <1>6. PICK gone \in IF o = "ok" THEN {all} ELSE SUBSET all :
            /\ meta' = [i \in Ids |-> IF <<"meta", i>> \in gone THEN NoMeta ELSE meta[i]]
            /\ pdf' = {i \in pdf : <<"pdf", i>> \notin gone}
            /\ data' = {i \in data : <<"data", i>> \notin gone}
            /\ clash' = [open |-> clash.open,
                          hit |-> clash.hit \cup {i \in clash.open : \E k \in gone : k[2] = i}]
    BY <1>1
  <1>7. gone \in SUBSET all /\ (worker' # Resting => gone = all)
    BY <1>4, <1>6
  <1> QED BY <1>2, <1>5, <1>6, <1>7 DEF w, all

\* A pass begins with no file eaten and no id doomed.
LEMMA ListExpiryFacts ==
    ASSUME StoreTyped, WorkerTyped, day' = day, seq' = seq, day \in Nat, ListExpiry
    PROVE  /\ WorkerTyped' /\ worker.eaten = {} /\ worker.doomed = {}
           /\ worker' = Resting \/ (worker'.eaten = {} /\ worker'.doomed = {})
  <1> DEFINE w == [worker EXCEPT !.step = "read", !.files = {f \in index : DueFile(f)}]
  <1>1. PICK o \in {"ok", "lost"} : DoesIf(o, w)
    BY DEF ListExpiry
  <1>2. /\ worker \in WorkerType /\ worker.step = "expiry" /\ worker.eaten = {}
        /\ worker.doomed = {} /\ worker.ids = {}
    BY DEF WorkerTyped, ListExpiry, On
  <1>3. /\ w \in WorkerType /\ w.step = "read" /\ w.today = worker.today /\ w.ids = worker.ids
        /\ w.files = {f \in index : DueFile(f)} /\ w.eaten = {} /\ w.doomed = {}
    BY <1>2 DEF WorkerType, StoreTyped
  <1> HIDE DEF w
  <1>4. w.today <= day' /\ \A g \in w.files \cup w.eaten : g.date <= w.today /\ g.seq < seq'
    BY <1>3 DEF WorkerTyped, StoreTyped, DueFile
  <1> QED BY <1>1, <1>2, <1>3, <1>4, DoesIfTyped

\* Only files that were read to the end are deleted from the index.
LEMMA DropIndexFacts ==
    ASSUME WorkerTyped, day' = day, seq' = seq, day \in Nat, DropIndex
    PROVE  /\ WorkerTyped' /\ worker.ids = {} /\ worker.doomed = {}
           /\ worker'.eaten = {} /\ worker'.doomed = {}
           /\ index \ worker.eaten \subseteq index' /\ index' \subseteq index
  <1> DEFINE w == [worker EXCEPT !.step = "raw", !.eaten = {}]
  <1>1. PICK o \in {"ok", "lost"} :
            /\ \E gone \in IF o = "ok" THEN {worker.eaten} ELSE SUBSET worker.eaten :
                  index' = index \ gone
            /\ DoesIf(o, w)
    BY DEF DropIndex
  <1>2. worker \in WorkerType /\ worker.step = "index" /\ worker.ids = {} /\ worker.doomed = {}
    BY DEF WorkerTyped, DropIndex, On
  <1>3. /\ w \in WorkerType /\ w.step = "raw" /\ w.today = worker.today /\ w.ids = {}
        /\ w.files = worker.files /\ w.eaten = {} /\ w.doomed = {}
    BY <1>2 DEF WorkerType
  <1>4. index \ worker.eaten \subseteq index' /\ index' \subseteq index
    <2>1. PICK gone \in SUBSET worker.eaten : index' = index \ gone
      BY <1>1
    <2> QED BY <2>1
  <1> HIDE DEF w
  <1>5. w.today <= day' /\ \A g \in w.files \cup w.eaten : g.date <= w.today /\ g.seq < seq'
    BY <1>3 DEF WorkerTyped
  <1>6. WorkerTyped' /\ worker' \in {w, Resting}
    BY <1>1, <1>3, <1>5, DoesIfTyped
  <1> QED BY <1>2, <1>3, <1>4, <1>6 DEF Resting

\* The steps of a cycle that concern neither the expiry index nor artifacts.
Digest == Aggregate \/ PutSummary \/ ListRaw \/ DropRaw

\* The summary and the raw records concern neither artifacts nor the index.
LEMMA DigestFacts ==
    ASSUME Typed, MaintainsOnly, Digest
    PROVE  /\ WorkerTyped' /\ raw' \subseteq raw /\ summary' \subseteq Ids
           /\ UNCHANGED <<artifacts, index>> /\ clash'.hit = clash.hit
           /\ worker.eaten = {} /\ worker.doomed = {}
           /\ worker'.eaten = {} /\ worker'.doomed = {}
  <1>0. /\ worker \in WorkerType /\ day \in Nat /\ day' = day /\ seq' = seq
        /\ raw \subseteq RecordType /\ summary \subseteq Ids
    BY DEF Typed, WorkerTyped, StoreTyped, MaintainsOnly, server
  <1>1. CASE Aggregate
    <2> DEFINE W(step) == [Resting EXCEPT !.step = step, !.today = day, !.seen = {r.id : r \in raw}]
    <2>1. worker' = W("summary") \/ worker' = W("expiry")
      BY <1>1 DEF Aggregate, Does
    <2>2. /\ worker'.step \in {"summary", "expiry"} /\ worker'.today = day
          /\ worker'.files = {} /\ worker'.ids = {} /\ worker'.doomed = {} /\ worker'.eaten = {}
          /\ worker'.seen = {r.id : r \in raw}
          /\ worker' = [step |-> worker'.step, today |-> day, files |-> {}, ids |-> {},
                        doomed |-> {}, eaten |-> {}, seen |-> worker'.seen]
      BY <2>1 DEF Resting
    <2>3. worker'.seen \subseteq Ids
      BY <1>0, <2>2 DEF RecordType
    <2>4. worker' \in WorkerType
      BY <1>0, <2>2, <2>3 DEF WorkerType
    <2>5. WorkerTyped'
      BY <1>0, <2>2, <2>3, <2>4 DEF WorkerTyped
    <2>6. clash' = [open |-> {}, hit |-> clash.hit]
      BY <1>1 DEF Aggregate
    <2>7. clash'.hit = clash.hit
      BY <2>6
    <2> QED BY <1>0, <1>1, <2>2, <2>5, <2>7 DEF Aggregate, On, Typed, WorkerTyped, analytics
  <1>2. CASE PutSummary
    <2> DEFINE w == [worker EXCEPT !.step = "expiry", !.seen = {}]
    <2>1. worker' = w /\ worker.step = "summary" /\ worker.seen \subseteq Ids
      BY <1>2 DEF PutSummary, Does, On, Typed, WorkerTyped
    <2>2. /\ w \in WorkerType /\ w.step = "expiry" /\ w.today = worker.today /\ w.ids = worker.ids
          /\ w.files = worker.files /\ w.eaten = worker.eaten /\ w.doomed = worker.doomed
      BY <1>0 DEF WorkerType
    <2> HIDE DEF w
    <2>3. WorkerTyped'
      BY <1>0, <2>1, <2>2 DEF WorkerTyped, Typed
    <2>4. summary' \subseteq Ids
      BY <1>0, <1>2, <2>1 DEF PutSummary
    <2> QED BY <1>2, <2>1, <2>2, <2>3, <2>4 DEF PutSummary, Typed, WorkerTyped
  <1>3. CASE ListRaw
    <2> DEFINE w == [worker EXCEPT !.step = "drop raw",
                                   !.seen = {r \in raw : r.day < worker.today - RawDays}]
    <2>1. PICK o \in {"ok", "lost"} : DoesIf(o, w)
      BY <1>3 DEF ListRaw
    <2>2. /\ worker.step = "raw" /\ worker.eaten = {} /\ worker.doomed = {} /\ worker.ids = {}
          /\ UNCHANGED <<artifacts, analytics, clash>>
      BY <1>3 DEF ListRaw, On, Typed, WorkerTyped
    <2>3. /\ w \in WorkerType /\ w.step = "drop raw" /\ w.today = worker.today /\ w.ids = {}
          /\ w.files = worker.files /\ w.eaten = {} /\ w.doomed = {}
      BY <1>0, <2>2 DEF WorkerType
    <2> HIDE DEF w
    <2>4. w.today <= day' /\ \A g \in w.files \cup w.eaten : g.date <= w.today /\ g.seq < seq'
      BY <1>0, <2>3 DEF WorkerTyped, Typed
    <2>5. WorkerTyped' /\ worker' \in {w, Resting}
      BY <1>0, <2>1, <2>3, <2>4, DoesIfTyped
    <2>6. worker'.eaten = {} /\ worker'.doomed = {}
      <3>1. Resting.eaten = {} /\ Resting.doomed = {}
        BY DEF Resting
      <3> QED BY <2>3, <2>5, <3>1
    <2>7. raw' \subseteq raw /\ summary' \subseteq Ids /\ index' = index
      BY <1>0, <2>2 DEF analytics
    <2> QED BY <2>2, <2>5, <2>6, <2>7
  <1>4. CASE DropRaw
    <2>1. /\ worker' = Resting /\ worker.step = "drop raw" /\ raw' \subseteq raw
          /\ UNCHANGED <<artifacts, index, summary, clash>>
      BY <1>4 DEF DropRaw, Does, On
    <2> QED BY <1>0, <2>1, RestingTyped DEF Typed, WorkerTyped, Resting
  <1> QED BY <1>1, <1>2, <1>3, <1>4 DEF Digest

\* Every step of the maintenance cycle keeps the types.
LEMMA MaintainTyped ==
    ASSUME Typed, Maintain
    PROVE  Typed'
  <1>0. /\ ServerTyped /\ StoreTyped /\ WorkerTyped /\ MaintainsOnly
        /\ day \in Nat /\ day' = day /\ seq' = seq
    BY MaintainFrame DEF Typed, MaintainsOnly, server
  <1>1. ServerTyped' /\ day' \in 1..MaxDay
    BY <1>0 DEF MaintainsOnly, server, Typed, ServerTyped, RequestsTyped
  <1>2. StoreTyped' /\ WorkerTyped'
    <2>1. CASE Digest
      BY <1>0, <2>1, DigestFacts DEF StoreTyped, artifacts
    <2>2. CASE ListExpiry
      BY <1>0, <2>2, ListExpiryFacts, StoreTypeStays DEF ListExpiry
    <2>3. CASE ReadExpiry
      BY <1>0, <2>3, ReadExpiryFacts, StoreTypeStays DEF ReadExpiry
    <2>4. CASE CheckMeta
      BY <1>0, <2>4, CheckMetaFacts, StoreTypeStays DEF CheckMeta
    <2>5. CASE DropArtifacts
      <3>1. PICK gone : /\ meta' = [i \in Ids |-> IF <<"meta", i>> \in gone THEN NoMeta ELSE meta[i]]
                        /\ pdf' = {i \in pdf : <<"pdf", i>> \notin gone}
                        /\ data' = {i \in data : <<"data", i>> \notin gone}
        BY <1>0, <2>5, DropArtifactsFacts
      <3>2. UNCHANGED <<raw, index, summary, seq>> /\ WorkerTyped'
        BY <1>0, <2>5, DropArtifactsFacts DEF analytics
      <3>3. /\ data' \subseteq Ids /\ pdf' \subseteq Ids
            /\ meta' \in [Ids -> {NoMeta} \cup [ok : BOOLEAN, expiry : Nat]]
        BY <1>0, <3>1 DEF StoreTyped
      <3> QED BY <1>0, <3>2, <3>3 DEF StoreTyped
    <2>6. CASE DropIndex
      <3>1. index' \subseteq index /\ WorkerTyped'
        BY <1>0, <2>6, DropIndexFacts
      <3> QED BY <1>0, <2>6, <3>1 DEF DropIndex, StoreTyped, artifacts
    <2> QED BY <2>1, <2>2, <2>3, <2>4, <2>5, <2>6 DEF Maintain, Digest
  <1> QED BY <1>1, <1>2 DEF Typed

\* The first state has its type.
LEMMA InitTyped == Init => Typed
  <1> SUFFICES ASSUME Init PROVE Typed
    OBVIOUS
  <1>1. StoreTyped /\ day \in 1..MaxDay
    BY RetentionAssumption DEF Init, StoreTyped
  <1>2. ServerTyped
    BY NoRequestOK, NoFlightTyped, EmptySeq DEF Init, ServerTyped, RequestsTyped, RequestOK
  <1>3. WorkerTyped
    BY DEF Init, WorkerTyped, WorkerType, Resting
  <1> QED BY <1>1, <1>2, <1>3 DEF Typed

\* Nothing changes when nothing happens.
LEMMA StutterTyped ==
    ASSUME Typed, UNCHANGED vars
    PROVE  Typed'
  BY StoreTypeStays, WorkerTypeStays DEF vars, server, Typed, ServerTyped, RequestsTyped

\* Every step keeps the types.
LEMMA TypedStep ==
    ASSUME Typed, [Next]_vars
    PROVE  Typed'
  BY AskTyped, RequestTyped, FlushTyped, MaintainTyped, EnvironmentTyped, StutterTyped DEF Next

\* Every part of the state of store, server and worker has its type, whatever
\* fails: records in the buffer and in a flush have a date, and no index file
\* has a sequence number that is still to come.
THEOREM TypesHold == Spec => []TypeOK
  <1>1. Typed => TypeOK
    <2> SUFFICES ASSUME Typed PROVE TypeOK
      OBVIOUS
    <2>1. \A f \in Flushers : flight[f].recs \in Seq(RecordType)
      BY RecsTyped DEF Typed, FlightType
    <2>2. \A g \in index : g.date \in Nat \ {0} /\ g.ids \subseteq Ids /\ g.seq < seq
      BY IndexTyped DEF Typed, StoreTyped
    <2>3. \A c \in Clients : request[c].step \in RequestSteps
      BY DEF Typed, ServerTyped, RequestsTyped, RequestType
    <2>4. \A r \in raw : r \in RecordType
      BY DEF Typed, StoreTyped
    <2>5. worker.today <= day
      BY DEF Typed, WorkerTyped
    <2> QED BY <2>1, <2>2, <2>3, <2>4, <2>5 DEF Typed, TypeOK, StoreTyped, ServerTyped, RequestSteps
  <1> QED BY <1>1, InitTyped, TypedStep, PTL DEF Spec

-----------------------------------------------------------------------------
(* An orderly stop waits for the requests                                    *)

\* main and the flush loop are not requests, nor each other.
LEMMA TasksDiffer == Main \in Flushers /\ Loop \in Flushers /\ Main \notin Clients /\ Loop # Main
  BY TasksAssumption DEF Flushers

\* A flush of main finds no request, and none starts after it.
LEMMA QuietStep ==
    ASSUME Typed, QuietAtStop, [Next]_vars
    PROVE  QuietAtStop'
  <1>0. ServerTyped /\ RequestsTyped
    BY DEF Typed, ServerTyped
  <1>1. ASSUME NEW c \in Clients, NEW id \in Ids, NEW retain \in Retains, Ask(c, id, retain)
        PROVE  QuietAtStop'
    BY <1>1 DEF Ask, QuietAtStop
  <1>2. ASSUME NEW c \in Clients, Request(c)
        PROVE  QuietAtStop'
    <2>1. request[c].step # "none" /\ UNCHANGED <<up, flight>>
      BY <1>2 DEF Request, PutData, Render, PutPdf, PutMeta, Stage, NothingToFlush, At
    <2> QED BY <2>1 DEF QuietAtStop
  <1>3. ASSUME NEW f \in Flushers, Flush(f)
        PROVE  QuietAtStop'
    <2>1. CASE Drain(f)
      <3>1. f = Main => up = "draining" /\ \A c \in Clients : request[c].step = "none"
        BY <2>1, TasksDiffer DEF Drain, MayFlush, At
      <3>2. UNCHANGED <<up, request>> /\ (f # Main => flight'[Main] = flight[Main])
        BY <1>0, <2>1, DrainFacts, TasksDiffer DEF Drain
      <3> QED BY <3>1, <3>2 DEF QuietAtStop
    <2>2. CASE PutRaw(f) \/ PutIndex(f)
      <3>1. flight[f] # NoFlight
        BY <2>2 DEF PutRaw, PutIndex, NoFlight
      <3>2. (\E fl \in FlightType : Written(f, fl)) \/ Restage(f)
        BY <1>0, <2>2, FlightShrinks DEF PutRaw, PutIndex
      <3>3. /\ \A c \in Clients : request'[c] \in {NoRequest, request[c]}
            /\ up' \in {up, "flushed"} /\ (up' # up => f = Main)
            /\ f # Main => flight'[Main] = flight[Main]
        <4>1. CASE \E fl \in FlightType : Written(f, fl)
          BY <1>0, <4>1, WrittenFacts, TasksDiffer
        <4>2. CASE Restage(f)
          BY <1>0, <4>2, RestageFacts, ReturnedFacts, NoFlightTyped, FlightSet, TasksDiffer
        <4> QED BY <3>2, <4>1, <4>2
      <3>4. NoRequest.step = "none"
        BY DEF NoRequest
      <3> QED BY <3>1, <3>3, <3>4 DEF QuietAtStop
    <2> QED BY <1>3, <2>1, <2>2 DEF Flush
  <1>4. ASSUME Maintain \/ Midnight \/ WorkerCrash \/ UNCHANGED vars
        PROVE  QuietAtStop'
    <2>1. UNCHANGED server
      BY <1>4, MaintainFrame DEF MaintainsOnly, Midnight, WorkerCrash, outside, vars
    <2> QED BY <2>1 DEF server, QuietAtStop
  <1>5. CASE SignalStop
    BY <1>5 DEF SignalStop, QuietAtStop
  <1>6. CASE Exit \/ Crash \/ Restart
    <2>1. Gone("up") \/ Gone("down")
      BY <1>6 DEF Exit, Crash, Restart
    <2> QED BY <2>1, TasksDiffer DEF Gone, QuietAtStop
  <1>7. ASSUME NEW c \in Clients, Cancel(c)
        PROVE  QuietAtStop'
    <2>1. request[c].step # "none" /\ up' = up /\ flight'[Main] = flight[Main]
      BY <1>0, <1>7, CancelFacts, TasksDiffer DEF Cancel
    <2> QED BY <2>1 DEF QuietAtStop
  <1> QED BY <1>1, <1>2, <1>3, <1>4, <1>5, <1>6, <1>7 DEF Next, Environment

\* No step parts a flush from what it carries or from its request.
LEMMA OwnedStep ==
    ASSUME Typed, FlushesOwned, [Next]_vars
    PROVE  FlushesOwned'
  <1>0. ServerTyped /\ RequestsTyped /\ \A c \in Clients : c \in Flushers
    BY DEF Typed, ServerTyped, Flushers
  <1>1. ASSUME NEW c \in Clients, NEW id \in Ids, NEW retain \in Retains, Ask(c, id, retain)
        PROVE  FlushesOwned'
    <2>1. Others(c) /\ request[c].step = "none" /\ flight' = flight
      BY <1>1, AskTyped DEF Ask
    <2> QED BY <2>1 DEF FlushesOwned, Others, Flushing
  <1>2. ASSUME NEW c \in Clients, Request(c)
        PROVE  FlushesOwned'
    <2>1. flight' = flight /\ (request[c].step = "flush" => ~Flushing(c))
      BY <1>2 DEF Request, PutData, Render, PutPdf, PutMeta, Stage, NothingToFlush, At
    <2>2. Others(c)
      <3>1. request[c].step \in {"data", "render", "pdf", "meta", "stage", "flush"}
        BY <1>2 DEF Request, PutData, Render, PutPdf, PutMeta, Stage, NothingToFlush, At
      <3>2. request' = [request EXCEPT ![c] = request'[c]]
        BY <1>0, <1>2 DEF Request, PutData, Render, PutPdf, PutMeta, Stage, NothingToFlush,
                          GoesIf, Goes, Returns, Stamped, RequestsTyped
      <3> QED BY <1>0, <3>2 DEF Others, RequestsTyped
    <2> QED BY <1>0, <2>1, <2>2 DEF FlushesOwned, Others, Flushing
  <1>3. ASSUME NEW f \in Flushers, Flush(f)
        PROVE  FlushesOwned'
    <2>1. CASE Drain(f)
      <3>1. /\ ServerTyped' /\ Recs(f)' = Staged /\ request' = request
            /\ \A g \in Flushers \ {f} : flight'[g] = flight[g]
        BY <1>0, <2>1, DrainFacts DEF Drain
      <3>2. Flushing(f)'
        <4>1. flight'[f].recs = buffer
          BY <1>0, <2>1 DEF Drain, ServerTyped
        <4> QED BY <2>1, <4>1 DEF Drain, Flushing
      <3>3. f \in Clients => request[f].step = "flush"
        BY <2>1, TasksAssumption DEF Drain, MayFlush, At
      <3> QED BY <1>0, <3>1, <3>2, <3>3 DEF FlushesOwned, Flushing
    <2>2. CASE PutRaw(f) \/ PutIndex(f)
      <3>1. Flushing(f)
        BY <2>2 DEF PutRaw, PutIndex, NoFlight, FlushesOwned
      <3>2. (\E fl \in FlightType : fl.recs = flight[f].recs /\ Written(f, fl)) \/ Restage(f)
        BY <1>0, <2>2, FlightShrinks DEF PutRaw, PutIndex
      <3>3. /\ \A c \in Clients \ {f} : request'[c] = request[c]
            /\ \A g \in Flushers \ {f} : flight'[g] = flight[g]
            /\ \/ flight'[f] = NoFlight
               \/ flight'[f].recs = flight[f].recs /\ (f \in Clients => request'[f] = request[f])
        <4>1. CASE \E fl \in FlightType : fl.recs = flight[f].recs /\ Written(f, fl)
          <5>1. PICK fl \in FlightType : fl.recs = flight[f].recs /\ Written(f, fl)
            BY <4>1
          <5>2. /\ \A c \in Clients \ {f} : request'[c] = request[c]
                /\ \A g \in Flushers \ {f} : flight'[g] = flight[g]
                /\ flight'[f] \in {fl, NoFlight}
            BY <1>0, <5>1, WrittenFacts
          <5>3. CASE fl.raws = {} /\ fl.dates = {}
            BY <1>0, <5>1, <5>2, <5>3, NoFlightTyped, FlightSet DEF Written
          <5>4. CASE ~(fl.raws = {} /\ fl.dates = {})
            <6>1. flight' = [flight EXCEPT ![f] = fl] /\ request' = request
              BY <5>1, <5>4 DEF Written
            <6> QED BY <1>0, <5>1, <5>2, <6>1, FlightSet
          <5> QED BY <5>3, <5>4
        <4>2. CASE Restage(f)
          BY <1>0, <4>2, RestageFacts, ReturnedFacts, NoFlightTyped, FlightSet
        <4> QED BY <3>2, <4>1, <4>2
      <3>4. \A g \in Flushers : flight'[g] = NoFlight \/ Flushing(g)'
        BY <3>1, <3>3 DEF FlushesOwned, Flushing
      <3>5. \A c \in Clients : flight'[c] # NoFlight => request'[c].step = "flush"
        <4> TAKE c \in Clients
        <4>1. CASE c = f
          <5>1. flight[f] # NoFlight
            BY <2>2 DEF PutRaw, PutIndex, NoFlight
          <5> QED BY <3>3, <4>1, <5>1 DEF FlushesOwned
        <4>2. CASE c # f
          BY <1>0, <3>3, <4>2 DEF FlushesOwned
        <4> QED BY <4>1, <4>2
      <3> QED BY <3>4, <3>5 DEF FlushesOwned
    <2> QED BY <1>3, <2>1, <2>2 DEF Flush
  <1>4. ASSUME Maintain \/ Midnight \/ WorkerCrash \/ SignalStop \/ UNCHANGED vars
        PROVE  FlushesOwned'
    <2>1. UNCHANGED <<request, flight>>
      BY <1>4, MaintainFrame DEF MaintainsOnly, Midnight, WorkerCrash, SignalStop, outside, vars, server
    <2> QED BY <2>1 DEF FlushesOwned, Flushing
  <1>5. CASE Exit \/ Crash \/ Restart
    <2>1. Gone("up") \/ Gone("down")
      BY <1>5 DEF Exit, Crash, Restart
    <2> QED BY <1>0, <2>1 DEF Gone, FlushesOwned
  <1>6. ASSUME NEW c \in Clients, Cancel(c)
        PROVE  FlushesOwned'
    <2>1. /\ Others(c) /\ flight'[c] = NoFlight
          /\ \A f \in Flushers \ {c} : flight'[f] = flight[f]
      BY <1>0, <1>6, CancelFacts
    <2> QED BY <1>0, <2>1 DEF FlushesOwned, Flushing, Others
  <1> QED BY <1>1, <1>2, <1>3, <1>4, <1>5, <1>6 DEF Next, Environment

\* No step gives a server that is down anything to hold.
LEMMA DownStep ==
    ASSUME Typed, DownIsEmpty, [Next]_vars
    PROVE  DownIsEmpty'
  <1> SUFFICES ASSUME up' = "down"
               PROVE  DownIsEmpty'
    BY DEF DownIsEmpty
  <1>1. CASE Exit \/ Crash \/ Restart
    <2>1. Gone("up") \/ Gone("down")
      BY <1>1 DEF Exit, Crash, Restart
    <2>2. NoRequest.step = "none"
      BY DEF NoRequest
    <2> QED BY <2>1, <2>2 DEF Gone, DownIsEmpty
  <1>2. CASE Maintain \/ Midnight \/ WorkerCrash \/ UNCHANGED vars
    <2>1. UNCHANGED server
      BY <1>2, MaintainFrame DEF MaintainsOnly, Midnight, WorkerCrash, outside, vars
    <2> QED BY <2>1 DEF server, DownIsEmpty
  <1>3. ASSUME NEW f \in Flushers, PutRaw(f) \/ PutIndex(f)
        PROVE  up # "down" /\ up' # "down"
    <2>1. up # "down"
      BY <1>3 DEF PutRaw, PutIndex, NoFlight, DownIsEmpty
    <2>2. up' \in {up, "flushed"}
      BY <1>3 DEF PutRaw, PutIndex, Written, Restage, Returned
    <2> QED BY <2>1, <2>2
  <1>4. ASSUME NEW f \in Flushers, Drain(f)
        PROVE  up # "down" /\ up' # "down"
    BY <1>4 DEF Drain, MayFlush, At, DownIsEmpty
  <1>5. ASSUME NEW c \in Clients, Request(c) \/ Cancel(c)
        PROVE  up # "down" /\ up' # "down"
    BY <1>5 DEF Request, PutData, Render, PutPdf, PutMeta, Stage, NothingToFlush, At, Cancel, DownIsEmpty
  <1>6. ASSUME SignalStop \/ \E c \in Clients, id \in Ids, retain \in Retains : Ask(c, id, retain)
        PROVE  up' # "down"
    BY <1>6 DEF SignalStop, Ask
  <1> QED BY <1>1, <1>2, <1>3, <1>4, <1>5, <1>6 DEF Next, Environment, Flush

-----------------------------------------------------------------------------
(* The announcement of an expiry is never lost silently                      *)

\* Whatever announced id announces it still, or the index does, or the loss
\* is on record.
AnnouncementsStay ==
    \A id \in Ids, e \in Nat \ {0} :
        Announced(id, e) => Announced(id, e)' \/ StillIndexed(id, e)' \/ id \in Forgiven'

\* A step that touches neither buffer, flushes nor records about to be staged loses none.
LEMMA AnnouncementsUntouched ==
    ASSUME UNCHANGED buffer, UNCHANGED flight,
           \A c \in Clients : At(c, "stage") => request'[c] = request[c]
    PROVE  AnnouncementsStay
  <1> SUFFICES ASSUME NEW id \in Ids, NEW e \in Nat \ {0}, Announced(id, e)
               PROVE  Announced(id, e)'
    BY DEF AnnouncementsStay
  <1>1. Staged' = Staged /\ \A f \in Flushers : Recs(f)' = Recs(f) /\ flight'[f] = flight[f]
    BY DEF Staged, Recs
  <1>2. \A c \in Clients : At(c, "stage") => At(c, "stage")' /\ Record(c)' = Record(c)
    BY DEF At, Record
  <1>3. CASE \E r \in Staged : r.id = id /\ r.expiry = e
    BY <1>1, <1>3 DEF Announced
  <1>4. CASE \E f \in Flushers : \E r \in Recs(f) : r.id = id /\ r.expiry = e /\ e \in flight[f].dates
    BY <1>1, <1>4 DEF Announced
  <1>5. CASE \E c \in Clients : At(c, "stage") /\ request[c].id = id /\ Record(c).expiry = e
    BY <1>2, <1>5 DEF Announced, At
  <1> QED BY <1>3, <1>4, <1>5 DEF Announced

\* The request of c records what it did before.
LEMMA MovedRecord ==
    ASSUME NEW c \in Clients, NEW step, Moved(c, step)
    PROVE  Record(c)' = Record(c)
  BY DEF Moved, Record

\* A record leaves its request for the buffer.
LEMMA StageAnnounces ==
    ASSUME Typed, NEW c \in Clients, Stage(c)
    PROVE  AnnouncementsStay
  <1>1. RequestsTyped /\ request[c].step = "stage" /\ Record(c) \in RecordType /\ Record(c).id = request[c].id
    BY RecordTyped DEF Typed, ServerTyped, Stage, At
  <1>2. Staged' = Staged \cup {Record(c)}
    <2>1. buffer \in Seq(RecordType) /\ buffer' = Append(buffer, Record(c))
      BY DEF Stage, Typed, ServerTyped
    <2>2. /\ Len(buffer) \in Nat /\ DOMAIN buffer = 1..Len(buffer)
          /\ buffer' \in Seq(RecordType) /\ Len(buffer') = Len(buffer) + 1
          /\ DOMAIN buffer' = 1..(Len(buffer) + 1)
          /\ \A i \in 1..Len(buffer) : buffer'[i] = buffer[i]
          /\ buffer'[Len(buffer) + 1] = Record(c)
      BY <1>1, <2>1, AppendProperties, LenProperties
    <2> QED BY <2>2 DEF Staged
  <1>3. Others(c) /\ UNCHANGED flight
    BY <1>1, GoesFacts, ReturnsFacts DEF Stage, RequestSteps
  <1> SUFFICES ASSUME NEW id \in Ids, NEW e \in Nat \ {0}, Announced(id, e)
               PROVE  Announced(id, e)'
    BY DEF AnnouncementsStay
  <1>4. CASE \E r \in Staged : r.id = id /\ r.expiry = e
    BY <1>2, <1>4 DEF Announced
  <1>5. CASE \E f \in Flushers : \E r \in Recs(f) : r.id = id /\ r.expiry = e /\ e \in flight[f].dates
    BY <1>3, <1>5 DEF Announced, Recs
  <1>6. CASE \E d \in Clients : At(d, "stage") /\ request[d].id = id /\ Record(d).expiry = e
    <2>1. PICK d \in Clients : At(d, "stage") /\ request[d].id = id /\ Record(d).expiry = e
      BY <1>6
    <2>2. CASE d = c
      BY <1>1, <1>2, <2>1, <2>2 DEF Announced
    <2>3. CASE d # c
      BY <1>3, <2>1, <2>3 DEF Announced, Others, At, Record
    <2> QED BY <2>2, <2>3
  <1> QED BY <1>4, <1>5, <1>6 DEF Announced

\* The buffer leaves for a flush, every record with its date.
LEMMA DrainAnnounces ==
    ASSUME Typed, NEW f \in Flushers, Drain(f)
    PROVE  AnnouncementsStay
  <1>1. /\ Recs(f)' = Staged /\ Recs(f) = {}
        /\ \A r \in Staged : r.expiry # 0 => r.expiry \in flight'[f].dates
        /\ \A g \in Flushers \ {f} : flight'[g] = flight[g] /\ Recs(g)' = Recs(g)
    BY DrainFacts DEF Typed
  <1>2. request' = request
    BY DEF Drain
  <1> SUFFICES ASSUME NEW id \in Ids, NEW e \in Nat \ {0}, Announced(id, e)
               PROVE  Announced(id, e)'
    BY DEF AnnouncementsStay
  <1>3. CASE \E r \in Staged : r.id = id /\ r.expiry = e
    BY <1>1, <1>3 DEF Announced
  <1>4. CASE \E g \in Flushers : \E r \in Recs(g) : r.id = id /\ r.expiry = e /\ e \in flight[g].dates
    BY <1>1, <1>4 DEF Announced
  <1>5. CASE \E c \in Clients : At(c, "stage") /\ request[c].id = id /\ Record(c).expiry = e
    BY <1>2, <1>5 DEF Announced, At, Record
  <1> QED BY <1>3, <1>4, <1>5 DEF Announced

\* A failed flush stages its records again, or loses them beyond the cap.
LEMMA RestageAnnounces ==
    ASSUME ServerTyped, NEW f \in Flushers, Restage(f), f \in Clients => ~At(f, "stage")
    PROVE  AnnouncementsStay
  <1>1. /\ \A r \in Recs(f) \cup Staged : r \in Staged' \/ r.id \in lost'
        /\ flight' = [flight EXCEPT ![f] = NoFlight] /\ Returned(f)
    BY RestageFacts
  <1>2. \A g \in Flushers \ {f} : flight'[g] = flight[g] /\ Recs(g)' = Recs(g)
    BY <1>1, NoFlightTyped, FlightSet
  <1>3. \A c \in Clients \ {f} : request'[c] = request[c]
    BY <1>1, ReturnedFacts
  <1> SUFFICES ASSUME NEW id \in Ids, NEW e \in Nat \ {0}, Announced(id, e), id \notin lost'
               PROVE  Announced(id, e)'
    BY DEF AnnouncementsStay, Forgiven
  <1>4. CASE \E r \in Staged : r.id = id /\ r.expiry = e
    BY <1>1, <1>4 DEF Announced
  <1>5. CASE \E g \in Flushers : \E r \in Recs(g) : r.id = id /\ r.expiry = e /\ e \in flight[g].dates
    BY <1>1, <1>2, <1>5 DEF Announced
  <1>6. CASE \E c \in Clients : At(c, "stage") /\ request[c].id = id /\ Record(c).expiry = e
    BY <1>3, <1>6 DEF Announced, At, Record
  <1> QED BY <1>4, <1>5, <1>6 DEF Announced

\* A successful put takes from a flush nothing but the date it wrote.
LEMMA WrittenAnnounces ==
    ASSUME ServerTyped, NEW f \in Flushers, NEW fl \in FlightType, fl.recs = flight[f].recs,
           Written(f, fl), f \in Clients => ~At(f, "stage"), NEW id, NEW e, Announced(id, e)
    PROVE  \/ Announced(id, e)'
           \/ \E r \in Recs(f) : r.id = id /\ r.expiry = e /\ e \in flight[f].dates \ fl.dates
  <1>1. /\ fl.dates # {} => flight'[f] = fl
        /\ \A g \in Flushers \ {f} : flight'[g] = flight[g] /\ Recs(g)' = Recs(g)
        /\ \A c \in Clients \ {f} : request'[c] = request[c]
        /\ Staged' = Staged
    BY WrittenFacts
  <1>2. flight'[f] = fl => Recs(f)' = Recs(f)
    BY DEF Recs
  <1>3. CASE \E r \in Staged : r.id = id /\ r.expiry = e
    BY <1>1, <1>3 DEF Announced
  <1>4. CASE \E g \in Flushers : \E r \in Recs(g) : r.id = id /\ r.expiry = e /\ e \in flight[g].dates
    <2>0. PICK g \in Flushers :
              \E r \in Recs(g) : r.id = id /\ r.expiry = e /\ e \in flight[g].dates
      BY <1>4
    <2>1. PICK r \in Recs(g) : r.id = id /\ r.expiry = e /\ e \in flight[g].dates
      BY <2>0
    <2>2. CASE g # f
      BY <1>1, <2>1, <2>2 DEF Announced
    <2>3. CASE g = f /\ e \in fl.dates
      <3>1. flight'[f] = fl /\ r \in Recs(f)'
        BY <1>1, <1>2, <2>1, <2>3
      <3> QED BY <2>1, <2>3, <3>1 DEF Announced
    <2> QED BY <2>1, <2>2, <2>3
  <1>5. CASE \E c \in Clients : At(c, "stage") /\ request[c].id = id /\ Record(c).expiry = e
    BY <1>1, <1>5 DEF Announced, At, Record
  <1> QED BY <1>3, <1>4, <1>5 DEF Announced

\* What an index put takes from a flush is in the index, in a file prune has not seen.
LEMMA PutAnnounces ==
    ASSUME Typed, FlushesOwned, NEW f \in Flushers, PutRaw(f) \/ PutIndex(f)
    PROVE  AnnouncementsStay
  <1>0. ServerTyped /\ WorkerTyped /\ Recs(f) \subseteq RecordType /\ flight[f] \in FlightType /\ seq \in Nat
    BY RecsTyped DEF Typed, ServerTyped
  <1>1. f \in Clients => ~At(f, "stage")
    BY DEF PutRaw, PutIndex, NoFlight, FlushesOwned, At
  <1>2. CASE Restage(f)
    BY <1>0, <1>1, <1>2, RestageAnnounces
  <1>3. CASE PutRaw(f) /\ ~Restage(f)
    <2>1. PICK fl \in FlightType :
              fl.recs = flight[f].recs /\ fl.dates = flight[f].dates /\ Written(f, fl)
      BY <1>0, <1>3, FlightShrinks DEF PutRaw
    <2> QED BY <1>0, <1>1, <2>1, WrittenAnnounces DEF AnnouncementsStay
  <1>4. CASE PutIndex(f) /\ ~Restage(f)
    <2> DEFINE d == Earliest(flight[f].dates)
               fl == [flight[f] EXCEPT !.dates = @ \ {d}]
               ids == {r.id : r \in {q \in Recs(f) : q.expiry = d}}
               file == [date |-> d, ids |-> ids, seq |-> seq]
    <2>1. /\ index' = index \cup {file} /\ Written(f, fl) /\ worker' = worker
      BY <1>4 DEF PutIndex, IndexFile, Put
    <2>2. fl \in FlightType /\ fl.recs = flight[f].recs /\ fl.dates = flight[f].dates \ {d}
      BY <1>0, FlightShrinks
    <2>3. file \in index' /\ file.date = d /\ file.ids = ids /\ file.seq = seq
      BY <2>1
    <2>4. file \notin worker.eaten
      BY <1>0, <2>3 DEF WorkerTyped
    <2> HIDE DEF fl, file, d
    <2>5. ASSUME NEW id \in Ids, NEW e \in Nat \ {0}, Announced(id, e), ~Announced(id, e)'
          PROVE  StillIndexed(id, e)'
      <3>1. PICK r \in Recs(f) : r.id = id /\ r.expiry = e /\ e \in flight[f].dates \ fl.dates
        BY <1>0, <1>1, <2>1, <2>2, <2>5, WrittenAnnounces
      <3>2. e = d /\ id \in ids
        BY <2>2, <3>1
      <3> QED BY <2>1, <2>3, <2>4, <3>2 DEF StillIndexed, Spent
    <2> QED BY <2>5 DEF AnnouncementsStay
  <1> QED BY <1>2, <1>3, <1>4

\* Whoever has put a meta.json goes on to stage its record.
LEMMA MetaAnnounces ==
    ASSUME Typed, NEW c \in Clients, PutMeta(c)
    PROVE  /\ AnnouncementsStay
           /\ \A id \in Ids : \/ meta'[id] = meta[id] \/ id \in lost'
                              \/ \E e : e = meta'[id].expiry /\ Announced(id, e)'
  <1> DEFINE rec == Record(c)
  <1>1. PICK o \in Outcomes :
            /\ meta' = IF o = "lost" THEN meta
                       ELSE [meta EXCEPT ![rec.id] = [ok |-> rec.ok, expiry |-> rec.expiry]]
            /\ GoesIf(c, o, "stage")
            /\ lost' = IF o = "applied" THEN lost \cup {rec.id} ELSE lost
    BY DEF PutMeta
  <1>2. /\ RequestsTyped /\ request[c].step = "meta" /\ rec \in RecordType /\ rec.id = request[c].id
        /\ meta \in [Ids -> {NoMeta} \cup [ok : BOOLEAN, expiry : Nat]]
    BY RecordTyped DEF PutMeta, At, Typed, ServerTyped, StoreTyped
  <1>3. Others(c) /\ (o = "ok" => Moved(c, "stage"))
    BY <1>1, <1>2, GoesIfTyped DEF RequestSteps
  <1>4. AnnouncementsStay
    <2>1. UNCHANGED <<buffer, flight>>
      BY DEF PutMeta
    <2> QED BY <1>2, <1>3, <2>1, AnnouncementsUntouched DEF Others, At
  <1>5. ASSUME NEW id \in Ids, meta'[id] # meta[id], id \notin lost'
        PROVE  \E e : e = meta'[id].expiry /\ Announced(id, e)'
    <2>1. o = "ok" /\ id = rec.id
      BY <1>1, <1>2, <1>5 DEF Outcomes
    <2>2. meta'[id].expiry = rec.expiry
      BY <1>1, <1>2, <2>1 DEF RecordType
    <2>3. At(c, "stage")' /\ request'[c].id = id /\ Record(c)' = rec
      BY <1>2, <1>3, <2>1, MovedRecord DEF Moved, At
    <2>4. PICK e : e = rec.expiry
      OBVIOUS
    <2>5. Record(c)'.expiry = e
      BY <2>3, <2>4
    <2>6. Announced(id, e)'
      BY <2>3, <2>5 DEF Announced
    <2> QED BY <2>2, <2>4, <2>6
  <1> QED BY <1>4, <1>5

\* What a process loses when it goes is what it had in memory.
LEMMA GoneAnnounces ==
    ASSUME QuietAtStop, DownIsEmpty, Exit \/ Crash \/ Restart
    PROVE  AnnouncementsStay
  <1>0. ASSUME NEW id, NEW e, Announced(id, e)
        PROVE  up # "down"
    <2>1. \A f \in Flushers : flight[f] = NoFlight => Recs(f) = {}
      BY NoRecs DEF Recs
    <2>2. buffer = <<>> => Staged = {}
      BY EmptySeq, LenProperties DEF Staged
    <2> QED BY <1>0, <2>1, <2>2 DEF DownIsEmpty, Announced, At
  <1> SUFFICES ASSUME NEW id \in Ids, NEW e \in Nat \ {0}, Announced(id, e)
               PROVE  id \in Forgiven'
    BY DEF AnnouncementsStay
  <1>1. id \in InMemory \/ \E c \in Clients : id \in Unstaged(c)
    <2>1. CASE \E r \in Staged : r.id = id /\ r.expiry = e
      BY <2>1 DEF Staged, InMemory
    <2>2. CASE \E f \in Flushers : \E r \in Recs(f) : r.id = id /\ r.expiry = e /\ e \in flight[f].dates
      BY <2>2 DEF InMemory
    <2>3. CASE \E c \in Clients : At(c, "stage") /\ request[c].id = id /\ Record(c).expiry = e
      BY <2>3 DEF Unstaged
    <2> QED BY <2>1, <2>2, <2>3 DEF Announced
  <1>2. CASE Exit
    <2>1. \A c \in Clients : request[c].step = "none"
      BY <1>2, TasksDiffer DEF Exit, QuietAtStop, MayFlush, At
    <2>2. id \in InMemory
      BY <1>1, <2>1 DEF Unstaged, At
    <2> QED BY <1>2, <2>2 DEF Exit, Forgiven
  <1>3. CASE Crash
    BY <1>1, <1>3 DEF Crash, Forgiven
  <1>4. CASE Restart
    BY <1>0, <1>4 DEF Restart
  <1> QED BY <1>2, <1>3, <1>4

\* What a dropped handler loses is what its flush carried and what it had not staged.
LEMMA CancelAnnounces ==
    ASSUME Typed, NEW c \in Clients, Cancel(c)
    PROVE  AnnouncementsStay
  <1>1. /\ Others(c) /\ Staged' = Staged
        /\ \A f \in Flushers \ {c} : flight'[f] = flight[f] /\ Recs(f)' = Recs(f)
        /\ lost' = lost \cup {r.id : r \in Recs(c)} \cup Unstaged(c)
    BY CancelFacts DEF Typed, Cancel
  <1> SUFFICES ASSUME NEW id \in Ids, NEW e \in Nat \ {0}, Announced(id, e), id \notin lost'
               PROVE  Announced(id, e)'
    BY DEF AnnouncementsStay, Forgiven
  <1>2. CASE \E r \in Staged : r.id = id /\ r.expiry = e
    BY <1>1, <1>2 DEF Announced
  <1>3. CASE \E g \in Flushers : \E r \in Recs(g) : r.id = id /\ r.expiry = e /\ e \in flight[g].dates
    BY <1>1, <1>3 DEF Announced
  <1>4. CASE \E d \in Clients : At(d, "stage") /\ request[d].id = id /\ Record(d).expiry = e
    BY <1>1, <1>4 DEF Announced, At, Record, Others, Unstaged
  <1> QED BY <1>2, <1>3, <1>4 DEF Announced

\* A step of the server that loses no announcement uncovers nothing.
LEMMA CoveredByServer ==
    ASSUME Covered, UNCHANGED worker, index \subseteq index', Forgiven \subseteq Forgiven',
           AnnouncementsStay,
           \A id \in Ids : \/ meta'[id] = meta[id] \/ id \in Forgiven'
                           \/ \E e : e = meta'[id].expiry /\ Announced(id, e)'
    PROVE  Covered'
  <1> SUFFICES ASSUME NEW id \in Ids, NEW e \in Nat \ {0}, id \notin Forgiven', meta'[id].expiry = e
               PROVE  \/ Announced(id, e)' \/ StillIndexed(id, e)'
                      \/ id \in worker'.doomed /\ Indexed(id, e)'
    BY DEF Covered
  <1>1. CASE \E x : x = meta'[id].expiry /\ Announced(id, x)'
    BY <1>1
  <1>2. CASE meta'[id] = meta[id]
    <2>1. Announced(id, e) \/ StillIndexed(id, e) \/ (id \in worker.doomed /\ Indexed(id, e))
      BY <1>2 DEF Covered
    <2>2. StillIndexed(id, e) => StillIndexed(id, e)'
      BY DEF StillIndexed, Spent
    <2>3. Indexed(id, e) => Indexed(id, e)'
      BY DEF Indexed
    <2> QED BY <2>1, <2>2, <2>3 DEF AnnouncementsStay
  <1> QED BY <1>1, <1>2

\* Prune eats a file only after it has looked at each of its entries.
LEMMA CoveredByMaintain ==
    ASSUME Typed, Covered, Maintain
    PROVE  Covered'
  <1>0. /\ StoreTyped /\ WorkerTyped /\ MaintainsOnly
        /\ day \in Nat /\ day' = day /\ seq' = seq /\ Forgiven' = Forgiven
    BY MaintainFrame DEF Typed, MaintainsOnly, server, Forgiven
  <1>1. \A id, e : Announced(id, e) => Announced(id, e)'
    <2>1. UNCHANGED <<buffer, flight, request>>
      BY <1>0 DEF MaintainsOnly, server
    <2> QED BY <2>1 DEF Announced, Staged, Recs, At, Record
  <1> SUFFICES ASSUME NEW id \in Ids, NEW e \in Nat \ {0}, id \notin Forgiven, meta'[id].expiry = e,
                      ~Announced(id, e)
               PROVE  StillIndexed(id, e)' \/ (id \in worker'.doomed /\ Indexed(id, e)')
    BY <1>0, <1>1 DEF Covered
  <1>2. meta[id].expiry = e => StillIndexed(id, e) \/ (id \in worker.doomed /\ Indexed(id, e))
    BY DEF Covered
  <1>3. StillIndexed(id, e) => Indexed(id, e)
    BY DEF StillIndexed, Indexed
  \* A worker that starts over has spent nothing.
  <1>4. ASSUME index' = index, meta' = meta, worker'.eaten = {}
        PROVE  StillIndexed(id, e)'
    BY <1>2, <1>3, <1>4 DEF StillIndexed, Indexed, Spent
  <1>5. Resting.eaten = {}
    BY DEF Resting
  <1>6. CASE Digest \/ ListExpiry
    BY <1>0, <1>4, <1>5, <1>6, DigestFacts, ListExpiryFacts DEF ListExpiry, artifacts, analytics
  <1>7. CASE ReadExpiry
    <2>0. index' = index /\ meta' = meta
      BY <1>7 DEF ReadExpiry, artifacts, analytics
    <2>1. CASE worker' = Resting
      BY <1>4, <1>5, <2>0, <2>1
    <2>2. CASE \E f \in worker.files : worker' = [worker EXCEPT !.files = @ \ {f}, !.eaten = @ \cup {f},
                                                                !.ids = @ \cup f.ids]
      <3>1. PICK f \in worker.files : worker' = [worker EXCEPT !.files = @ \ {f}, !.eaten = @ \cup {f},
                                                                !.ids = @ \cup f.ids]
        BY <2>2
      <3>2. /\ worker'.eaten = worker.eaten \cup {f} /\ worker'.ids = worker.ids \cup f.ids
            /\ worker'.doomed = worker.doomed
        BY <1>0, <3>1 DEF WorkerTyped, WorkerType
      <3>3. StillIndexed(id, e) => StillIndexed(id, e)'
        BY <2>0, <3>2 DEF StillIndexed, Spent
      <3> QED BY <1>2, <2>0, <3>2, <3>3 DEF Indexed
    <2> QED BY <1>0, <1>7, <2>1, <2>2, ReadExpiryFacts
  <1>8. CASE CheckMeta
    <2>0. index' = index /\ meta' = meta
      BY <1>8 DEF CheckMeta, artifacts, analytics
    <2>1. CASE worker' = Resting
      BY <1>4, <1>5, <2>0, <2>1
    <2>2. CASE worker' # Resting
      <3>1. PICK x \in worker.ids :
                worker' = [worker EXCEPT !.ids = @ \ {x},
                               !.doomed = IF EntryIsDue(x) THEN @ \cup {x} ELSE @]
        BY <1>0, <1>8, <2>2, CheckMetaFacts
      <3>2. /\ worker'.eaten = worker.eaten /\ worker'.ids = worker.ids \ {x}
            /\ worker'.doomed = IF EntryIsDue(x) THEN worker.doomed \cup {x} ELSE worker.doomed
        BY <1>0, <3>1 DEF WorkerTyped, WorkerType
      <3>3. CASE id \in worker.doomed /\ Indexed(id, e)
        BY <2>0, <3>2, <3>3 DEF Indexed
      <3>4. CASE StillIndexed(id, e) /\ id # x
        BY <2>0, <3>2, <3>4 DEF StillIndexed, Spent
      <3>5. CASE StillIndexed(id, e) /\ id = x /\ EntryIsDue(x)
        BY <1>3, <2>0, <3>2, <3>5 DEF Indexed
      <3>6. CASE StillIndexed(id, e) /\ id = x /\ ~EntryIsDue(x)
        <4>0. meta[id].expiry = e /\ ~IsDue(e, worker.today)
          BY <2>0, <3>6 DEF EntryIsDue
        <4>1. worker.today \in Nat /\ ~(e <= worker.today)
          <5>1. worker.today \in Nat
            BY <1>0 DEF WorkerTyped, WorkerType
          <5> QED BY <4>0, <5>1 DEF IsDue
        <4>2. PICK f \in index : f.date = e /\ id \in f.ids /\ ~Spent(f, id)
          BY <3>6 DEF StillIndexed
        <4>3. f \notin worker.eaten
          BY <1>0, <4>1, <4>2 DEF WorkerTyped
        <4> QED BY <2>0, <3>2, <4>2, <4>3 DEF StillIndexed, Spent
      <3> QED BY <1>2, <2>0, <3>3, <3>4, <3>5, <3>6
    <2> QED BY <2>1, <2>2
  <1>9. CASE DropArtifacts
    <2>1. PICK gone \in SUBSET ({"meta", "pdf", "data"} \X worker.doomed) :
              /\ worker' # Resting => gone = {"meta", "pdf", "data"} \X worker.doomed
              /\ meta' = [i \in Ids |-> IF <<"meta", i>> \in gone THEN NoMeta ELSE meta[i]]
      BY <1>0, <1>9, DropArtifactsFacts
    <2>2. /\ worker' \in {Resting, [worker EXCEPT !.step = "index", !.doomed = {}]}
          /\ index' = index
      BY <1>0, <1>9, DropArtifactsFacts DEF analytics
    <2>3. NoMeta.expiry \notin Nat
      BY DEF NoMeta
    <2>4. <<"meta", id>> \notin gone /\ meta[id].expiry = e
      BY <2>1, <2>3
    <2>5. CASE worker' = Resting
      BY <1>2, <1>3, <1>5, <2>2, <2>4, <2>5 DEF StillIndexed, Indexed, Spent
    <2>6. CASE worker' # Resting
      <3>1. id \notin worker.doomed
        BY <2>1, <2>4, <2>6
      <3>2. worker'.eaten = worker.eaten /\ worker'.ids = worker.ids
        BY <1>0, <2>2, <2>6 DEF WorkerTyped, WorkerType
      <3> QED BY <1>2, <2>2, <2>4, <3>1, <3>2 DEF StillIndexed, Spent
    <2> QED BY <2>5, <2>6
  <1>10. CASE DropIndex
    <2>1. /\ worker.ids = {} /\ worker.doomed = {} /\ worker'.eaten = {}
          /\ index \ worker.eaten \subseteq index' /\ meta' = meta
      BY <1>0, <1>10, DropIndexFacts DEF DropIndex, artifacts
    <2>2. StillIndexed(id, e)
      BY <1>2, <2>1
    <2> QED BY <2>1, <2>2 DEF StillIndexed, Spent
  <1> QED BY <1>6, <1>7, <1>8, <1>9, <1>10 DEF Maintain, Digest

\* No step uncovers an expiry.
LEMMA CoveredStep ==
    ASSUME Typed, QuietAtStop, FlushesOwned, DownIsEmpty, Covered, [Next]_vars
    PROVE  Covered'
  <1>1. ASSUME NEW c \in Clients, NEW id \in Ids, NEW retain \in Retains, Ask(c, id, retain)
        PROVE  Covered'
    <2>1. /\ UNCHANGED <<worker, index, meta, buffer, flight, lost, cut>>
          /\ \A d \in Clients : At(d, "stage") => request'[d] = request[d]
      BY <1>1, AskTyped DEF Ask, artifacts, analytics, At, Others
    <2> QED BY <2>1, AnnouncementsUntouched, CoveredByServer DEF Forgiven
  <1>2. ASSUME NEW c \in Clients, Request(c)
        PROVE  Covered'
    <2>0. RequestsTyped /\ day \in 1..MaxDay
      BY DEF Typed, ServerTyped
    <2>1. CASE PutData(c) \/ Render(c) \/ PutPdf(c) \/ NothingToFlush(c)
      <3>1. UNCHANGED <<worker, index, meta, buffer, flight, lost, cut>> /\ ~At(c, "stage")
        BY <2>1 DEF PutData, Render, PutPdf, NothingToFlush, artifacts, analytics, At
      <3>2. Others(c)
        BY <2>0, <2>1, GoesIfTyped, GoesFacts, StampedFacts, ReturnsFacts
           DEF PutData, Render, PutPdf, NothingToFlush, At, RequestSteps
      <3> QED BY <3>1, <3>2, AnnouncementsUntouched, CoveredByServer DEF Forgiven, Others
    <2>2. CASE PutMeta(c)
      <3>1. worker' = worker /\ index' = index /\ lost \subseteq lost' /\ cut' = cut
        BY <2>2 DEF PutMeta, analytics
      <3> QED BY <2>2, <3>1, MetaAnnounces, CoveredByServer DEF Forgiven
    <2>3. CASE Stage(c)
      <3>1. UNCHANGED <<worker, index, meta, lost, cut>>
        BY <2>3 DEF Stage, artifacts, analytics
      <3> QED BY <2>3, <3>1, StageAnnounces, CoveredByServer DEF Forgiven
    <2> QED BY <1>2, <2>1, <2>2, <2>3 DEF Request
  <1>3. ASSUME NEW f \in Flushers, Flush(f)
        PROVE  Covered'
    <2>1. AnnouncementsStay
      BY <1>3, DrainAnnounces, PutAnnounces DEF Flush
    <2>2. UNCHANGED <<worker, meta, cut>> /\ index \subseteq index' /\ lost \subseteq lost'
      BY <1>3 DEF Flush, Drain, PutRaw, PutIndex, Put, Written, Restage, artifacts, analytics
    <2> QED BY <2>1, <2>2, CoveredByServer DEF Forgiven
  <1>4. CASE Exit \/ Crash \/ Restart
    <2>1. UNCHANGED <<worker, meta, index>> /\ Forgiven \subseteq Forgiven'
      BY <1>4 DEF Exit, Crash, Restart, artifacts, analytics, Forgiven
    <2> QED BY <1>4, <2>1, GoneAnnounces, CoveredByServer
  <1>5. ASSUME NEW c \in Clients, Cancel(c)
        PROVE  Covered'
    <2>1. UNCHANGED <<worker, meta, index>> /\ Forgiven \subseteq Forgiven'
      BY <1>5 DEF Cancel, artifacts, analytics, Forgiven
    <2> QED BY <1>5, <2>1, CancelAnnounces, CoveredByServer
  <1>6. CASE SignalStop \/ Midnight \/ UNCHANGED vars
    <2>1. UNCHANGED <<worker, index, meta, buffer, flight, request, lost, cut>>
      BY <1>6 DEF SignalStop, Midnight, vars, artifacts, analytics, server
    <2> QED BY <2>1, AnnouncementsUntouched, CoveredByServer DEF Forgiven
  <1>7. CASE WorkerCrash
    <2>1. UNCHANGED <<index, meta, buffer, flight, request, lost, cut>> /\ worker' = Resting
      BY <1>7 DEF WorkerCrash, Does, outside, artifacts, analytics, server
    <2>2. worker'.eaten = {}
      BY <2>1 DEF Resting
    <2>3. \A id, e : Announced(id, e) => Announced(id, e)'
      BY <2>1 DEF Announced, Staged, Recs, At, Record
    <2>4. \A id, e : StillIndexed(id, e) \/ Indexed(id, e) => StillIndexed(id, e)'
      BY <2>1, <2>2 DEF StillIndexed, Indexed, Spent
    <2> QED BY <2>1, <2>3, <2>4 DEF Covered, Forgiven
  <1>8. CASE Maintain
    BY <1>8, CoveredByMaintain
  <1> QED BY <1>1, <1>2, <1>3, <1>4, <1>5, <1>6, <1>7, <1>8 DEF Next, Environment

-----------------------------------------------------------------------------
(* An output is served until it is due                                       *)

StoringSteps == {"data", "render", "pdf", "meta"}

\* No request gets a new id, and none goes back to storing.
RequestsGoOn ==
    \A c \in Clients : request'[c].step # "none" =>
        /\ request[c].step # "none" /\ request'[c].id = request[c].id
        /\ request'[c].step \in StoringSteps => request[c].step \in StoringSteps

\* An id that is being stored after such a step was before it.
LEMMA NoneStarts ==
    ASSUME RequestsGoOn, NEW id, Storing(id)'
    PROVE  Storing(id)
  BY DEF RequestsGoOn, Storing, StoringSteps

\* The step leaves what is stored and the worker alone.
LEMMA ServedUntouched ==
    ASSUME Served, Typed, UNCHANGED <<data, pdf, meta, worker, clash>>, day' \in Nat, day' >= day,
           RequestsGoOn,
           \A c \in Clients : \/ request'[c].step \notin {"render", "pdf", "meta"}
                              \/ request'[c] = request[c]
                              \/ /\ request[c].step \in {"render", "pdf"}
                                 /\ request'[c].step = "meta" => ~request'[c].ok
    PROVE  Served'
  <1>1. Kept'
    <2> SUFFICES ASSUME NEW c \in Clients, request'[c].id \notin clash.hit,
                        request'[c].step \in {"render", "pdf", "meta"}
                 PROVE  /\ request'[c].id \in data
                        /\ (request'[c].step = "meta" /\ request'[c].ok) => request'[c].id \in pdf
      BY DEF Kept
    <2>1. /\ request[c].id \notin clash.hit /\ request'[c].id = request[c].id
          /\ request[c].step \in {"render", "pdf", "meta"} => request[c].id \in data
          /\ (request[c].step = "meta" /\ request[c].ok) => request[c].id \in pdf
      BY DEF Served, Kept, RequestsGoOn
    <2>2. CASE request'[c] = request[c]
      BY <2>1, <2>2
    <2>3. CASE request[c].step \in {"render", "pdf"} /\ (request'[c].step = "meta" => ~request'[c].ok)
      BY <2>1, <2>3
    <2> QED BY <2>2, <2>3
  <1>2. DoomedIsDue'
    BY NoneStarts DEF Served, DoomedIsDue
  <1>3. ServableUntilDue'
    <2>1. ASSUME NEW id \in Ids, ~IsDue(meta[id].expiry, day')
          PROVE  meta[id] = NoMeta \/ ~IsDue(meta[id].expiry, day)
      <3>1. day \in Nat /\ (meta[id] = NoMeta \/ meta[id].expiry \in Nat)
        BY DEF Typed, StoreTyped
      <3> QED BY <2>1, <3>1 DEF IsDue
    <2> QED BY <2>1 DEF Served, ServableUntilDue
  <1> QED BY <1>1, <1>2, <1>3 DEF Served

\* A request puts input and PDF before meta.json, for an id prune is not deciding on.
LEMMA ServedByRequest ==
    ASSUME Typed, Served, NEW c \in Clients, Request(c)
    PROVE  Served'
  <1>0. /\ RequestsTyped /\ day \in 1..MaxDay /\ day \in Nat /\ RequestOK(request[c])
        /\ UNCHANGED <<worker, clash, day>>
    <2>1. RequestsTyped /\ day \in 1..MaxDay /\ day \in Nat /\ RequestOK(request[c])
      BY DEF Typed, ServerTyped, RequestsTyped
    <2>2. UNCHANGED <<worker, clash, day>>
      BY DEF Request, PutData, Render, PutPdf, PutMeta, Stage, NothingToFlush
    <2> QED BY <2>1, <2>2
  <1>1. request[c].step # "none" /\ request[c].id \in Ids
    BY <1>0 DEF Request, PutData, Render, PutPdf, PutMeta, Stage, NothingToFlush, At, RequestOK
  <1>2. NoRequest.step = "none"
    BY DEF NoRequest
  <1>3. ASSUME RequestsGoOn, UNCHANGED meta
        PROVE  DoomedIsDue'
    BY <1>0, <1>3, NoneStarts DEF Served, DoomedIsDue
  <1>4. CASE PutData(c)
    <2>1. PICK o \in Outcomes : data' = Put(data, request[c].id, o) /\ GoesIf(c, o, "render")
      BY <1>4 DEF PutData
    <2>2. Others(c) /\ IF o = "ok" THEN Moved(c, "render") ELSE request'[c] = NoRequest
      BY <1>0, <1>1, <2>1, GoesIfTyped DEF RequestSteps
    <2>3. UNCHANGED <<pdf, meta>> /\ data \subseteq data' /\ (o = "ok" => request[c].id \in data')
      BY <1>4, <2>1 DEF PutData, Put
    <2>4. RequestsGoOn
      BY <1>1, <1>2, <1>4, <2>2 DEF RequestsGoOn, Others, Moved, StoringSteps, PutData, At
    <2>5. Kept'
      <3>1. ASSUME NEW d \in Clients, d # c
            PROVE  request'[d] = request[d]
        BY <2>2, <3>1 DEF Others
      <3> QED BY <1>0, <1>2, <2>2, <2>3, <3>1 DEF Served, Kept, Moved
    <2>6. ServableUntilDue'
      BY <1>0, <2>3 DEF Served, ServableUntilDue
    <2> QED BY <1>3, <2>3, <2>4, <2>5, <2>6 DEF Served
  <1>5. CASE Render(c)
    <2>1. Others(c) /\ (Moved(c, "pdf") \/ (request'[c].step = "meta" /\ request'[c].id = request[c].id
                                              /\ ~request'[c].ok))
      BY <1>0, <1>1, <1>5, GoesFacts, StampedFacts DEF Render, RequestSteps
    <2>2. request[c].step = "render" /\ UNCHANGED <<data, pdf, meta>>
      BY <1>5 DEF Render, At, artifacts
    <2> QED BY <1>0, <1>1, <2>1, <2>2, ServedUntouched
            DEF RequestsGoOn, Others, Moved, StoringSteps
  <1>6. CASE PutPdf(c)
    <2>1. PICK o \in Outcomes : /\ pdf' = Put(pdf, request[c].id, o)
                                /\ IF o = "ok" THEN Stamped(c, TRUE) ELSE Returns(c)
      BY <1>6 DEF PutPdf
    <2>2. /\ Others(c)
          /\ IF o = "ok" THEN request'[c].step = "meta" /\ request'[c].id = request[c].id
             ELSE request'[c] = NoRequest
      BY <1>0, <1>1, <2>1, StampedFacts, ReturnsFacts
    <2>3. /\ UNCHANGED <<data, meta>> /\ pdf \subseteq pdf' /\ (o = "ok" => request[c].id \in pdf')
          /\ request[c].step = "pdf"
      BY <1>6, <2>1 DEF PutPdf, Put, At
    <2>4. RequestsGoOn
      BY <1>1, <1>2, <2>2, <2>3 DEF RequestsGoOn, Others, StoringSteps
    <2>5. Kept'
      <3>1. ASSUME NEW d \in Clients, d # c
            PROVE  request'[d] = request[d]
        BY <2>2, <3>1 DEF Others
      <3> QED BY <1>0, <1>2, <2>2, <2>3, <3>1 DEF Served, Kept
    <2>6. ServableUntilDue'
      BY <1>0, <2>3 DEF Served, ServableUntilDue
    <2> QED BY <1>3, <2>3, <2>4, <2>5, <2>6 DEF Served
  <1>7. CASE PutMeta(c)
    <2> DEFINE rec == Record(c)
    <2>1. PICK o \in Outcomes :
              /\ meta' = IF o = "lost" THEN meta
                         ELSE [meta EXCEPT ![rec.id] = [ok |-> rec.ok, expiry |-> rec.expiry]]
              /\ GoesIf(c, o, "stage")
      BY <1>7 DEF PutMeta
    <2>2. /\ request[c].step = "meta" /\ rec.id = request[c].id /\ rec.ok = request[c].ok
          /\ UNCHANGED <<data, pdf>>
      BY <1>0, <1>7, RecordTyped DEF PutMeta, At
    <2>3. Others(c) /\ IF o = "ok" THEN Moved(c, "stage") ELSE request'[c] = NoRequest
      BY <1>0, <1>1, <2>1, <2>2, GoesIfTyped DEF RequestSteps
    <2>4. RequestsGoOn
      BY <1>1, <1>2, <2>2, <2>3 DEF RequestsGoOn, Others, Moved, StoringSteps
    <2>5. Kept'
      BY <1>0, <1>2, <2>2, <2>3 DEF Served, Kept, Others, Moved
    <2>6. \A id \in Ids : meta'[id] = meta[id] \/ (id = request[c].id /\ meta'[id].ok = request[c].ok)
      BY <2>1, <2>2 DEF Typed, StoreTyped
    <2>7. DoomedIsDue'
      <3>1. Storing(request[c].id)
        BY <2>2 DEF Storing
      <3>2. \A id \in worker.doomed : id \in Ids
        BY DEF Typed, WorkerTyped, WorkerType
      <3> QED BY <1>0, <2>4, <2>6, <3>1, <3>2, NoneStarts DEF Served, DoomedIsDue
    <2>8. ServableUntilDue'
      BY <1>0, <2>2, <2>6 DEF Served, ServableUntilDue, Kept
    <2> QED BY <2>5, <2>7, <2>8 DEF Served
  <1>8. CASE Stage(c) \/ NothingToFlush(c)
    <2>1. UNCHANGED <<data, pdf, meta>> /\ request[c].step \in {"stage", "flush"}
      BY <1>8 DEF Stage, NothingToFlush, artifacts, At
    <2>2. Others(c) /\ (Moved(c, "flush") \/ request'[c] = NoRequest)
      BY <1>0, <1>8, <2>1, GoesFacts, ReturnsFacts DEF Stage, NothingToFlush, RequestSteps
    <2> QED BY <1>0, <1>1, <1>2, <2>1, <2>2, ServedUntouched
            DEF RequestsGoOn, Others, Moved, StoringSteps
  <1> QED BY <1>4, <1>5, <1>6, <1>7, <1>8 DEF Request

\* A request for an id prune has decided on opens a clash.
LEMMA ServedByAsk ==
    ASSUME Typed, Served, NEW c \in Clients, NEW id \in Ids, NEW retain \in Retains, Ask(c, id, retain)
    PROVE  Served'
  <1>1. /\ UNCHANGED <<data, pdf, meta, worker, day>>
        /\ clash'.open = clash.open \cup (worker.doomed \cap {id}) /\ clash'.hit = clash.hit
        /\ Others(c) /\ request'[c].step = "data" /\ request'[c].id = id
    <2>1. clash' = [open |-> clash.open \cup (worker.doomed \cap {id}), hit |-> clash.hit]
      BY DEF Ask
    <2>2. clash'.open = clash.open \cup (worker.doomed \cap {id}) /\ clash'.hit = clash.hit
      BY <2>1
    <2>3. Others(c) /\ request'[c].step = "data" /\ request'[c].id = id
      BY AskTyped
    <2>4. UNCHANGED <<data, pdf, meta, worker, day>>
      BY DEF Ask, artifacts
    <2> QED BY <2>2, <2>3, <2>4
  <1>2. Kept'
    BY <1>1 DEF Served, Kept, Others
  <1>3. \A i \in worker.doomed \ clash'.open : Storing(i)' => Storing(i)
    BY <1>1 DEF Storing, Others
  <1>4. DoomedIsDue'
    BY <1>1, <1>3 DEF Served, DoomedIsDue
  <1>5. ServableUntilDue'
    BY <1>1 DEF Served, ServableUntilDue
  <1> QED BY <1>2, <1>4, <1>5 DEF Served

\* What prune is about to delete is due on the day of the step too.
LEMMA DoomedMetaIsDue ==
    ASSUME StoreTyped, WorkerTyped, day \in Nat, DoomedIsDue,
           NEW id \in Ids \cap (worker.doomed \ clash.open), meta[id] # NoMeta
    PROVE  IsDue(meta[id].expiry, day)
  <1>1. worker.today \in Nat /\ worker.today <= day /\ meta[id].expiry \in Nat
    BY DEF WorkerTyped, WorkerType, StoreTyped
  <1>2. IsDue(meta[id].expiry, worker.today)
    BY DEF DoomedIsDue
  <1> QED BY <1>1, <1>2 DEF IsDue

\* Prune deletes nothing but what it has found due, or hits a clash.
LEMMA ServedByMaintain ==
    ASSUME Typed, Served, Maintain
    PROVE  Served'
  <1>0. /\ StoreTyped /\ WorkerTyped /\ MaintainsOnly /\ request' = request
        /\ day \in Nat /\ day' = day /\ seq' = seq
        /\ \A id : Storing(id)' <=> Storing(id)
    <2>1. MaintainsOnly /\ request' = request
      BY MaintainFrame DEF MaintainsOnly, server
    <2> QED BY <2>1 DEF Typed, MaintainsOnly, server, Storing
  <1>1. ASSUME UNCHANGED artifacts, clash'.hit = clash.hit
        PROVE  Kept' /\ ServableUntilDue'
    BY <1>0, <1>1 DEF artifacts, Served, Kept, ServableUntilDue
  <1>2. Resting.doomed = {}
    BY DEF Resting
  <1>3. ASSUME worker'.doomed = {}
        PROVE  DoomedIsDue'
    BY <1>3 DEF DoomedIsDue
  <1>4. CASE Digest \/ ListExpiry \/ DropIndex
    <2>1. UNCHANGED artifacts /\ clash'.hit = clash.hit /\ worker'.doomed = {}
      BY <1>0, <1>2, <1>4, DigestFacts, ListExpiryFacts, DropIndexFacts DEF ListExpiry, DropIndex
    <2> QED BY <1>1, <1>3, <2>1 DEF Served
  <1>5. CASE ReadExpiry
    <2>1. UNCHANGED <<artifacts, clash>>
      BY <1>5 DEF ReadExpiry
    <2>2. worker' = Resting \/ (worker'.doomed = worker.doomed /\ worker'.today = worker.today)
      BY <1>0, <1>5, ReadExpiryFacts DEF WorkerTyped, WorkerType
    <2>3. DoomedIsDue'
      BY <1>0, <1>2, <1>3, <2>1, <2>2 DEF artifacts, Served, DoomedIsDue
    <2> QED BY <1>1, <2>1, <2>3 DEF Served
  <1>6. CASE CheckMeta
    <2>1. PICK id \in worker.ids :
              /\ clash' = [open |-> IF Storing(id) THEN clash.open \cup {id} ELSE clash.open, hit |-> clash.hit]
              /\ \/ worker' = Resting
                 \/ worker' = [worker EXCEPT
                        !.ids = @ \ {id},
                        !.doomed = IF EntryIsDue(id) THEN @ \cup {id} ELSE @]
      BY <1>0, <1>6, CheckMetaFacts
    <2>2. UNCHANGED artifacts
      BY <1>6 DEF CheckMeta
    <2>4. /\ clash'.hit = clash.hit
          /\ clash'.open = IF Storing(id) THEN clash.open \cup {id} ELSE clash.open
      BY <2>1
    <2>3. DoomedIsDue'
      <3>1. CASE worker' = Resting
        BY <1>2, <1>3, <3>1
      <3>2. CASE worker' # Resting
        <4>1. /\ worker'.today = worker.today
              /\ worker'.doomed = IF EntryIsDue(id) THEN worker.doomed \cup {id} ELSE worker.doomed
          BY <1>0, <2>1, <3>2 DEF WorkerTyped, WorkerType
        <4>2. ASSUME NEW i \in worker'.doomed \ clash'.open
              PROVE  ~Storing(i)' /\ (meta'[i] = NoMeta \/ IsDue(meta'[i].expiry, worker'.today))
          <5>1. CASE i \in worker.doomed
            BY <1>0, <2>2, <2>4, <4>1, <4>2, <5>1 DEF artifacts, Served, DoomedIsDue
          <5>2. CASE i = id /\ EntryIsDue(id)
            BY <1>0, <2>2, <2>4, <4>1, <4>2, <5>2 DEF artifacts, EntryIsDue
          <5> QED BY <4>1, <4>2, <5>1, <5>2
        <4> QED BY <4>2 DEF DoomedIsDue
      <3> QED BY <3>1, <3>2
    <2> QED BY <1>1, <2>2, <2>3, <2>4 DEF Served
  <1>7. CASE DropArtifacts
    <2>1. PICK gone \in SUBSET ({"meta", "pdf", "data"} \X worker.doomed) :
              /\ meta' = [i \in Ids |-> IF <<"meta", i>> \in gone THEN NoMeta ELSE meta[i]]
              /\ pdf' = {i \in pdf : <<"pdf", i>> \notin gone}
              /\ data' = {i \in data : <<"data", i>> \notin gone}
              /\ clash' = [open |-> clash.open,
                           hit |-> clash.hit \cup {i \in clash.open : \E k \in gone : k[2] = i}]
      BY <1>0, <1>7, DropArtifactsFacts
    <2> DEFINE Deleted == {i \in Ids : \E k \in gone : k[2] = i}
    <2>2. worker'.doomed = {}
      BY <1>0, <1>2, <1>7, DropArtifactsFacts DEF WorkerTyped, WorkerType
    <2>3. \A i \in Ids \ Deleted : /\ i \in data => i \in data'
                                   /\ i \in pdf => i \in pdf'
      <3>1. \A i, kind : <<kind, i>> \in gone => \E k \in gone : k[2] = i
        OBVIOUS
      <3> QED BY <2>1, <3>1
    <2>4. Deleted \subseteq worker.doomed
      <3>1. \A k \in gone : k[2] \in worker.doomed
        BY <2>1
      <3> QED BY <3>1
    <2>5. clash'.hit = clash.hit \cup {i \in clash.open : \E k \in gone : k[2] = i}
      BY <2>1
    <2>6. clash.hit \subseteq clash'.hit /\ Deleted \ clash'.hit \subseteq worker.doomed \ clash.open
      BY <2>4, <2>5
    <2> HIDE DEF Deleted
    <2>7. Kept'
      <3>1. \A c \in Clients : request[c].step \in {"render", "pdf", "meta"} =>
                request[c].id \in Ids /\ Storing(request[c].id)
        BY DEF Typed, ServerTyped, RequestsTyped, RequestOK, Storing
      <3>2. ASSUME NEW c \in Clients, request[c].id \notin clash'.hit,
                   request[c].step \in {"render", "pdf", "meta"}
            PROVE  request[c].id \in Ids \ Deleted /\ request[c].id \notin clash.hit
        BY <2>6, <3>1, <3>2 DEF Served, DoomedIsDue
      <3> QED BY <1>0, <2>3, <3>2 DEF Served, Kept
    <2>8. ServableUntilDue'
      <3> SUFFICES ASSUME NEW id \in Ids \ clash'.hit, meta'[id] # NoMeta, ~IsDue(meta'[id].expiry, day)
                   PROVE  id \in data' /\ (meta'[id].ok => id \in pdf')
        BY <1>0 DEF ServableUntilDue
      <3>1. meta'[id] = meta[id]
        BY <2>1
      <3>2. id \notin Deleted
        BY <1>0, <2>6, <3>1, DoomedMetaIsDue DEF Served
      <3> QED BY <2>3, <2>6, <3>1, <3>2 DEF Served, ServableUntilDue
    <2> QED BY <1>3, <2>2, <2>7, <2>8 DEF Served
  <1> QED BY <1>4, <1>5, <1>6, <1>7 DEF Maintain, Digest

\* No step takes an output away before it is due.
LEMMA ServedStep ==
    ASSUME Typed, Served, [Next]_vars
    PROVE  Served'
  <1>0. ServerTyped /\ day \in Nat /\ NoRequest.step = "none"
    BY DEF Typed, NoRequest
  <1>1. ASSUME NEW f \in Flushers, Flush(f)
        PROVE  Served'
    <2>1. UNCHANGED <<data, pdf, meta, worker, clash, day>>
      BY <1>1 DEF Flush, Drain, PutRaw, PutIndex, artifacts
    <2>2. \A c \in Clients : request'[c] \in {NoRequest, request[c]}
      <3>1. CASE Drain(f)
        BY <3>1 DEF Drain
      <3>2. CASE PutRaw(f) \/ PutIndex(f)
        <4>1. (\E fl \in FlightType : Written(f, fl)) \/ Restage(f)
          BY <1>0, <3>2, FlightShrinks DEF PutRaw, PutIndex
        <4> QED BY <1>0, <4>1, WrittenFacts, RestageFacts, ReturnedFacts
      <3> QED BY <1>1, <3>1, <3>2 DEF Flush
    <2> QED BY <1>0, <2>1, <2>2, ServedUntouched DEF RequestsGoOn
  <1>2. CASE Exit \/ Crash \/ Restart
    <2>1. Gone("up") \/ Gone("down")
      BY <1>2 DEF Exit, Crash, Restart
    <2>2. UNCHANGED <<data, pdf, meta, worker, clash, day>>
      BY <1>2 DEF Exit, Crash, Restart, artifacts
    <2> QED BY <1>0, <2>1, <2>2, ServedUntouched DEF RequestsGoOn, Gone
  <1>3. ASSUME NEW c \in Clients, Cancel(c)
        PROVE  Served'
    <2>1. UNCHANGED <<data, pdf, meta, worker, clash, day>> /\ Others(c) /\ request'[c] = NoRequest
      BY <1>0, <1>3, CancelFacts DEF Cancel, artifacts
    <2> QED BY <1>0, <2>1, ServedUntouched DEF RequestsGoOn, Others
  <1>4. CASE SignalStop \/ Midnight \/ UNCHANGED vars
    <2>1. UNCHANGED <<data, pdf, meta, worker, clash, request>> /\ day' \in Nat /\ day' >= day
      BY <1>0, <1>4 DEF SignalStop, Midnight, vars, artifacts, server
    <2> QED BY <1>0, <2>1, ServedUntouched DEF RequestsGoOn
  <1>5. CASE WorkerCrash
    <2>1. UNCHANGED <<data, pdf, meta, clash, request, day>> /\ worker'.doomed = {}
      BY <1>5 DEF WorkerCrash, Does, Resting, outside, artifacts, server
    <2> QED BY <2>1 DEF Served, Kept, DoomedIsDue, ServableUntilDue
  <1> QED BY <1>1, <1>2, <1>3, <1>4, <1>5, ServedByAsk, ServedByRequest, ServedByMaintain
          DEF Next, Environment

-----------------------------------------------------------------------------
\* The invariant holds at first.
LEMMA InitInv == Init => RenderInv
  <1> SUFFICES ASSUME Init PROVE RenderInv
    OBVIOUS
  <1>1. Typed
    BY InitTyped
  <1>2. \A f \in Flushers : flight[f] = NoFlight
    BY DEF Init
  <1>3. \A c \in Clients : request[c].step = "none"
    BY DEF Init, NoRequest
  <1>4. QuietAtStop /\ FlushesOwned /\ DownIsEmpty
    BY <1>2, <1>3, TasksDiffer DEF Init, QuietAtStop, FlushesOwned, DownIsEmpty, Flushers
  <1>5. Covered
    BY DEF Init, Covered, NoMeta
  <1>6. Served
    BY <1>3 DEF Init, Served, Kept, DoomedIsDue, ServableUntilDue, Resting
  <1> QED BY <1>1, <1>4, <1>5, <1>6 DEF RenderInv

\* The invariant holds always, whatever fails and however steps interleave.
THEOREM RenderInvHolds == Spec => []RenderInv
  <1>1. RenderInv /\ [Next]_vars => RenderInv'
    BY TypedStep, QuietStep, OwnedStep, DownStep, CoveredStep, ServedStep DEF RenderInv
  <1> QED BY <1>1, InitInv, PTL DEF Spec

\* An output that is not due has its input and, for a success, its PDF, however
\* renewals, failures and the steps of prune interleave. It is not claimed of an
\* id of which prune deleted something while it was in clash.open: of those the
\* code does lose outputs (RendersClash.cfg).
THEOREM NothingPrunedEarly == Spec => []ServableUntilDue
  <1>1. RenderInv => ServableUntilDue
    BY DEF RenderInv, Served
  <1> QED BY <1>1, RenderInvHolds, PTL

\* Prune deletes a meta.json that is not due only of an id that was being rendered
\* after prune's look at it, in the same pass: nothing else makes it delete early,
\* whatever index files of earlier dates name the id.
THEOREM OnlyClashesPruneEarly == Spec => UndueIsKept
  <1> DEFINE Kept1 == \A id \in Ids \ clash.open :
                 (meta[id] # NoMeta /\ ~IsDue(meta[id].expiry, day)) => meta'[id] # NoMeta
  <1>1. RenderInv /\ [Next]_vars => [Kept1]_vars
    <2> SUFFICES ASSUME RenderInv, [Next]_vars, NEW id \in Ids \ clash.open,
                        meta[id] # NoMeta, ~IsDue(meta[id].expiry, day)
                 PROVE  meta'[id] # NoMeta
      OBVIOUS
    <2>0. /\ Typed /\ StoreTyped /\ ServerTyped /\ WorkerTyped /\ day \in Nat /\ DoomedIsDue
      BY DEF RenderInv, Typed, Served
    <2>1. CASE UNCHANGED meta
      BY <2>1
    <2>2. ASSUME NEW c \in Clients, PutMeta(c)
          PROVE  meta'[id] # NoMeta
      <3> DEFINE rec == Record(c)
      <3>1. rec.expiry \in Nat
        BY <2>0, <2>2, RecordTyped DEF PutMeta, At, ServerTyped, RequestsTyped, RecordType
      <3>2. \/ meta'[id] = meta[id]
            \/ meta'[id] = [ok |-> rec.ok, expiry |-> rec.expiry]
        BY <2>0, <2>2 DEF PutMeta, StoreTyped
      <3>3. [ok |-> rec.ok, expiry |-> rec.expiry] # NoMeta
        BY <3>1 DEF NoMeta
      <3> QED BY <3>2, <3>3
    <2>3. CASE DropArtifacts
      <3>1. worker.doomed \subseteq Ids /\ id \notin worker.doomed
        BY <2>0, DoomedMetaIsDue DEF WorkerTyped, WorkerType
      <3>2. PICK gone \in SUBSET ({"meta", "pdf", "data"} \X worker.doomed) :
                meta' = [i \in Ids |-> IF <<"meta", i>> \in gone THEN NoMeta ELSE meta[i]]
        BY <2>0, <2>3, MaintainFrame, DropArtifactsFacts DEF MaintainsOnly, server, Maintain
      <3>3. <<"meta", id>> \notin gone
        BY <3>1
      <3> QED BY <3>2, <3>3
    <2> QED BY <2>1, <2>2, <2>3 DEF Next, Request, Flush, Maintain, Environment, vars, artifacts,
            Ask, PutData, Render, PutPdf, Stage, NothingToFlush, Drain, PutRaw, PutIndex,
            Aggregate, PutSummary, ListExpiry, ReadExpiry, CheckMeta, DropIndex, ListRaw, DropRaw,
            SignalStop, Exit, Crash, Restart, WorkerCrash, Midnight, Cancel
  <1> QED BY <1>1, RenderInvHolds, PTL DEF Spec, UndueIsKept

\* An output that expires has an index entry, or a record on its way to one:
\* what only the index can prune is pruned, unless a crash, a dropped handler,
\* the cap or a half failed meta.json lost the record.
THEOREM NothingKeptForever == Spec => []ExpiringIsIndexed
  <1>1. RenderInv => ExpiringIsIndexed
    <2> SUFFICES ASSUME RenderInv, NEW id \in Ids \ (lost \cup cut), meta[id].expiry > 0
                 PROVE  LET e == meta[id].expiry
                            Brings(r) == r.id = id /\ r.expiry = e
                        IN  \/ \E f \in index : f.date = e /\ id \in f.ids
                            \/ \E r \in {buffer[i] : i \in DOMAIN buffer} : Brings(r)
                            \/ \E f \in Flushers : \E r \in Recs(f) : Brings(r)
                            \/ \E c \in Clients : At(c, "stage") /\ Brings(Record(c))
      BY DEF ExpiringIsIndexed
    <2>1. meta[id].expiry \in Nat \ {0}
      BY DEF RenderInv, Typed, StoreTyped, NoMeta
    <2>2. PICK e \in Nat \ {0} : e = meta[id].expiry
      BY <2>1
    <2>3. Announced(id, e) \/ Indexed(id, e)
      BY <2>2 DEF RenderInv, Covered, Forgiven, StillIndexed, Indexed
    <2>4. CASE Indexed(id, e)
      BY <2>2, <2>4 DEF Indexed
    <2>5. CASE Announced(id, e)
      BY <2>2, <2>5 DEF Announced, Staged, Record
    <2> QED BY <2>3, <2>4, <2>5
  <1> QED BY <1>1, RenderInvHolds, PTL
=============================================================================
