------------------------ MODULE TemplateStoreProofs ------------------------
(***************************************************************************)
(* Proofs of the safety properties of TemplateStore, for any number of       *)
(* clients, instances, names, versions, manifests, calls and failures.       *)
(*                                                                          *)
(* A plan stays in order (Planned), so a call is only ever at a step of its  *)
(* kind and holds what the step needs (CallOK); with the types of the store  *)
(* this is Typed.  On top of it:                                             *)
(*   - Sparing: a delete in flight has learned of every tag there is, since   *)
(*     other deletes only take tags away, and a publish has stored what its   *)
(*     tag will need.  CollectionSparesTagged and LoadFailsOnlyWhenGone        *)
(*     follow.                                                               *)
(*   - Owning: whoever has a tag to itself finds in storage what it wrote, and *)
(*     once the tag is settled at an instance no call is about to write it or   *)
(*     to cache anything else of it there.  OwnWriteIsSeen follows.            *)
(*   - Listing: a listing has every steady name found, listed or in hand.     *)
(*   - Minded: a manifest without a tag is in the hands of a call that will   *)
(*     tag or collect it.  The same does not hold of blobs: BlobsAreCollected *)
(*     is false for three deletes at once (TemplateLeak.cfg).                  *)
(***************************************************************************)
EXTENDS TemplateStore, LeastNumber, SequenceTheorems

\* The steps of each kind of call, and what follows each of them.
StepsOf(kind) ==
    CASE kind = "publish"  -> {"put files", "put manifest", "put ref", "cache ref"}
      [] kind = "delete"   -> {"find ref", "drop ref", "forget ref", "list refs", "read refs",
                               "read orphan", "read live", "drop blobs", "drop manifest"}
      [] kind = "render"   -> {"resolve", "fill", "manifest", "entry", "hydrate"}
      [] kind = "source"   -> {"resolve", "fill", "manifest", "entry"}
      [] kind = "metadata" -> {"resolve", "fill", "scan", "info", "describe", "manifest"}
      [] kind = "list"     -> {"scan", "info", "describe"}

After(step) ==
    CASE step = "put files"    -> {"put manifest"}
      [] step = "put manifest" -> {"put ref"}
      [] step = "put ref"      -> {"cache ref"}
      [] step = "find ref"     -> {"drop ref"}
      [] step = "drop ref"     -> {"forget ref"}
      [] step = "forget ref"   -> {"list refs"}
      [] step = "list refs"    -> {"read refs"}
      [] step = "read refs"    -> {"read orphan"}
      [] step = "read orphan"  -> {"read live"}
      [] step = "read live"    -> {"drop blobs"}
      [] step = "drop blobs"   -> {"drop manifest"}
      [] step = "resolve"      -> {"manifest", "scan"}
      [] step = "fill"         -> {"manifest", "scan"}
      [] step = "manifest"     -> {"entry"}
      [] step = "entry"        -> {"hydrate"}
      [] step = "scan"         -> {"info"}
      [] step = "info"         -> {"resolve"}
      [] step = "describe"     -> {"info"}
      [] OTHER                 -> {}

\* The steps a call may end with.
Final == {"cache ref", "drop manifest", "hydrate", "entry", "manifest", "info"}

\* What is left of a plan is in order, down to a last step.
Planned(kind, p) ==
    /\ p \in Seq(Steps)
    /\ \A i \in 1..Len(p) :
          /\ p[i] \in StepsOf(kind)
          /\ IF i = Len(p) THEN p[i] \in Final ELSE p[i + 1] \in After(p[i])

\* The steps before which a call does not know its manifest.
Unresolved == {"find ref", "resolve", "scan", "info"}

CallOK(r) ==
    /\ r \in CallType
    /\ Planned(r.kind, r.plan)
    /\ IF r.kind = "delete" THEN r.live \subseteq Manifests ELSE r.live \subseteq Names
    /\ r.plan # <<>> =>
          /\ r.at \in Instances /\ r.tag \in Tags /\ r.end = "none"
          /\ Head(r.plan) \notin Unresolved => r.m \in Manifests
          /\ Head(r.plan) \in {"put files", "entry", "hydrate"} => r.files \subseteq FilesOf[r.m]

StoreTyped ==
    /\ refs \in [Tags -> Manifests \cup {None}]
    /\ manifests \subseteq Manifests /\ blobs \subseteq Files
    /\ refCache \in [Instances -> [Tags -> Manifests \cup {None}]]
    /\ objects \in [Instances -> SUBSET (Manifests \cup Files)]
    /\ left \in 0..MaxCalls /\ faults \in 0..MaxFaults
    /\ raced \in BOOLEAN /\ blind \in BOOLEAN /\ replaced \subseteq Manifests
    /\ settled \in [Tags -> Instances \cup Clients \cup {None}]

CallsTyped ==
    /\ call \in [Clients -> CallType]
    /\ \A c \in Clients : CallOK(call[c])

Typed == StoreTyped /\ CallsTyped

-----------------------------------------------------------------------------
(* Plans                                                                     *)

\* The head of a plan that is left is its first step.
LEMMA HeadIsFirst ==
    ASSUME NEW p \in Seq(Steps), p # <<>>
    PROVE  Head(p) = p[1] /\ Len(p) \in Nat \ {0} /\ Head(p) \in Steps
  BY EmptySeq, HeadTailProperties

\* Taking the next step leaves a plan in order, and it is the last one exactly if
\* the plan may end there.
LEMMA PlannedTail ==
    ASSUME NEW kind \in Kinds, NEW p, Planned(kind, p), p # <<>>
    PROVE  /\ Head(p) \in StepsOf(kind) /\ Planned(kind, Tail(p))
           /\ Len(p) = 1 => Head(p) \in Final
           /\ Len(p) # 1 => Tail(p) # <<>> /\ Head(Tail(p)) \in After(Head(p))
  <1>1. /\ p \in Seq(Steps) /\ Head(p) = p[1] /\ Len(p) \in Nat \ {0}
        /\ Tail(p) \in Seq(Steps) /\ Len(Tail(p)) = Len(p) - 1
        /\ \A i \in 1..Len(Tail(p)) : Tail(p)[i] = p[i + 1]
    BY HeadIsFirst, HeadTailProperties DEF Planned
  <1>2. Planned(kind, Tail(p))
    <2>1. ASSUME NEW i \in 1..Len(Tail(p))
          PROVE  /\ Tail(p)[i] \in StepsOf(kind)
                 /\ IF i = Len(Tail(p)) THEN Tail(p)[i] \in Final
                    ELSE Tail(p)[i + 1] \in After(Tail(p)[i])
      <3>1. i + 1 \in 1..Len(p) /\ (i + 1 = Len(p) <=> i = Len(Tail(p)))
        BY <1>1
      <3>2. p[i + 1] \in StepsOf(kind)
            /\ IF i + 1 = Len(p) THEN p[i + 1] \in Final ELSE p[(i + 1) + 1] \in After(p[i + 1])
        BY <3>1 DEF Planned
      <3>3. Tail(p)[i] = p[i + 1]
        BY <1>1
      <3>4. i # Len(Tail(p)) => Tail(p)[i + 1] = p[(i + 1) + 1]
        <4>1. Len(Tail(p)) \in Nat
          BY <1>1
        <4>2. i # Len(Tail(p)) => i + 1 \in 1..Len(Tail(p))
          BY <4>1
        <4> QED BY <1>1, <4>2
      <3> QED BY <3>1, <3>2, <3>3, <3>4
    <2> QED BY <1>1, <2>1 DEF Planned
  <1>3. Len(p) # 1 => Tail(p) # <<>> /\ Head(Tail(p)) = p[1 + 1]
    <2>1. ASSUME Len(p) # 1
          PROVE  1 \in 1..Len(Tail(p)) /\ Len(Tail(p)) # 0
      BY <1>1, <2>1
    <2>2. Len(p) # 1 => Tail(p) # <<>>
      BY <1>1, <2>1, EmptySeq
    <2>3. Len(p) # 1 => Head(Tail(p)) = Tail(p)[1]
      BY <1>1, <2>2, HeadIsFirst
    <2> QED BY <1>1, <2>1, <2>2, <2>3
  <1>4. /\ p[1] \in StepsOf(kind)
        /\ IF 1 = Len(p) THEN p[1] \in Final ELSE p[1 + 1] \in After(p[1])
    <2>1. 1 \in 1..Len(p)
      BY <1>1
    <2> QED BY <2>1 DEF Planned
  <1> QED BY <1>1, <1>2, <1>3, <1>4

\* A plan stays in order under a step put in front that leads to its head: fill
\* before the load, describe before the next info.
LEMMA PlannedPrefix ==
    ASSUME NEW kind \in Kinds, NEW p, Planned(kind, p), p # <<>>, NEW step \in Steps,
           step \in StepsOf(kind), Head(p) \in After(step)
    PROVE  /\ Planned(kind, <<step>> \o p) /\ <<step>> \o p # <<>>
           /\ Head(<<step>> \o p) = step
  <1> DEFINE q == <<step>> \o p
  <1>1. p \in Seq(Steps) /\ Head(p) = p[1] /\ Len(p) \in Nat \ {0}
    BY HeadIsFirst DEF Planned
  <1>2. <<step>> \in Seq(Steps) /\ Len(<<step>>) = 1 /\ <<step>>[1] = step
    OBVIOUS
  <1>3. /\ q \in Seq(Steps) /\ Len(q) = 1 + Len(p)
        /\ \A i \in 1..1 + Len(p) : q[i] = IF i <= 1 THEN step ELSE p[i - 1]
    <2>1. /\ q \in Seq(Steps) /\ Len(q) = Len(<<step>>) + Len(p)
          /\ \A i \in 1..Len(<<step>>) + Len(p) :
                q[i] = IF i <= Len(<<step>>) THEN <<step>>[i] ELSE p[i - Len(<<step>>)]
      BY <1>1, <1>2, ConcatProperties
    <2> HIDE DEF q
    <2>2. \A i \in 1..1 + Len(p) : i <= 1 => i = 1
      BY <1>1
    <2> QED BY <1>1, <1>2, <2>1, <2>2
  <1> HIDE DEF q
  <1>4. q[1] = step /\ \A i \in 1..Len(p) : q[i + 1] = p[i]
    <2>1. q[1] = step
      BY <1>1, <1>3
    <2>2. ASSUME NEW i \in 1..Len(p)
          PROVE  q[i + 1] = p[i]
      <3>1. i + 1 \in 1..1 + Len(p) /\ ~(i + 1 <= 1) /\ (i + 1) - 1 = i
        BY <1>1
      <3> QED BY <1>3, <3>1
    <2> QED BY <2>1, <2>2
  <1>5. q # <<>> /\ Head(q) = step
    BY <1>1, <1>3, <1>4, EmptySeq, HeadIsFirst
  <1>6. ASSUME NEW i \in 1..Len(q)
        PROVE  q[i] \in StepsOf(kind) /\ IF i = Len(q) THEN q[i] \in Final ELSE q[i + 1] \in After(q[i])
    <2>1. CASE i = 1
      BY <1>1, <1>3, <1>4, <2>1
    <2>2. CASE i # 1
      <3>1. PICK k \in 1..Len(p) : i = k + 1
        <4>1. i - 1 \in 1..Len(p) /\ i = (i - 1) + 1
          BY <1>1, <1>3, <2>2
        <4> QED BY <4>1
      <3>2. q[i] = p[k] /\ (i = Len(q) <=> k = Len(p))
        BY <1>1, <1>3, <1>4, <3>1
      <3>3. k # Len(p) => k + 1 \in 1..Len(p) /\ q[i + 1] = p[k + 1]
        BY <1>1, <1>4, <3>1
      <3> QED BY <3>1, <3>2, <3>3 DEF Planned
    <2> QED BY <2>1, <2>2
  <1>7. Planned(kind, q)
    BY <1>3, <1>6 DEF Planned
  <1> QED BY <1>5, <1>7 DEF q

\* What every kind of call sets out to do is in order.
LEMMA PlanPlanned ==
    ASSUME NEW kind \in Kinds
    PROVE  Planned(kind, Plan(kind)) /\ Plan(kind) # <<>>
  <1> DEFINE InOrder(p, i) ==
        p[i] \in StepsOf(kind) /\ IF i = Len(p) THEN p[i] \in Final ELSE p[i + 1] \in After(p[i])
  <1>1. CASE kind = "publish"
    <2> DEFINE p == <<"put files", "put manifest", "put ref", "cache ref">>
    <2>1. p \in Seq(Steps) /\ Len(p) = 4 /\ p # <<>> /\ Plan(kind) = p
      <3>1. Plan(kind) = p
        BY <1>1 DEF Plan
      <3>2. p \in Seq(Steps)
        BY DEF Steps
      <3>3. Len(p) = 4 /\ p # <<>>
        OBVIOUS
      <3> QED BY <3>1, <3>2, <3>3
    <2>2. InOrder(p, 1) /\ InOrder(p, 2) /\ InOrder(p, 3) /\ InOrder(p, 4)
      BY <1>1 DEF StepsOf, Final, After
    <2> HIDE DEF p
    <2>3. \A i \in 1..Len(p) : InOrder(p, i)
      <3> HIDE DEF InOrder
      <3> QED BY <2>1, <2>2
    <2> QED BY <2>1, <2>3 DEF Planned
  <1>2. CASE kind = "delete"
    <2> DEFINE p == <<"find ref", "drop ref", "forget ref", "list refs", "read refs",
                      "read orphan", "read live", "drop blobs", "drop manifest">>
    <2>1. p \in Seq(Steps) /\ Len(p) = 9 /\ p # <<>> /\ Plan(kind) = p
      <3>1. Plan(kind) = p
        BY <1>2 DEF Plan
      <3>2. p \in Seq(Steps)
        BY DEF Steps
      <3>3. Len(p) = 9 /\ p # <<>>
        OBVIOUS
      <3> QED BY <3>1, <3>2, <3>3
    <2>2. InOrder(p, 1) /\ InOrder(p, 2) /\ InOrder(p, 3) /\ InOrder(p, 4) /\ InOrder(p, 5)
          /\ InOrder(p, 6) /\ InOrder(p, 7) /\ InOrder(p, 8) /\ InOrder(p, 9)
      BY <1>2 DEF StepsOf, Final, After
    <2> HIDE DEF p
    <2>3. \A i \in 1..Len(p) : InOrder(p, i)
      <3> HIDE DEF InOrder
      <3> QED BY <2>1, <2>2
    <2> QED BY <2>1, <2>3 DEF Planned
  <1>3. CASE kind = "render"
    <2> DEFINE p == <<"resolve", "manifest", "entry", "hydrate">>
    <2>1. p \in Seq(Steps) /\ Len(p) = 4 /\ p # <<>> /\ Plan(kind) = p
      <3>1. Plan(kind) = p
        BY <1>3 DEF Plan
      <3>2. p \in Seq(Steps)
        BY DEF Steps
      <3>3. Len(p) = 4 /\ p # <<>>
        OBVIOUS
      <3> QED BY <3>1, <3>2, <3>3
    <2>2. InOrder(p, 1) /\ InOrder(p, 2) /\ InOrder(p, 3) /\ InOrder(p, 4)
      BY <1>3 DEF StepsOf, Final, After
    <2> HIDE DEF p
    <2>3. \A i \in 1..Len(p) : InOrder(p, i)
      <3> HIDE DEF InOrder
      <3> QED BY <2>1, <2>2
    <2> QED BY <2>1, <2>3 DEF Planned
  <1>4. CASE kind = "source"
    <2> DEFINE p == <<"resolve", "manifest", "entry">>
    <2>1. p \in Seq(Steps) /\ Len(p) = 3 /\ p # <<>> /\ Plan(kind) = p
      <3>1. Plan(kind) = p
        BY <1>4 DEF Plan
      <3>2. p \in Seq(Steps)
        BY DEF Steps
      <3>3. Len(p) = 3 /\ p # <<>>
        OBVIOUS
      <3> QED BY <3>1, <3>2, <3>3
    <2>2. InOrder(p, 1) /\ InOrder(p, 2) /\ InOrder(p, 3)
      BY <1>4 DEF StepsOf, Final, After
    <2> HIDE DEF p
    <2>3. \A i \in 1..Len(p) : InOrder(p, i)
      <3> HIDE DEF InOrder
      <3> QED BY <2>1, <2>2
    <2> QED BY <2>1, <2>3 DEF Planned
  <1>5. CASE kind = "metadata"
    <2> DEFINE p == <<"resolve", "scan", "info", "resolve", "manifest">>
    <2>1. p \in Seq(Steps) /\ Len(p) = 5 /\ p # <<>> /\ Plan(kind) = p
      <3>1. Plan(kind) = p
        BY <1>5 DEF Plan
      <3>2. p \in Seq(Steps)
        BY DEF Steps
      <3>3. Len(p) = 5 /\ p # <<>>
        OBVIOUS
      <3> QED BY <3>1, <3>2, <3>3
    <2>2. InOrder(p, 1) /\ InOrder(p, 2) /\ InOrder(p, 3) /\ InOrder(p, 4) /\ InOrder(p, 5)
      BY <1>5 DEF StepsOf, Final, After
    <2> HIDE DEF p
    <2>3. \A i \in 1..Len(p) : InOrder(p, i)
      <3> HIDE DEF InOrder
      <3> QED BY <2>1, <2>2
    <2> QED BY <2>1, <2>3 DEF Planned
  <1>6. CASE kind = "list"
    <2> DEFINE p == <<"scan", "info">>
    <2>1. p \in Seq(Steps) /\ Len(p) = 2 /\ p # <<>> /\ Plan(kind) = p
      <3>1. Plan(kind) = p
        BY <1>6 DEF Plan
      <3>2. p \in Seq(Steps)
        BY DEF Steps
      <3>3. Len(p) = 2 /\ p # <<>>
        OBVIOUS
      <3> QED BY <3>1, <3>2, <3>3
    <2>2. InOrder(p, 1) /\ InOrder(p, 2)
      BY <1>6 DEF StepsOf, Final, After
    <2> HIDE DEF p
    <2>3. \A i \in 1..Len(p) : InOrder(p, i)
      <3> HIDE DEF InOrder
      <3> QED BY <2>1, <2>2
    <2> QED BY <2>1, <2>3 DEF Planned
  <1> QED BY <1>1, <1>2, <1>3, <1>4, <1>5, <1>6 DEF Kinds

-----------------------------------------------------------------------------
(* The steps of a call                                                       *)

\* A call that has all it needs for what follows its next step.
Ready(r) ==
    /\ r \in CallType /\ Planned(r.kind, r.plan) /\ r.plan # <<>>
    /\ IF r.kind = "delete" THEN r.live \subseteq Manifests ELSE r.live \subseteq Names
    /\ r.at \in Instances /\ r.tag \in Tags /\ r.end = "none"
    /\ \A step \in After(Head(r.plan)) :
          /\ step \notin Unresolved => r.m \in Manifests
          /\ step \in {"put files", "entry", "hydrate"} => r.files \subseteq FilesOf[r.m]

\* A call that ends keeps its kind and is well formed, whatever the outcome.
LEMMA EndedOK ==
    ASSUME NEW r \in CallType, NEW how \in {"ok", "error", "kept"}
    PROVE  CallOK(Ended(r, how)) /\ Ended(r, how).plan = <<>> /\ Ended(r, how).end = how
           /\ Ended(r, how).kind = r.kind
  <1>1. Planned(r.kind, <<>>)
    BY DEF Planned
  <1>2. Idle \in CallType
    BY DEF Idle, CallType, Kinds
  <1>3. Ended(r, how) \in CallType /\ Ended(r, how).plan = <<>> /\ Ended(r, how).kind = r.kind
        /\ Ended(r, how).live = {} /\ Ended(r, how).end = how
    BY <1>2 DEF Ended, Idle, CallType
  <1> QED BY <1>1, <1>3 DEF CallOK

\* A call that is ready for its next step is well formed once it has taken it.
LEMMA NextOK ==
    ASSUME NEW r, Ready(r), Len(r.plan) # 1
    PROVE  LET q == [r EXCEPT !.plan = Tail(@)] IN
           CallOK(q) /\ q.plan # <<>> /\ Head(q.plan) \in After(Head(r.plan))
  <1> DEFINE q == [r EXCEPT !.plan = Tail(@)]
  <1>1. r.kind \in Kinds /\ r \in CallType
    BY DEF Ready, CallType
  <1>2. /\ Planned(r.kind, Tail(r.plan)) /\ Tail(r.plan) # <<>>
        /\ Head(Tail(r.plan)) \in After(Head(r.plan))
    BY <1>1, PlannedTail DEF Ready
  <1>3. Tail(r.plan) \in Seq(Steps)
    BY <1>2 DEF Planned
  <1>4. /\ q \in CallType /\ q.kind = r.kind /\ q.plan = Tail(r.plan) /\ q.live = r.live
        /\ q.at = r.at /\ q.tag = r.tag /\ q.end = r.end /\ q.m = r.m /\ q.files = r.files
    BY <1>1, <1>3 DEF CallType
  <1> HIDE DEF q
  <1>5. CallOK(q)
    BY <1>2, <1>4 DEF CallOK, Ready
  <1> QED BY <1>2, <1>4, <1>5 DEF q

\* A step of one call leaves the others alone; a write of a tag may take the
\* tag's name from what they saw steady.
Same(q, r) ==
    /\ q.kind = r.kind /\ q.plan = r.plan /\ q.end = r.end /\ q.at = r.at /\ q.tag = r.tag
    /\ q.m = r.m /\ q.pin = r.pin /\ q.tags = r.tags /\ q.live = r.live /\ q.files = r.files
    /\ q.keep = r.keep /\ q.found = r.found /\ q.steady \subseteq r.steady

Moved(c) ==
    /\ call'[c].kind = call[c].kind
    /\ \A d \in Clients \ {c} : Same(call'[d], call[d])

\* A call that stores a well-formed record leaves all calls well formed and
\* touches no other.
LEMMA StaysPut ==
    ASSUME CallsTyped, NEW c \in Clients, NEW r, CallOK(r), Stays(c, r)
    PROVE  CallsTyped' /\ call'[c] = r /\ \A d \in Clients \ {c} : Same(call'[d], call[d])
  <1>1. r \in CallType
    BY DEF CallOK
  <1>2. call' \in [Clients -> CallType] /\ \A d \in Clients : call'[d] = IF d = c THEN r ELSE call[d]
    BY <1>1 DEF CallsTyped, Stays
  <1>3. \A d \in Clients : CallOK(call'[d])
    BY <1>2 DEF CallsTyped
  <1>4. \A d \in Clients \ {c} : Same(call'[d], call[d])
    BY <1>2 DEF Same
  <1> QED BY <1>2, <1>3, <1>4 DEF CallsTyped, CallOK

\* The same for a call that keeps its kind.
LEMMA StaysTyped ==
    ASSUME CallsTyped, NEW c \in Clients, NEW r, CallOK(r), r.kind = call[c].kind, Stays(c, r)
    PROVE  CallsTyped' /\ Moved(c)
  BY StaysPut DEF Moved

\* The same for a call that ends.
LEMMA EndsTyped ==
    ASSUME CallsTyped, NEW c \in Clients, NEW how \in {"ok", "error", "kept"}, Ends(c, how)
    PROVE  CallsTyped' /\ Moved(c)
  <1>1. call[c] \in CallType
    BY DEF CallsTyped
  <1> QED BY <1>1, EndedOK, StaysTyped DEF Ends

\* The same for a call that goes on to its next step or ends with its last.
LEMMA GoesTyped ==
    ASSUME CallsTyped, NEW c \in Clients, NEW r, Ready(r), r.kind = call[c].kind, Goes(c, r)
    PROVE  CallsTyped' /\ Moved(c)
  <1>1. r \in CallType
    BY DEF Ready
  <1>2. CASE Len(r.plan) = 1
    BY <1>1, <1>2, EndedOK, StaysTyped DEF Goes
  <1>3. CASE Len(r.plan) # 1
    <2>1. [r EXCEPT !.plan = Tail(@)].kind = r.kind
      BY <1>1 DEF CallType
    <2> QED BY <1>3, <2>1, NextOK, StaysTyped DEF Goes
  <1> QED BY <1>2, <1>3

\* What a call at a step is known to hold.
LEMMA AtFacts ==
    ASSUME CallsTyped, NEW c \in Clients, NEW step, At(c, step)
    PROVE  /\ call[c] \in CallType /\ CallOK(call[c]) /\ call[c].plan # <<>>
           /\ Planned(call[c].kind, call[c].plan)
           /\ Head(call[c].plan) = step /\ step \in StepsOf(call[c].kind) /\ step \in Steps
           /\ call[c].kind \in Kinds /\ call[c].end = "none"
           /\ Host(c) \in Instances /\ call[c].tag \in Tags
           /\ step \notin Unresolved => call[c].m \in Manifests
           /\ step \in {"put files", "entry", "hydrate"} => call[c].files \subseteq FilesOf[call[c].m]
           /\ IF call[c].kind = "delete" THEN call[c].live \subseteq Manifests
              ELSE call[c].live \subseteq Names
  <1>1. call[c] \in CallType /\ CallOK(call[c]) /\ call[c].plan # <<>> /\ Head(call[c].plan) = step
    BY DEF CallsTyped, At
  <1>2. call[c].kind \in Kinds
    BY <1>1 DEF CallType
  <1>3. Planned(call[c].kind, call[c].plan)
    BY <1>1 DEF CallOK
  <1>4. step \in StepsOf(call[c].kind)
    BY <1>1, <1>2, <1>3, PlannedTail
  <1>5. step \in Steps
    BY <1>1, <1>3, HeadIsFirst DEF Planned
  <1> QED BY <1>1, <1>2, <1>3, <1>4, <1>5 DEF CallOK, Host

\* The kind of call a step belongs to.
LEMMA KindOfStep ==
    ASSUME NEW kind \in Kinds, NEW step \in StepsOf(kind)
    PROVE  /\ step \in {"put files", "put manifest", "put ref", "cache ref"} => kind = "publish"
           /\ step \in {"find ref", "drop ref", "forget ref", "list refs", "read refs", "read orphan",
                        "read live", "drop blobs", "drop manifest"} => kind = "delete"
           /\ step \in {"resolve", "fill", "manifest", "entry", "hydrate", "scan", "info", "describe"}
                => kind \notin {"publish", "delete"}
  BY DEF Kinds, StepsOf

\* At the steps that learn nothing a call has already all that the next step
\* needs.
LEMMA StillReady ==
    ASSUME CallsTyped, NEW c \in Clients, NEW step, At(c, step),
           step \notin {"find ref", "resolve", "manifest"}
    PROVE  /\ Ready(call[c]) /\ call[c] \in CallType /\ call[c].tag \in Tags /\ Host(c) \in Instances
  <1>1. step \in Steps
    BY AtFacts
  <1>2. ASSUME NEW next \in After(step)
        PROVE  /\ next \notin Unresolved => step \notin Unresolved
               /\ next \in {"put files", "entry", "hydrate"} => step = "entry"
    BY <1>1, <1>2 DEF After, Steps, Unresolved
  <1>3. ASSUME NEW next \in After(step)
        PROVE  /\ next \notin Unresolved => call[c].m \in Manifests
               /\ next \in {"put files", "entry", "hydrate"} => call[c].files \subseteq FilesOf[call[c].m]
    BY <1>2, AtFacts
  <1> QED BY <1>3, AtFacts DEF Ready, Host

\* Behind the steps that look its manifest up a call knows the manifest.
LEMMA Resolved ==
    ASSUME CallsTyped, NEW c \in Clients,
           NEW step \in Steps \ {"find ref", "resolve", "scan", "info"}, At(c, step)
    PROVE  /\ call[c].m \in Manifests /\ call[c] \in CallType /\ call[c].tag \in Tags
           /\ Host(c) \in Instances /\ call[c].plan # <<>> /\ call[c].end = "none"
  BY AtFacts DEF Unresolved

\* A storage call counts against the failures left if and only if it fails.
LEMMA S3Counts ==
    ASSUME faults \in 0..MaxFaults, NEW o, S3(o)
    PROVE  /\ faults' \in 0..MaxFaults /\ o \in Outcomes
           /\ faults' <= faults /\ (faults' = faults <=> o = "ok")
  BY LimitsAssumption DEF S3

\* Telling every call that a tag was written changes nothing of it but what it
\* takes for steady.
LEMMA ChangedTyped ==
    ASSUME NEW calls \in [Clients -> CallType], \A c \in Clients : CallOK(calls[c]), NEW t
    PROVE  /\ Changed(calls, t) \in [Clients -> CallType]
           /\ \A c \in Clients : CallOK(Changed(calls, t)[c]) /\ Same(Changed(calls, t)[c], calls[c])
  <1>1. ASSUME NEW c \in Clients
        PROVE  LET q == [calls[c] EXCEPT !.steady = @ \ {t[1]}] IN
               q \in CallType /\ CallOK(q) /\ Same(q, calls[c])
    <2> DEFINE q == [calls[c] EXCEPT !.steady = @ \ {t[1]}]
    <2>1. calls[c] \in CallType
      OBVIOUS
    <2>2. /\ q \in CallType /\ q.kind = calls[c].kind /\ q.plan = calls[c].plan
          /\ q.live = calls[c].live /\ q.at = calls[c].at /\ q.tag = calls[c].tag
          /\ q.end = calls[c].end /\ q.m = calls[c].m /\ q.files = calls[c].files
      BY <2>1 DEF CallType
    <2>3. Same(q, calls[c])
      BY <2>1 DEF CallType, Same
    <2> HIDE DEF q
    <2>4. CallOK(calls[c])
      OBVIOUS
    <2>5. CallOK(q)
      BY <2>2, <2>4 DEF CallOK
    <2> QED BY <2>2, <2>3, <2>5 DEF q
  <1> QED BY <1>1 DEF Changed

\* The write of a tag moves only the call that made it.
LEMMA WroteTyped ==
    ASSUME CallsTyped, NEW c \in Clients, Ready(call[c]), Len(call[c].plan) # 1, NEW o, NEW t,
           call' = Changed([call EXCEPT ![c] = Wrote(c, o)], t)
    PROVE  CallsTyped' /\ Moved(c) /\ Same(call'[c], Wrote(c, o))
  <1> DEFINE q == Wrote(c, o)
             calls == [call EXCEPT ![c] = q]
  <1>1. call[c] \in CallType
    BY DEF Ready
  <1>2. CallOK(q)
    BY <1>1, NextOK, EndedOK DEF Wrote
  <1>3. q \in CallType /\ q.kind = call[c].kind
    <2>1. q \in CallType
      BY <1>2 DEF CallOK
    <2>2. q.kind = call[c].kind
      BY <1>1, EndedOK DEF Wrote, CallType
    <2> QED BY <2>1, <2>2
  <1>4. call' = Changed(calls, t)
    OBVIOUS
  <1> HIDE DEF q
  <1>5. calls \in [Clients -> CallType] /\ \A d \in Clients : calls[d] = IF d = c THEN q ELSE call[d]
    BY <1>3 DEF CallsTyped
  <1> HIDE DEF calls
  <1>6. \A d \in Clients : CallOK(calls[d])
    BY <1>2, <1>5 DEF CallsTyped
  <1>7. /\ call' \in [Clients -> CallType]
        /\ \A d \in Clients : CallOK(call'[d]) /\ Same(call'[d], calls[d])
    BY <1>4, <1>5, <1>6, ChangedTyped
  <1>8. CallsTyped'
    BY <1>7 DEF CallsTyped, CallOK
  <1>9. Same(call'[c], q) /\ \A d \in Clients \ {c} : Same(call'[d], call[d])
    BY <1>5, <1>7
  <1>10. Moved(c)
    BY <1>3, <1>9 DEF Moved, Same
  <1> QED BY <1>8, <1>9, <1>10 DEF q

\* A new call starts at the first step of its plan with nothing learned.
LEMMA StartTyped ==
    ASSUME Typed, NEW c \in Clients, NEW kind \in Offered, NEW t \in Tags, NEW m \in Manifests,
           Start(c, kind, t, m)
    PROVE  /\ Typed' /\ \A d \in Clients \ {c} : Same(call'[d], call[d])
           /\ call'[c].kind = kind /\ call'[c].plan = Plan(kind) /\ call'[c].plan # <<>>
           /\ call'[c].end = "none" /\ call'[c].found = {} /\ call'[c].live = {}
           /\ Head(call'[c].plan) \in {"find ref", "resolve", "scan", "put files"}
           /\ kind = "publish" => call'[c].files = FilesOf[call'[c].m]
           /\ kind # "publish" => Head(call'[c].plan) # "put files"
  <1>1. kind \in Kinds
    BY LimitsAssumption
  <1>2. PICK i \in Instances : \E pin \in IF kind = "render" THEN {None, m} ELSE {None} :
          call' = [call EXCEPT ![c] =
              [Idle EXCEPT !.kind = kind, !.plan = Plan(kind), !.at = i, !.tag = t, !.pin = pin,
                           !.m = IF kind = "publish" THEN m ELSE None,
                           !.files = IF kind = "publish" THEN FilesOf[m] ELSE {},
                           !.steady = IF kind = "list" THEN Names ELSE {t[1]}]]
    BY DEF Start
  <1>3. PICK pin \in Manifests \cup {None} :
          call' = [call EXCEPT ![c] =
              [Idle EXCEPT !.kind = kind, !.plan = Plan(kind), !.at = i, !.tag = t, !.pin = pin,
                           !.m = IF kind = "publish" THEN m ELSE None,
                           !.files = IF kind = "publish" THEN FilesOf[m] ELSE {},
                           !.steady = IF kind = "list" THEN Names ELSE {t[1]}]]
    BY <1>2
  <1> DEFINE r == [Idle EXCEPT !.kind = kind, !.plan = Plan(kind), !.at = i, !.tag = t, !.pin = pin,
                           !.m = IF kind = "publish" THEN m ELSE None,
                           !.files = IF kind = "publish" THEN FilesOf[m] ELSE {},
                           !.steady = IF kind = "list" THEN Names ELSE {t[1]}]
  <1>4. /\ r.kind = kind /\ r.plan = Plan(kind) /\ r.at = i /\ r.tag = t /\ r.end = "none"
        /\ r.m = IF kind = "publish" THEN m ELSE None
        /\ r.files = IF kind = "publish" THEN FilesOf[m] ELSE {}
        /\ r.live = {} /\ r.found = {}
    BY DEF Idle
  <1>5. Planned(kind, Plan(kind)) /\ Plan(kind) # <<>> /\ Plan(kind) \in Seq(Steps)
    BY <1>1, PlanPlanned DEF Planned
  <1>6. r \in CallType
    <2>1. FilesOf[m] \subseteq Files /\ t[1] \in Names
      BY ManifestsAssumption DEF Tags
    <2> QED BY <1>1, <1>5, <2>1 DEF CallType, Idle
  <1>7. /\ kind # "publish" => Head(Plan(kind)) \in {"find ref", "resolve", "scan"}
        /\ kind = "publish" => Head(Plan(kind)) = "put files"
    <2>1. CASE kind = "delete"
      BY <2>1 DEF Plan
    <2>2. CASE kind = "render"
      BY <2>2 DEF Plan
    <2>3. CASE kind = "source"
      BY <2>3 DEF Plan
    <2>4. CASE kind = "metadata"
      BY <2>4 DEF Plan
    <2>5. CASE kind = "list"
      BY <2>5 DEF Plan
    <2>6. CASE kind = "publish"
      BY <2>6 DEF Plan
    <2> QED BY <1>1, <2>1, <2>2, <2>3, <2>4, <2>5, <2>6 DEF Kinds
  <1>8. Head(Plan(kind)) \in {"put files", "entry", "hydrate"} => kind = "publish"
    BY <1>7
  <1>9. Stays(c, r)
    BY <1>3 DEF Stays
  <1> HIDE DEF r
  <1>10. CallOK(r)
    BY <1>4, <1>5, <1>6, <1>7, <1>8 DEF CallOK, Unresolved
  <1>11. CallsTyped' /\ call'[c] = r /\ \A d \in Clients \ {c} : Same(call'[d], call[d])
    BY <1>9, <1>10, StaysPut DEF Typed
  <1>12. StoreTyped'
    <2>1. settled' \in [Tags -> Instances \cup Clients \cup {None}]
      BY DEF Start, Claims, Typed, StoreTyped
    <2> QED BY <2>1, LimitsAssumption DEF Start, Typed, StoreTyped, stored, caches
  <1>13. kind # "publish" => Head(Plan(kind)) # "put files"
    BY <1>7
  <1> QED BY <1>4, <1>5, <1>7, <1>11, <1>12, <1>13 DEF Typed

\* An entry of the ref cache that expires leaves the types.
LEMMA ExpireTyped ==
    ASSUME Typed, NEW i \in Instances, NEW t \in Tags, Expire(i, t)
    PROVE  Typed'
  <1>1. StoreTyped'
    BY DEF Expire, Typed, StoreTyped, stored, history
  <1>2. CallsTyped'
    BY DEF Expire, Typed, CallsTyped, CallOK
  <1> QED BY <1>1, <1>2 DEF Typed

\* Publishing.
LEMMA PublishingTyped ==
    ASSUME Typed, NEW c \in Clients, Publishing(c)
    PROVE  Typed' /\ Moved(c)
  <1> USE DEF Typed
  <1>1. CASE PutFile(c)
    <2>1. At(c, "put files")
      BY <1>1 DEF PutFile
    <2>2. PICK f \in NextFile(c) : \E o \in Outcomes :
          /\ S3(o)
          /\ blobs' = IF o = "lost" THEN blobs ELSE blobs \cup {f}
          /\ LET r == [call[c] EXCEPT !.files = @ \ {f}] IN
             CASE o # "ok" -> Ends(c, "error")
               [] o = "ok" /\ r.files = {} -> Goes(c, r)
               [] OTHER -> Stays(c, r)
      BY <1>1 DEF PutFile
    <2> DEFINE r == [call[c] EXCEPT !.files = @ \ {f}]
    <2>3. PICK o \in Outcomes :
          /\ S3(o)
          /\ blobs' = IF o = "lost" THEN blobs ELSE blobs \cup {f}
          /\ CASE o # "ok" -> Ends(c, "error")
               [] o = "ok" /\ r.files = {} -> Goes(c, r)
               [] OTHER -> Stays(c, r)
      BY <2>2
    <2>4. /\ r \in CallType /\ r.kind = call[c].kind /\ r.plan = call[c].plan /\ r.live = call[c].live
          /\ r.at = call[c].at /\ r.tag = call[c].tag /\ r.end = call[c].end /\ r.m = call[c].m
          /\ r.files \subseteq call[c].files
      BY <2>1, AtFacts DEF CallType
    <2> HIDE DEF r
    <2>5. Ready(call[c])
      BY <2>1, StillReady
    <2>6. CallOK(r)
      BY <2>1, <2>4, AtFacts DEF CallOK
    <2>7. Ready(r) /\ r.kind = call[c].kind
      <3>1. \A next \in After("put files") : next \notin {"put files", "entry", "hydrate"}
        BY DEF After
      <3> QED BY <2>1, <2>4, <2>5, <3>1, AtFacts DEF Ready
    <2>8. CallsTyped' /\ Moved(c)
      BY <2>3, <2>6, <2>7, EndsTyped, GoesTyped, StaysTyped
    <2>9. StoreTyped'
      <3>1. f \in Files
        <4>1. call[c] \in CallType /\ call[c].m \in Manifests
          BY <2>1, Resolved DEF Steps
        <4> QED BY <4>1, ManifestsAssumption DEF NextFile, CallType
      <3>2. blobs' \subseteq Files
        BY <2>3, <3>1 DEF StoreTyped
      <3>3. faults' \in 0..MaxFaults
        BY <2>3, S3Counts DEF StoreTyped
      <3> QED BY <1>1, <3>2, <3>3 DEF PutFile, StoreTyped, caches, history
    <2> QED BY <2>8, <2>9
  <1>2. CASE PutManifest(c)
    <2>1. At(c, "put manifest")
      BY <1>2 DEF PutManifest
    <2>2. PICK o \in Outcomes :
          /\ S3(o)
          /\ manifests' = IF o = "lost" THEN manifests ELSE manifests \cup {call[c].m}
          /\ GoesIf(c, o = "ok")
      BY <1>2 DEF PutManifest
    <2>3. Ready(call[c]) /\ call[c].m \in Manifests
      BY <2>1, StillReady, Resolved DEF Steps
    <2>4. CallsTyped' /\ Moved(c)
      BY <2>2, <2>3, EndsTyped, GoesTyped DEF GoesIf
    <2>5. faults' \in 0..MaxFaults
      BY <2>2, S3Counts DEF StoreTyped
    <2>6. StoreTyped'
      BY <1>2, <2>2, <2>3, <2>5 DEF PutManifest, StoreTyped, caches, history
    <2> QED BY <2>4, <2>6
  <1>3. CASE PutRef(c)
    <2>1. At(c, "put ref")
      BY <1>3 DEF PutRef
    <2> DEFINE t == call[c].tag  m == call[c].m
    <2>2. PICK o \in Outcomes :
          /\ S3(o)
          /\ IF o = "lost"
             THEN Ends(c, "error") /\ UNCHANGED <<refs, replaced>>
             ELSE /\ refs' = [refs EXCEPT ![t] = m]
                  /\ replaced' = replaced \cup ({refs[t]} \ {None, m})
                  /\ call' = Changed([call EXCEPT ![c] = Wrote(c, o)], t)
      BY <1>3 DEF PutRef
    <2>3. Ready(call[c]) /\ m \in Manifests /\ t \in Tags /\ call[c] \in CallType
      BY <2>1, StillReady, Resolved DEF Steps
    <2>4. faults' \in 0..MaxFaults
      BY <2>2, S3Counts DEF StoreTyped
    <2>5. StoreTyped'
      <3>1. refs' \in [Tags -> Manifests \cup {None}]
        BY <2>2, <2>3 DEF StoreTyped
      <3>2. replaced' \subseteq Manifests
        BY <2>2, <2>3 DEF StoreTyped
      <3> QED BY <1>3, <2>4, <3>1, <3>2 DEF PutRef, StoreTyped, caches
    <2>6. Len(call[c].plan) # 1
      <3>1. "put ref" \notin Final
        BY DEF Final
      <3> QED BY <2>1, <3>1, AtFacts, PlannedTail
    <2>7. CallsTyped' /\ Moved(c)
      BY <2>2, <2>3, <2>6, EndsTyped, WroteTyped
    <2> QED BY <2>5, <2>7
  <1>4. CASE CacheRef(c)
    <2>1. At(c, "cache ref")
      BY <1>4 DEF CacheRef
    <2>2. Ready(call[c]) /\ call[c].m \in Manifests /\ call[c].tag \in Tags /\ Host(c) \in Instances
      BY <2>1, StillReady, Resolved DEF Steps
    <2>3. CallsTyped' /\ Moved(c)
      BY <1>4, <2>2, GoesTyped DEF CacheRef
    <2>4. StoreTyped'
      BY <1>4, <2>2 DEF CacheRef, StoreTyped, stored, Settle
    <2> QED BY <2>3, <2>4
  <1> QED BY <1>1, <1>2, <1>3, <1>4 DEF Publishing

\* Deleting.
LEMMA DeletingTyped ==
    ASSUME Typed, NEW c \in Clients, Deleting(c)
    PROVE  Typed' /\ Moved(c)
  <1> USE DEF Typed
  <1>1. CASE FindRef(c)
    <2>1. At(c, "find ref")
      BY <1>1 DEF FindRef
    <2> DEFINE r == [call[c] EXCEPT !.m = refs[call[c].tag]]
    <2>2. PICK o \in {"ok", "lost"} :
          /\ S3(o)
          /\ IF o = "ok" /\ refs[call[c].tag] # None THEN Goes(c, r) ELSE Ends(c, "error")
      BY <1>1 DEF FindRef
    <2>3. StoreTyped'
      BY <1>1, <2>2, S3Counts DEF FindRef, StoreTyped, stored, caches, history
    <2>4. ASSUME refs[call[c].tag] # None
          PROVE  Ready(r) /\ r.kind = call[c].kind
      <3>1. /\ call[c] \in CallType /\ Planned(call[c].kind, call[c].plan) /\ call[c].plan # <<>>
            /\ IF call[c].kind = "delete" THEN call[c].live \subseteq Manifests
               ELSE call[c].live \subseteq Names
            /\ Host(c) \in Instances /\ call[c].tag \in Tags /\ call[c].end = "none"
            /\ Head(call[c].plan) = "find ref"
        BY <2>1, AtFacts
      <3>2. refs[call[c].tag] \in Manifests
        BY <2>4, <3>1 DEF StoreTyped
      <3>3. /\ r \in CallType /\ r.kind = call[c].kind /\ r.plan = call[c].plan
            /\ r.live = call[c].live /\ r.at = call[c].at /\ r.tag = call[c].tag
            /\ r.end = call[c].end /\ r.m \in Manifests
        BY <3>1, <3>2 DEF CallType
      <3>4. \A next \in After("find ref") : next \notin {"put files", "entry", "hydrate"}
        BY DEF After
      <3> HIDE DEF r
      <3> QED BY <3>1, <3>3, <3>4 DEF Ready, Host
    <2> HIDE DEF r
    <2>5. CallsTyped' /\ Moved(c)
      BY <2>2, <2>4, EndsTyped, GoesTyped
    <2> QED BY <2>3, <2>5
  <1>2. CASE DropRef(c)
    <2>1. At(c, "drop ref")
      BY <1>2 DEF DropRef
    <2> DEFINE t == call[c].tag
    <2>2. PICK o \in Outcomes :
          /\ S3(o)
          /\ IF o = "lost"
             THEN Ends(c, "error") /\ UNCHANGED refs
             ELSE /\ refs' = [refs EXCEPT ![t] = None]
                  /\ call' = Changed([call EXCEPT ![c] = Wrote(c, o)], t)
      BY <1>2 DEF DropRef
    <2>3. Ready(call[c]) /\ t \in Tags /\ call[c] \in CallType
      BY <2>1, StillReady
    <2>4. faults' \in 0..MaxFaults
      BY <2>2, S3Counts DEF StoreTyped
    <2>5. StoreTyped'
      <3>1. refs' \in [Tags -> Manifests \cup {None}]
        BY <2>2, <2>3 DEF StoreTyped
      <3> QED BY <1>2, <2>4, <3>1 DEF DropRef, StoreTyped, caches, history
    <2>6. Len(call[c].plan) # 1
      <3>1. "drop ref" \notin Final
        BY DEF Final
      <3> QED BY <2>1, <3>1, AtFacts, PlannedTail
    <2>7. CallsTyped' /\ Moved(c)
      BY <2>2, <2>3, <2>6, EndsTyped, WroteTyped
    <2> QED BY <2>5, <2>7
  <1>3. CASE ForgetRef(c)
    <2>1. At(c, "forget ref")
      BY <1>3 DEF ForgetRef
    <2>2. Ready(call[c]) /\ call[c].tag \in Tags /\ Host(c) \in Instances
      BY <2>1, StillReady
    <2>3. CallsTyped' /\ Moved(c)
      BY <1>3, <2>2, GoesTyped DEF ForgetRef
    <2>4. StoreTyped'
      BY <1>3, <2>2 DEF ForgetRef, StoreTyped, stored, Settle
    <2> QED BY <2>3, <2>4
  <1>4. CASE ListRefs(c)
    <2>1. At(c, "list refs")
      BY <1>4 DEF ListRefs
    <2> DEFINE r == [call[c] EXCEPT !.tags = Tagged]
    <2>2. PICK o \in {"ok", "lost"} :
          S3(o) /\ IF o = "ok" THEN Goes(c, r) ELSE Ends(c, "error")
      BY <1>4 DEF ListRefs
    <2>3. StoreTyped'
      BY <1>4, <2>2, S3Counts DEF ListRefs, StoreTyped, stored, caches, history
    <2>4. Ready(call[c]) /\ call[c] \in CallType
      BY <2>1, StillReady
    <2>5. Ready(r) /\ r.kind = call[c].kind
      <3>1. /\ r \in CallType /\ r.kind = call[c].kind /\ r.plan = call[c].plan
            /\ r.live = call[c].live /\ r.at = call[c].at /\ r.tag = call[c].tag
            /\ r.end = call[c].end /\ r.m = call[c].m /\ r.files = call[c].files
        BY <2>4 DEF CallType, Tagged
      <3> HIDE DEF r
      <3> QED BY <2>4, <3>1 DEF Ready
    <2> HIDE DEF r
    <2>6. CallsTyped' /\ Moved(c)
      BY <2>2, <2>5, EndsTyped, GoesTyped
    <2> QED BY <2>3, <2>6
  <1>5. CASE ReadRef(c)
    <2>1. At(c, "read refs")
      BY <1>5 DEF ReadRef
    <2>2. PICK t \in call[c].tags : \E o \in {"ok", "lost"} :
          /\ S3(o)
          /\ Stays(c, [call[c] EXCEPT
                !.tags = @ \ {t},
                !.live = IF o = "ok" THEN @ \cup ({refs[t]} \ {None}) ELSE @])
          /\ blind' = (blind \/ o # "ok")
      BY <1>5 DEF ReadRef
    <2>3. PICK o \in {"ok", "lost"} :
          /\ S3(o)
          /\ Stays(c, [call[c] EXCEPT
                !.tags = @ \ {t},
                !.live = IF o = "ok" THEN @ \cup ({refs[t]} \ {None}) ELSE @])
          /\ blind' = (blind \/ o # "ok")
      BY <2>2
    <2>4. StoreTyped'
      <3>1. faults' \in 0..MaxFaults
        BY <2>3, S3Counts DEF StoreTyped
      <3>2. blind' \in BOOLEAN
        BY <2>3
      <3> QED BY <1>5, <3>1, <3>2 DEF ReadRef, StoreTyped, stored, caches
    <2> DEFINE r == [call[c] EXCEPT
                !.tags = @ \ {t},
                !.live = IF o = "ok" THEN @ \cup ({refs[t]} \ {None}) ELSE @]
    <2>5. /\ call[c] \in CallType /\ CallOK(call[c]) /\ call[c].kind = "delete"
          /\ call[c].live \subseteq Manifests /\ t \in Tags
      <3>1. /\ call[c] \in CallType /\ CallOK(call[c]) /\ call[c].kind \in Kinds
            /\ "read refs" \in StepsOf(call[c].kind)
        BY <2>1, AtFacts
      <3>2. call[c].kind = "delete"
        BY <3>1, KindOfStep
      <3> QED BY <3>1, <3>2, <2>2 DEF CallOK, CallType
    <2>6. /\ r \in CallType /\ r.kind = call[c].kind /\ r.plan = call[c].plan
          /\ r.live \subseteq Manifests /\ r.at = call[c].at /\ r.tag = call[c].tag
          /\ r.end = call[c].end /\ r.m = call[c].m /\ r.files = call[c].files
      <3>1. {refs[t]} \ {None} \subseteq Manifests
        BY <2>5 DEF StoreTyped
      <3> QED BY <2>5, <3>1 DEF CallType
    <2>7. Stays(c, r)
      BY <2>3
    <2> HIDE DEF r
    <2>8. CallOK(r)
      BY <2>5, <2>6 DEF CallOK
    <2>9. CallsTyped' /\ Moved(c)
      BY <2>6, <2>7, <2>8, StaysTyped
    <2> QED BY <2>4, <2>9
  <1>6. CASE RefsRead(c)
    <2>1. At(c, "read refs")
      BY <1>6 DEF RefsRead
    <2>2. Ready(call[c])
      BY <2>1, StillReady
    <2>3. CallsTyped' /\ Moved(c)
      BY <1>6, <2>2, EndsTyped, GoesTyped DEF RefsRead
    <2>4. StoreTyped'
      BY <1>6 DEF RefsRead, StoreTyped, stored, caches, history
    <2> QED BY <2>3, <2>4
  <1>7. CASE ReadOrphan(c)
    <2>1. At(c, "read orphan")
      BY <1>7 DEF ReadOrphan
    <2>2. PICK o \in {"ok", "lost"} :
          /\ S3(o)
          /\ Goes(c, [call[c] EXCEPT
                !.files = IF o = "ok" /\ call[c].m \in manifests THEN FilesOf[call[c].m] ELSE {}])
      BY <1>7 DEF ReadOrphan
    <2>3. StoreTyped'
      BY <1>7, <2>2, S3Counts DEF ReadOrphan, StoreTyped, stored, caches, history
    <2> DEFINE r == [call[c] EXCEPT
                !.files = IF o = "ok" /\ call[c].m \in manifests THEN FilesOf[call[c].m] ELSE {}]
    <2>4. Ready(call[c]) /\ call[c] \in CallType /\ call[c].m \in Manifests
          /\ Head(call[c].plan) = "read orphan"
      BY <2>1, StillReady, Resolved DEF Steps, At
    <2>5. Ready(r) /\ r.kind = call[c].kind
      <3>1. FilesOf[call[c].m] \subseteq Files
        BY <2>4, ManifestsAssumption
      <3>2. /\ r \in CallType /\ r.kind = call[c].kind /\ r.plan = call[c].plan
            /\ r.live = call[c].live /\ r.at = call[c].at /\ r.tag = call[c].tag
            /\ r.end = call[c].end /\ r.m = call[c].m
        BY <2>4, <3>1 DEF CallType
      <3>3. \A next \in After("read orphan") : next \notin {"put files", "entry", "hydrate"}
        BY DEF After
      <3> HIDE DEF r
      <3> QED BY <2>4, <3>2, <3>3 DEF Ready
    <2> HIDE DEF r
    <2>6. CallsTyped' /\ Moved(c)
      <3>1. Goes(c, r)
        BY <2>2 DEF r
      <3> QED BY <2>5, <3>1, GoesTyped
    <2> QED BY <2>3, <2>6
  <1>8. CASE ReadLive(c)
    <2>1. At(c, "read live")
      BY <1>8 DEF ReadLive
    <2>2. PICK m \in call[c].live : \E o \in {"ok", "lost"} :
          /\ S3(o)
          /\ Stays(c, [call[c] EXCEPT
                !.live = @ \ {m},
                !.keep = IF o = "ok" /\ m \in manifests THEN @ \cup FilesOf[m] ELSE @])
          /\ blind' = (blind \/ o # "ok")
      BY <1>8 DEF ReadLive
    <2>3. PICK o \in {"ok", "lost"} :
          /\ S3(o)
          /\ Stays(c, [call[c] EXCEPT
                !.live = @ \ {m},
                !.keep = IF o = "ok" /\ m \in manifests THEN @ \cup FilesOf[m] ELSE @])
          /\ blind' = (blind \/ o # "ok")
      BY <2>2
    <2>4. StoreTyped'
      <3>1. faults' \in 0..MaxFaults
        BY <2>3, S3Counts DEF StoreTyped
      <3>2. blind' \in BOOLEAN
        BY <2>3
      <3> QED BY <1>8, <3>1, <3>2 DEF ReadLive, StoreTyped, stored, caches
    <2> DEFINE r == [call[c] EXCEPT
                !.live = @ \ {m},
                !.keep = IF o = "ok" /\ m \in manifests THEN @ \cup FilesOf[m] ELSE @]
    <2>5. /\ call[c] \in CallType /\ CallOK(call[c]) /\ call[c].kind = "delete"
          /\ call[c].live \subseteq Manifests /\ m \in Manifests
      <3>1. /\ call[c] \in CallType /\ CallOK(call[c]) /\ call[c].kind \in Kinds
            /\ "read live" \in StepsOf(call[c].kind)
        BY <2>1, AtFacts
      <3>2. call[c].kind = "delete"
        BY <3>1, KindOfStep
      <3> QED BY <3>1, <3>2, <2>2 DEF CallOK
    <2>6. /\ r \in CallType /\ r.kind = call[c].kind /\ r.plan = call[c].plan
          /\ r.live \subseteq Manifests /\ r.at = call[c].at /\ r.tag = call[c].tag
          /\ r.end = call[c].end /\ r.m = call[c].m /\ r.files = call[c].files
      <3>1. FilesOf[m] \subseteq Files
        BY <2>5, ManifestsAssumption
      <3> QED BY <2>5, <3>1 DEF CallType
    <2>7. Stays(c, r)
      BY <2>3
    <2> HIDE DEF r
    <2>8. CallOK(r)
      BY <2>5, <2>6 DEF CallOK
    <2>9. CallsTyped' /\ Moved(c)
      BY <2>6, <2>7, <2>8, StaysTyped
    <2> QED BY <2>4, <2>9
  <1>9. CASE LiveRead(c)
    <2>1. At(c, "read live")
      BY <1>9 DEF LiveRead
    <2>2. Ready(call[c])
      BY <2>1, StillReady
    <2>3. CallsTyped' /\ Moved(c)
      BY <1>9, <2>2, GoesTyped DEF LiveRead
    <2>4. StoreTyped'
      BY <1>9 DEF LiveRead, StoreTyped, stored, caches, history
    <2> QED BY <2>3, <2>4
  <1>10. CASE DropBlobs(c)
    <2>1. At(c, "drop blobs")
      BY <1>10 DEF DropBlobs
    <2>2. PICK o \in {"ok", "lost"} :
          /\ S3(o)
          /\ \E gone \in IF o = "ok" THEN {Doomed(c)} ELSE SUBSET Doomed(c) :
                blobs' = blobs \ gone
          /\ GoesIf(c, o = "ok")
      BY <1>10 DEF DropBlobs
    <2>3. Ready(call[c])
      BY <2>1, StillReady
    <2>4. CallsTyped' /\ Moved(c)
      BY <2>2, <2>3, EndsTyped, GoesTyped DEF GoesIf
    <2>5. faults' \in 0..MaxFaults
      BY <2>2, S3Counts DEF StoreTyped
    <2>6. blobs' \subseteq Files
      BY <2>2 DEF StoreTyped
    <2>7. StoreTyped'
      BY <1>10, <2>5, <2>6 DEF DropBlobs, StoreTyped, caches, history
    <2> QED BY <2>4, <2>7
  <1>11. CASE DropManifest(c)
    <2>1. At(c, "drop manifest")
      BY <1>11 DEF DropManifest
    <2>2. PICK o \in Outcomes :
          /\ S3(o)
          /\ manifests' = IF o = "lost" THEN manifests ELSE manifests \ {call[c].m}
          /\ GoesIf(c, o = "ok")
      BY <1>11 DEF DropManifest
    <2>3. Ready(call[c])
      BY <2>1, StillReady
    <2>4. CallsTyped' /\ Moved(c)
      BY <2>2, <2>3, EndsTyped, GoesTyped DEF GoesIf
    <2>5. faults' \in 0..MaxFaults
      BY <2>2, S3Counts DEF StoreTyped
    <2>6. StoreTyped'
      BY <1>11, <2>2, <2>5 DEF DropManifest, StoreTyped, caches, history
    <2> QED BY <2>4, <2>6
  <1> QED BY <1>1, <1>2, <1>3, <1>4, <1>5, <1>6, <1>7, <1>8, <1>9, <1>10, <1>11 DEF Deleting

\* What get_immutable caches is a manifest or a blob that the store holds.
LEMMA FetchTyped ==
    ASSUME StoreTyped, NEW c \in Clients, Host(c) \in Instances, NEW key \in Manifests \cup Files,
           NEW o, Fetch(c, key, o)
    PROVE  /\ objects' \in [Instances -> SUBSET (Manifests \cup Files)]
           /\ faults' \in 0..MaxFaults /\ faults' <= faults
           /\ faults' = faults => o = "ok"
  <1>1. CASE key \in objects[Host(c)]
    BY <1>1, LimitsAssumption DEF Fetch, StoreTyped
  <1>2. CASE key \notin objects[Host(c)]
    <2>1. S3(o) /\ objects' = IF o = "ok" /\ key \in manifests \cup blobs
                       THEN [objects EXCEPT ![Host(c)] = @ \cup {key}] ELSE objects
      BY <1>2 DEF Fetch
    <2>2. objects' \in [Instances -> SUBSET (Manifests \cup Files)]
      BY <2>1 DEF StoreTyped
    <2> QED BY <2>1, <2>2, S3Counts DEF StoreTyped
  <1> QED BY <1>1, <1>2

\* The preferred tag of a listed name is one of its listed tags.
LEMMA PreferredIsOne ==
    ASSUME NEW ts \in SUBSET Tags, NEW n \in {t[1] : t \in ts}
    PROVE  Preferred(ts, n) \in ts /\ Preferred(ts, n)[1] = n
  <1> DEFINE S == {k \in Nat : \E t \in ts : t[1] = n /\ t[2] = k}
  <1>1. PICK t \in ts : t[1] = n
    OBVIOUS
  <1>2. \A u \in ts : u[2] \in Nat
    BY VersionsAssumption DEF Tags
  <1>3. S \subseteq Nat /\ S # {}
    BY <1>1, <1>2
  <1>4. PICK k \in S : \A j \in S : k <= j
    <2> HIDE DEF S
    <2> QED BY <1>3, LeastNatural
  <1>5. PICK v \in ts : v[1] = n /\ v[2] = k
    BY <1>4
  <1>6. \A u \in ts : u[1] = n => v[2] <= u[2]
    BY <1>2, <1>4, <1>5
  <1> QED BY <1>5, <1>6 DEF Preferred

\* Resolving, loading and listing.
LEMMA LoadingTyped ==
    ASSUME Typed, NEW c \in Clients, Loading(c)
    PROVE  Typed' /\ Moved(c)
  <1> USE DEF Typed
  <1>1. CASE Resolve(c)
    <2>1. At(c, "resolve")
      BY <1>1 DEF Resolve
    <2> DEFINE t == call[c].tag
               hit == refCache[Host(c)][t]
               found(m) == [call[c] EXCEPT !.m = m]
               filling(m) == [call[c] EXCEPT !.m = m, !.plan = <<"fill">> \o Tail(@)]
    <2>2. /\ call[c] \in CallType /\ Planned(call[c].kind, call[c].plan) /\ call[c].plan # <<>>
          /\ Head(call[c].plan) = "resolve" /\ "resolve" \in StepsOf(call[c].kind)
          /\ call[c].kind \in Kinds /\ call[c].end = "none"
          /\ Host(c) \in Instances /\ t \in Tags
          /\ call[c].kind # "delete"
      <3>1. "resolve" \in StepsOf(call[c].kind) /\ call[c].kind \in Kinds
        BY <2>1, AtFacts
      <3>2. call[c].kind # "delete"
        BY <3>1, KindOfStep
      <3> QED BY <2>1, <3>2, AtFacts
    <2>3. call[c].live \subseteq Names
      BY <2>1, <2>2, AtFacts
    <2>4. ASSUME NEW m \in Manifests
          PROVE  Ready(found(m)) /\ found(m).kind = call[c].kind
      <3> DEFINE r == found(m)
      <3>1. /\ r \in CallType /\ r.kind = call[c].kind /\ r.plan = call[c].plan
            /\ r.live = call[c].live /\ r.at = call[c].at /\ r.tag = call[c].tag
            /\ r.end = call[c].end /\ r.m \in Manifests
        BY <2>2 DEF CallType
      <3>2. \A next \in After("resolve") : next \notin {"put files", "entry", "hydrate"}
        BY DEF After
      <3> HIDE DEF r
      <3>3. Ready(r) /\ r.kind = call[c].kind
        BY <2>2, <2>3, <3>1, <3>2 DEF Ready, Host
      <3> QED BY <3>3 DEF r
    <2>5. ASSUME NEW m \in Manifests
          PROVE  CallOK(filling(m)) /\ filling(m).kind = call[c].kind
      <3> DEFINE p == Tail(call[c].plan)
                 r == filling(m)
      <3>1. Planned(call[c].kind, p) /\ p # <<>> /\ Head(p) \in After("resolve")
        <4>1. "resolve" \notin Final
          BY DEF Final
        <4> QED BY <2>2, <4>1, PlannedTail
      <3>2. "fill" \in StepsOf(call[c].kind) /\ "fill" \in Steps
        <4>1. call[c].kind \in {"render", "source", "metadata"}
          BY <2>2 DEF StepsOf, Kinds
        <4> QED BY <4>1 DEF StepsOf, Steps
      <3>3. Head(p) \in After("fill")
        BY <3>1 DEF After
      <3>4. /\ Planned(call[c].kind, <<"fill">> \o p) /\ <<"fill">> \o p # <<>>
            /\ Head(<<"fill">> \o p) = "fill" /\ <<"fill">> \o p \in Seq(Steps)
        <4> HIDE DEF p
        <4>1. /\ Planned(call[c].kind, <<"fill">> \o p) /\ <<"fill">> \o p # <<>>
              /\ Head(<<"fill">> \o p) = "fill"
          BY <2>2, <3>1, <3>2, <3>3, PlannedPrefix
        <4> QED BY <4>1 DEF Planned
      <3>5. /\ r \in CallType /\ r.kind = call[c].kind /\ r.plan = <<"fill">> \o p
            /\ r.live = call[c].live /\ r.at = call[c].at /\ r.tag = call[c].tag
            /\ r.end = call[c].end /\ r.m \in Manifests
        BY <2>2, <3>4 DEF CallType
      <3> HIDE DEF r, p
      <3>6. CallOK(r)
        BY <2>2, <2>3, <3>4, <3>5 DEF CallOK, Host
      <3> QED BY <3>5, <3>6 DEF r, p
    <2>6. CASE hit # None
      <3>1. IF Matches(call[c], hit) THEN Goes(c, found(hit)) ELSE Ends(c, "error")
        BY <1>1, <2>6 DEF Resolve
      <3>2. hit \in Manifests
        BY <2>2, <2>6 DEF StoreTyped
      <3>3. Ready(found(hit)) /\ found(hit).kind = call[c].kind
        BY <2>4, <3>2
      <3>4. CallsTyped' /\ Moved(c)
        <4> HIDE DEF found
        <4> QED BY <3>1, <3>3, EndsTyped, GoesTyped
      <3>5. UNCHANGED faults
        BY <1>1, <2>6 DEF Resolve
      <3>6. StoreTyped'
        BY <1>1, <3>5 DEF Resolve, StoreTyped, stored, caches, history
      <3> QED BY <3>4, <3>6
    <2>7. CASE hit = None
      <3>1. PICK o \in {"ok", "lost"} :
              /\ S3(o)
              /\ IF o = "ok" /\ refs[t] # None THEN Stays(c, filling(refs[t])) ELSE Ends(c, "error")
        BY <1>1, <2>7 DEF Resolve
      <3>2. refs[t] # None => CallOK(filling(refs[t])) /\ filling(refs[t]).kind = call[c].kind
        BY <2>2, <2>5 DEF StoreTyped
      <3>3. CallsTyped' /\ Moved(c)
        <4> HIDE DEF filling
        <4> QED BY <3>1, <3>2, EndsTyped, StaysTyped
      <3>4. StoreTyped'
        BY <1>1, <3>1, S3Counts DEF Resolve, StoreTyped, stored, caches, history
      <3> QED BY <3>3, <3>4
    <2> QED BY <2>6, <2>7
  <1>2. CASE FillRefCache(c)
    <2>1. At(c, "fill")
      BY <1>2 DEF FillRefCache
    <2> DEFINE t == call[c].tag  m == call[c].m  i == Host(c)
    <2>2. Ready(call[c]) /\ m \in Manifests /\ t \in Tags /\ i \in Instances
      BY <2>1, StillReady, Resolved DEF Steps
    <2>3. CallsTyped' /\ Moved(c)
      BY <1>2, <2>2, EndsTyped, GoesTyped DEF FillRefCache, GoesIf
    <2>4. refCache' \in [Instances -> [Tags -> Manifests \cup {None}]]
      BY <1>2, <2>2 DEF FillRefCache, StoreTyped
    <2>5. StoreTyped'
      BY <1>2, <2>4 DEF FillRefCache, StoreTyped, stored, history
    <2> QED BY <2>3, <2>5
  <1>3. CASE LoadManifest(c)
    <2>1. At(c, "manifest")
      BY <1>3 DEF LoadManifest
    <2>2. PICK o \in {"ok", "lost"} : Fetch(c, call[c].m, o)
      BY <1>3 DEF LoadManifest
    <2>3. /\ call[c].m \in Manifests /\ call[c] \in CallType /\ Host(c) \in Instances
          /\ Head(call[c].plan) = "manifest"
      BY <2>1, Resolved DEF Steps, At
    <2> DEFINE r == [call[c] EXCEPT !.files = FilesOf[call[c].m]]
    <2>4. Ready(r) /\ r.kind = call[c].kind
      <3>1. FilesOf[call[c].m] \subseteq Files
        BY <2>3, ManifestsAssumption
      <3>2. /\ r \in CallType /\ r.kind = call[c].kind /\ r.plan = call[c].plan
            /\ r.live = call[c].live /\ r.at = call[c].at /\ r.tag = call[c].tag
            /\ r.end = call[c].end /\ r.m = call[c].m /\ r.files \subseteq FilesOf[r.m]
        BY <2>3, <3>1 DEF CallType
      <3> HIDE DEF r
      <3>3. /\ Planned(call[c].kind, call[c].plan) /\ call[c].plan # <<>>
            /\ IF call[c].kind = "delete" THEN call[c].live \subseteq Manifests
               ELSE call[c].live \subseteq Names
            /\ call[c].tag \in Tags /\ call[c].end = "none"
        BY <2>1, AtFacts
      <3> QED BY <2>3, <3>2, <3>3 DEF Ready, Host
    <2>5. IF Got(c, call[c].m) THEN Goes(c, r) ELSE Ends(c, "error")
      BY <1>3 DEF LoadManifest
    <2> HIDE DEF r
    <2>6. CallsTyped' /\ Moved(c)
      BY <2>4, <2>5, EndsTyped, GoesTyped
    <2>7. objects' \in [Instances -> SUBSET (Manifests \cup Files)] /\ faults' \in 0..MaxFaults
      BY <2>2, <2>3, FetchTyped
    <2>8. StoreTyped'
      BY <1>3, <2>7 DEF LoadManifest, StoreTyped, stored, history
    <2> QED BY <2>6, <2>8
  <1>4. CASE LoadEntrypoint(c)
    <2>1. At(c, "entry")
      BY <1>4 DEF LoadEntrypoint
    <2>2. PICK o \in {"ok", "lost"} : Fetch(c, EntryOf[call[c].m], o)
      BY <1>4 DEF LoadEntrypoint
    <2>3. Ready(call[c]) /\ call[c].m \in Manifests /\ Host(c) \in Instances
      BY <2>1, StillReady, Resolved DEF Steps
    <2>4. GoesIf(c, Got(c, EntryOf[call[c].m]))
      BY <1>4 DEF LoadEntrypoint
    <2>5. CallsTyped' /\ Moved(c)
      BY <2>3, <2>4, EndsTyped, GoesTyped DEF GoesIf
    <2>6. EntryOf[call[c].m] \in Manifests \cup Files
      BY <2>3, ManifestsAssumption
    <2>7. objects' \in [Instances -> SUBSET (Manifests \cup Files)] /\ faults' \in 0..MaxFaults
      BY <2>2, <2>3, <2>6, FetchTyped
    <2>8. StoreTyped'
      BY <1>4, <2>7 DEF LoadEntrypoint, StoreTyped, stored, history
    <2> QED BY <2>5, <2>8
  <1>5. CASE HydrateFile(c)
    <2>1. At(c, "hydrate")
      BY <1>5 DEF HydrateFile
    <2>2. PICK f \in call[c].files : \E o \in {"ok", "lost"} :
          /\ Fetch(c, f, o)
          /\ LET r == [call[c] EXCEPT !.files = @ \ {f}] IN
             CASE ~Got(c, f) -> Ends(c, "error")
               [] Got(c, f) /\ r.files = {} -> Goes(c, r)
               [] OTHER -> Stays(c, r)
      BY <1>5 DEF HydrateFile
    <2> DEFINE r == [call[c] EXCEPT !.files = @ \ {f}]
    <2>3. PICK o \in {"ok", "lost"} :
          /\ Fetch(c, f, o)
          /\ CASE ~Got(c, f) -> Ends(c, "error")
               [] Got(c, f) /\ r.files = {} -> Goes(c, r)
               [] OTHER -> Stays(c, r)
      BY <2>2
    <2>4. /\ call[c].m \in Manifests /\ call[c] \in CallType /\ Host(c) \in Instances
          /\ Ready(call[c])
      BY <2>1, StillReady, Resolved DEF Steps
    <2>5. /\ r \in CallType /\ r.kind = call[c].kind /\ r.plan = call[c].plan /\ r.live = call[c].live
          /\ r.at = call[c].at /\ r.tag = call[c].tag /\ r.end = call[c].end /\ r.m = call[c].m
          /\ r.files \subseteq call[c].files
      BY <2>4 DEF CallType
    <2> HIDE DEF r
    <2>6. CallOK(r)
      BY <2>1, <2>5, AtFacts DEF CallOK
    <2>7. Ready(r) /\ r.kind = call[c].kind
      <3>1. \A next \in After("hydrate") : next \notin {"put files", "entry", "hydrate"}
        BY DEF After
      <3>2. Head(call[c].plan) = "hydrate"
        BY <2>1 DEF At
      <3> QED BY <2>4, <2>5, <3>1, <3>2 DEF Ready
    <2>8. CallsTyped' /\ Moved(c)
      BY <2>3, <2>6, <2>7, EndsTyped, GoesTyped, StaysTyped
    <2>9. f \in Manifests \cup Files
      BY <2>4 DEF CallType
    <2>10. objects' \in [Instances -> SUBSET (Manifests \cup Files)] /\ faults' \in 0..MaxFaults
      BY <2>3, <2>4, <2>9, FetchTyped
    <2>11. StoreTyped'
      BY <1>5, <2>10 DEF HydrateFile, StoreTyped, stored, history
    <2> QED BY <2>8, <2>11
  <1>6. CASE Scan(c)
    <2>1. At(c, "scan")
      BY <1>6 DEF Scan
    <2> DEFINE seen == {t \in Tagged : t[1] \in InScope(c)}
               r == [call[c] EXCEPT !.tags = seen]
    <2>2. PICK o \in {"ok", "lost"} :
          /\ S3(o)
          /\ IF o = "lost" \/ (seen = {} /\ call[c].kind # "list") THEN Ends(c, "error") ELSE Goes(c, r)
      BY <1>6 DEF Scan
    <2>3. StoreTyped'
      BY <1>6, <2>2, S3Counts DEF Scan, StoreTyped, stored, caches, history
    <2>4. Ready(call[c]) /\ call[c] \in CallType
      BY <2>1, StillReady
    <2>5. Ready(r) /\ r.kind = call[c].kind
      <3>1. /\ r \in CallType /\ r.kind = call[c].kind /\ r.plan = call[c].plan
            /\ r.live = call[c].live /\ r.at = call[c].at /\ r.tag = call[c].tag
            /\ r.end = call[c].end /\ r.m = call[c].m /\ r.files = call[c].files
        BY <2>4 DEF CallType, Tagged
      <3> HIDE DEF r
      <3> QED BY <2>4, <3>1 DEF Ready
    <2> HIDE DEF r, seen
    <2>6. CallsTyped' /\ Moved(c)
      BY <2>2, <2>5, EndsTyped, GoesTyped
    <2> QED BY <2>3, <2>6
  <1>7. CASE ReadPreferred(c)
    <2>1. At(c, "info")
      BY <1>7 DEF ReadPreferred
    <2> DEFINE m(n) == refs[Preferred(call[c].tags, n)]
               r(n) == [call[c] EXCEPT !.tags = {t \in @ : t[1] # n}]
               q(n) == [r(n) EXCEPT !.m = m(n), !.live = {n}, !.plan = <<"describe">> \o @]
    <2>2. PICK n \in {t[1] : t \in call[c].tags} : \E o \in {"ok", "lost"} :
          /\ S3(o)
          /\ IF o = "ok" /\ m(n) # None THEN Stays(c, q(n)) ELSE SkipOrFail(c, r(n))
      BY <1>7 DEF ReadPreferred
    <2>3. PICK o \in {"ok", "lost"} :
          /\ S3(o)
          /\ IF o = "ok" /\ m(n) # None THEN Stays(c, q(n)) ELSE SkipOrFail(c, r(n))
      BY <2>2
    <2>4. StoreTyped'
      BY <1>7, <2>3, S3Counts DEF ReadPreferred, StoreTyped, stored, caches, history
    <2>5. /\ call[c] \in CallType /\ Planned(call[c].kind, call[c].plan) /\ call[c].plan # <<>>
          /\ Head(call[c].plan) = "info" /\ call[c].end = "none" /\ call[c].kind \in Kinds
          /\ Host(c) \in Instances /\ call[c].tag \in Tags /\ "info" \in StepsOf(call[c].kind)
      BY <2>1, AtFacts
    <2>6. call[c].kind \in {"metadata", "list"} /\ call[c].live \subseteq Names
      <3>1. call[c].kind \in {"metadata", "list"}
        BY <2>5 DEF StepsOf, Kinds
      <3> QED BY <2>1, <3>1, AtFacts
    <2>7. n \in Names /\ (m(n) # None => m(n) \in Manifests)
      <3>1. call[c].tags \in SUBSET Tags
        BY <2>5 DEF CallType
      <3>2. Preferred(call[c].tags, n) \in Tags /\ n \in Names
        BY <3>1, PreferredIsOne DEF Tags
      <3> QED BY <3>2 DEF StoreTyped
    <2>8. /\ r(n) \in CallType /\ r(n).kind = call[c].kind /\ r(n).plan = call[c].plan
          /\ r(n).live = call[c].live /\ r(n).at = call[c].at /\ r(n).tag = call[c].tag
          /\ r(n).end = call[c].end /\ r(n).m = call[c].m
      BY <2>5 DEF CallType
    <2>9. CallOK(r(n))
      <3> DEFINE s == r(n)
      <3> HIDE DEF r
      <3>1. CallOK(s)
        <4> HIDE DEF s
        <4>1. /\ s \in CallType /\ s.kind = call[c].kind /\ s.plan = call[c].plan
              /\ s.live = call[c].live /\ s.at = call[c].at /\ s.tag = call[c].tag
              /\ s.end = call[c].end /\ s.m = call[c].m
          BY <2>8 DEF s
        <4>2. Head(s.plan) \in Unresolved /\ Head(s.plan) \notin {"put files", "entry", "hydrate"}
          BY <2>5, <4>1 DEF Unresolved
        <4> QED BY <2>5, <2>6, <4>1, <4>2 DEF CallOK, Host
      <3> QED BY <3>1
    <2>10. ASSUME m(n) # None
           PROVE  CallOK(q(n)) /\ q(n).kind = call[c].kind
      <3> DEFINE s == q(n)
                 p == call[c].plan
      <3>1. "describe" \in StepsOf(call[c].kind) /\ "describe" \in Steps /\ "info" \in After("describe")
        <4>1. "describe" \in Steps /\ "info" \in After("describe")
          BY DEF Steps, After
        <4>2. "describe" \in StepsOf(call[c].kind)
          BY <2>6 DEF StepsOf
        <4> QED BY <4>1, <4>2
      <3>2. /\ Planned(call[c].kind, <<"describe">> \o p) /\ <<"describe">> \o p # <<>>
            /\ Head(<<"describe">> \o p) = "describe" /\ <<"describe">> \o p \in Seq(Steps)
        <4> HIDE DEF p, s
        <4>1. /\ Planned(call[c].kind, p) /\ p # <<>> /\ Head(p) = "info"
          BY <2>5 DEF p
        <4>2. /\ Planned(call[c].kind, <<"describe">> \o p) /\ <<"describe">> \o p # <<>>
              /\ Head(<<"describe">> \o p) = "describe"
          BY <2>5, <3>1, <4>1, PlannedPrefix
        <4> QED BY <4>2 DEF Planned
      <3>3. /\ s \in CallType /\ s.kind = call[c].kind /\ s.plan = <<"describe">> \o p
            /\ s.live = {n} /\ s.at = call[c].at /\ s.tag = call[c].tag
            /\ s.end = call[c].end /\ s.m \in Manifests
        <4> HIDE DEF m
        <4> QED BY <2>5, <2>7, <2>10, <3>2 DEF CallType
      <3> HIDE DEF s, p, m
      <3>4. Head(s.plan) \notin {"put files", "entry", "hydrate"}
        BY <3>2, <3>3
      <3>5. CallOK(s)
        BY <2>5, <2>6, <2>7, <3>2, <3>3, <3>4 DEF CallOK, Host
      <3> QED BY <3>3, <3>5 DEF s
    <2> DEFINE mn == m(n)  rn == r(n)  qn == q(n)
    <2>11. IF o = "ok" /\ mn # None THEN Stays(c, qn) ELSE SkipOrFail(c, rn)
      BY <2>3
    <2>12. /\ CallOK(rn) /\ rn.kind = call[c].kind
           /\ mn # None => CallOK(qn) /\ qn.kind = call[c].kind
      BY <2>8, <2>9, <2>10
    <2> HIDE DEF mn, rn, qn
    <2>13. CallsTyped' /\ Moved(c)
      BY <2>11, <2>12, StaysTyped, EndsTyped DEF SkipOrFail
    <2> QED BY <2>4, <2>13
  <1>8. CASE Describe(c)
    <2>1. At(c, "describe")
      BY <1>8 DEF Describe
    <2> DEFINE r == [call[c] EXCEPT !.plan = Tail(@), !.live = {}]
               q == [r EXCEPT !.found = @ \cup call[c].live]
    <2>2. PICK o \in {"ok", "lost"} : Fetch(c, call[c].m, o)
      BY <1>8 DEF Describe
    <2>3. IF Got(c, r.m) THEN Stays(c, q) ELSE SkipOrFail(c, r)
      BY <1>8 DEF Describe
    <2>4. /\ call[c] \in CallType /\ Planned(call[c].kind, call[c].plan) /\ call[c].plan # <<>>
          /\ Head(call[c].plan) = "describe" /\ call[c].end = "none" /\ call[c].kind \in Kinds
          /\ Host(c) \in Instances /\ call[c].tag \in Tags /\ "describe" \in StepsOf(call[c].kind)
          /\ call[c].m \in Manifests
      BY <2>1, AtFacts, Resolved DEF Steps
    <2>5. call[c].kind # "delete" /\ call[c].live \subseteq Names
      <3>1. call[c].kind # "delete"
        BY <2>4, KindOfStep
      <3> QED BY <2>1, <3>1, AtFacts
    <2>6. LET p == Tail(call[c].plan) IN
          Planned(call[c].kind, p) /\ p \in Seq(Steps) /\ (p # <<>> => Head(p) = "info")
      <3>1. "describe" \notin Final /\ After("describe") = {"info"}
        BY DEF Final, After
      <3>2. Planned(call[c].kind, Tail(call[c].plan)) /\ Tail(call[c].plan) # <<>>
            /\ Head(Tail(call[c].plan)) \in After("describe")
        BY <2>4, <3>1, PlannedTail
      <3> QED BY <3>1, <3>2 DEF Planned
    <2>7. /\ r \in CallType /\ r.kind = call[c].kind /\ r.plan = Tail(call[c].plan)
          /\ r.live = {} /\ r.at = call[c].at /\ r.tag = call[c].tag /\ r.end = call[c].end
          /\ r.m = call[c].m
      BY <2>4, <2>6 DEF CallType
    <2>8. /\ q \in CallType /\ q.kind = call[c].kind /\ q.plan = Tail(call[c].plan)
          /\ q.live = {} /\ q.at = call[c].at /\ q.tag = call[c].tag /\ q.end = call[c].end
          /\ q.m = call[c].m
      <3> HIDE DEF r
      <3> QED BY <2>5, <2>7 DEF CallType
    <2> HIDE DEF q, r
    <2>9. ASSUME NEW s, s \in CallType, s.kind = call[c].kind, s.plan = Tail(call[c].plan),
                 s.live = {}, s.at = call[c].at, s.tag = call[c].tag, s.end = call[c].end,
                 s.m = call[c].m
          PROVE  CallOK(s)
      <3>1. Planned(s.kind, s.plan) /\ (s.plan # <<>> => Head(s.plan) = "info")
        BY <2>6, <2>9
      <3>2. s.plan # <<>> => s.at \in Instances /\ s.tag \in Tags /\ s.end = "none"
        BY <2>4, <2>9 DEF Host
      <3>3. "info" \in Unresolved
        BY DEF Unresolved
      <3> QED BY <2>9, <3>1, <3>2, <3>3 DEF CallOK
    <2>10. CallOK(r) /\ CallOK(q)
      BY <2>7, <2>8, <2>9
    <2>11. CallsTyped' /\ Moved(c)
      BY <2>3, <2>7, <2>8, <2>10, StaysTyped, EndsTyped DEF SkipOrFail
    <2>12. objects' \in [Instances -> SUBSET (Manifests \cup Files)] /\ faults' \in 0..MaxFaults
      BY <2>2, <2>4, FetchTyped
    <2>13. StoreTyped'
      BY <1>8, <2>12 DEF Describe, StoreTyped, stored, history
    <2> QED BY <2>11, <2>13
  <1>9. CASE Described(c)
    <2>1. At(c, "info")
      BY <1>9 DEF Described
    <2>2. Ready(call[c])
      BY <2>1, StillReady
    <2>3. CallsTyped' /\ Moved(c)
      BY <1>9, <2>2, GoesTyped DEF Described
    <2>4. StoreTyped'
      BY <1>9 DEF Described, StoreTyped, stored, caches, history
    <2> QED BY <2>3, <2>4
  <1> QED BY <1>1, <1>2, <1>3, <1>4, <1>5, <1>6, <1>7, <1>8, <1>9 DEF Loading

\* Every action is a step of the plan of its kind of call.
LEMMA StepsAt ==
    ASSUME NEW c \in Clients
    PROVE  /\ Publishing(c) =>
                 \E step \in {"put files", "put manifest", "put ref", "cache ref"} : At(c, step)
           /\ Deleting(c) =>
                 \E step \in {"find ref", "drop ref", "forget ref", "list refs", "read refs",
                              "read orphan", "read live", "drop blobs", "drop manifest"} : At(c, step)
           /\ Loading(c) =>
                 \E step \in {"resolve", "fill", "manifest", "entry", "hydrate", "scan", "info",
                              "describe"} : At(c, step)
  <1>1. ASSUME Publishing(c)
        PROVE  \E step \in {"put files", "put manifest", "put ref", "cache ref"} : At(c, step)
    BY <1>1 DEF Publishing, PutFile, PutManifest, PutRef, CacheRef
  <1>2. ASSUME Deleting(c)
        PROVE  \E step \in {"find ref", "drop ref", "forget ref", "list refs", "read refs",
                            "read orphan", "read live", "drop blobs", "drop manifest"} : At(c, step)
    BY <1>2 DEF Deleting, FindRef, DropRef, ForgetRef, ListRefs, ReadRef, RefsRead, ReadOrphan,
         ReadLive, LiveRead, DropBlobs, DropManifest
  <1>3. ASSUME Loading(c)
        PROVE  \E step \in {"resolve", "fill", "manifest", "entry", "hydrate", "scan", "info",
                            "describe"} : At(c, step)
    BY <1>3 DEF Loading, Resolve, FillRefCache, LoadManifest, LoadEntrypoint, HydrateFile, Scan,
         ReadPreferred, Describe, Described
  <1> QED BY <1>1, <1>2, <1>3

\* A step keeps the types and moves one call.
LEMMA StepFrame ==
    ASSUME Typed, NEW c \in Clients, Step(c)
    PROVE  Typed' /\ Moved(c) /\ call[c].plan # <<>>
  <1>1. Typed' /\ Moved(c)
    BY PublishingTyped, DeletingTyped, LoadingTyped DEF Step
  <1>2. PICK step : At(c, step)
    BY StepsAt DEF Step
  <1> QED BY <1>1, <1>2 DEF At

\* The actions of a publish, a delete and a load are taken by calls of that kind.
LEMMA KindsOfSteps ==
    ASSUME Typed, NEW c \in Clients
    PROVE  /\ Publishing(c) => call[c].kind = "publish"
           /\ Deleting(c) => call[c].kind = "delete"
           /\ Loading(c) => call[c].kind \notin {"publish", "delete"}
  <1>1. ASSUME NEW step, At(c, step)
        PROVE  call[c].kind \in Kinds /\ step \in StepsOf(call[c].kind)
    BY <1>1, AtFacts DEF Typed
  <1>2. Publishing(c) => call[c].kind = "publish"
    BY <1>1, StepsAt, KindOfStep
  <1>3. Deleting(c) => call[c].kind = "delete"
    BY <1>1, StepsAt, KindOfStep
  <1>4. Loading(c) => call[c].kind \notin {"publish", "delete"}
    BY <1>1, StepsAt, KindOfStep
  <1> QED BY <1>2, <1>3, <1>4

\* Any registry the runs start from is well formed.
LEMMA InitTyped ==
    ASSUME Init
    PROVE  Typed
  <1>1. CallOK(Idle)
    <2>1. Planned("list", <<>>)
      BY DEF Planned
    <2>2. Idle \in CallType
      BY DEF Idle, CallType, Kinds
    <2> QED BY <2>1, <2>2 DEF CallOK, Idle
  <1>2. CallsTyped
    <2>1. Idle \in CallType
      BY <1>1 DEF CallOK
    <2> QED BY <1>1, <2>1 DEF Init, CallsTyped
  <1>3. manifests \subseteq Manifests /\ blobs \subseteq Files
    BY ManifestsAssumption DEF Init
  <1>4. refCache \in [Instances -> [Tags -> Manifests \cup {None}]]
    <2>1. PICK warm \in SUBSET Instances :
            refCache = [i \in Instances |-> IF i \in warm THEN refs ELSE [t \in Tags |-> None]]
      BY DEF Init
    <2>2. refs \in [Tags -> Manifests \cup {None}]
      BY DEF Init
    <2> QED BY <2>1, <2>2
  <1>5. left \in 0..MaxCalls /\ faults \in 0..MaxFaults
    BY LimitsAssumption DEF Init
  <1>6. StoreTyped
    BY <1>3, <1>4, <1>5 DEF Init, StoreTyped
  <1> QED BY <1>2, <1>6 DEF Typed

\* No step leaves the types.
LEMMA NextTyped ==
    ASSUME Typed, [Next]_vars
    PROVE  Typed'
  <1>1. CASE Next
    BY <1>1, StartTyped, StepFrame, ExpireTyped DEF Next
  <1>2. CASE UNCHANGED vars
    BY <1>2 DEF vars, stored, caches, history, Typed, StoreTyped, CallsTyped, CallOK
  <1> QED BY <1>1, <1>2

\* The registry stores what it is typed to store, and every call is at a step
\* of its plan.
THEOREM TypesHold == Spec => []TypeOK
  <1>1. Typed => TypeOK
    BY DEF Typed, StoreTyped, CallsTyped, TypeOK
  <1> QED BY InitTyped, NextTyped, <1>1, PTL DEF Spec

-----------------------------------------------------------------------------
(* What keeps a collection from a tagged manifest                            *)

\* Publishes and deletes in flight together are told.
Alone == ~raced => ~(Busy("publish") /\ Busy("delete"))

On(r, step) == r.plan # <<>> /\ Head(r.plan) = step

\* A publish has stored what its tag will need, and a delete has learned of
\* every tag that it must keep.
Spared(r) ==
    /\ On(r, "put files") => FilesOf[r.m] \ r.files \subseteq blobs
    /\ On(r, "put manifest") => FilesOf[r.m] \subseteq blobs
    /\ On(r, "put ref") => Complete(r.m)
    /\ On(r, "read refs") => \A t \in Tagged : t \in r.tags \/ refs[t] \in r.live
    /\ On(r, "read orphan") => \A t \in Tagged : refs[t] # r.m /\ refs[t] \in r.live
    /\ On(r, "read live") =>
          \A t \in Tagged : refs[t] # r.m /\ (refs[t] \in r.live \/ FilesOf[refs[t]] \subseteq r.keep)
    /\ On(r, "drop blobs") => \A t \in Tagged : refs[t] # r.m /\ FilesOf[refs[t]] \subseteq r.keep
    /\ On(r, "drop manifest") => \A t \in Tagged : refs[t] # r.m

Sparing ==
    (~raced /\ ~blind) =>
        /\ \A t \in Tagged : Complete(refs[t])
        /\ \A c \in Clients : Spared(call[c])

-----------------------------------------------------------------------------
(* What a listing has seen                                                   *)

FailingIsCounted == faults = MaxFaults => ~blind

NamesIn(ts) == {t[1] : t \in ts}

Listed(r) ==
    r.kind = "list" =>
        /\ On(r, "scan") => r.found = {}
        /\ On(r, "info") \/ On(r, "describe") => \A t \in r.tags : t[1] \in r.steady => t \in Tagged
        /\ On(r, "info") =>
              \A n \in r.steady : n \in NamesIn(Tagged) <=> n \in r.found \cup NamesIn(r.tags)
        /\ On(r, "describe") =>
              /\ \A n \in r.steady :
                    n \in NamesIn(Tagged) <=> n \in r.found \cup NamesIn(r.tags) \cup r.live
              /\ \A n \in r.live \cap r.steady : \E t \in Tagged : t[1] = n /\ refs[t] = r.m
        /\ r.end = "ok" => \A n \in r.steady : n \in NamesIn(Tagged) <=> n \in r.found

Listing == (~raced /\ faults = MaxFaults) => \A c \in Clients : Listed(call[c])

-----------------------------------------------------------------------------
(* Who minds a manifest                                                      *)

\* The call has the manifest in hand and will tag or collect it.
Minds(r, m) ==
    /\ r.m = m
    /\ \/ \E step \in {"put ref", "forget ref", "list refs", "read orphan", "read live", "drop blobs",
                       "drop manifest"} : On(r, step)
       \/ On(r, "read refs") /\ m \notin r.live

Kept(m) ==
    \/ \E t \in Tagged : refs[t] = m
    \/ m \in replaced
    \/ \E c \in Clients : Minds(call[c], m)

\* A delete has read no tag yet, and drops the tag of the manifest it knows.
Knows(r) ==
    /\ \A step \in {"find ref", "drop ref", "forget ref", "list refs"} : On(r, step) => r.live = {}
    /\ On(r, "drop ref") => refs[r.tag] \in {None, r.m}

Minded ==
    Undisturbed => (\A c \in Clients : Knows(call[c])) /\ \A m \in manifests : Kept(m)

-----------------------------------------------------------------------------
(* Publishes and deletes                                                     *)

\* What the history has told stays told.
LEMMA Remembered ==
    ASSUME [Next]_vars
    PROVE  (raced => raced') /\ (blind => blind')
  <1>1. ASSUME NEW c \in Clients, Publishing(c)
        PROVE  (raced => raced') /\ (blind => blind')
    <2>1. CASE PutFile(c)
      BY <2>1 DEF PutFile, history
    <2>2. CASE PutManifest(c)
      BY <2>2 DEF PutManifest, history
    <2>3. CASE PutRef(c)
      BY <2>3 DEF PutRef, history
    <2>4. CASE CacheRef(c)
      BY <2>4 DEF CacheRef, history
    <2> QED BY <1>1, <2>1, <2>2, <2>3, <2>4 DEF Publishing
  <1>2. ASSUME NEW c \in Clients, Deleting(c)
        PROVE  (raced => raced') /\ (blind => blind')
    <2>1. CASE FindRef(c)
      BY <2>1 DEF FindRef, history
    <2>2. CASE DropRef(c)
      BY <2>2 DEF DropRef, history
    <2>3. CASE ForgetRef(c)
      BY <2>3 DEF ForgetRef, history
    <2>4. CASE ListRefs(c)
      BY <2>4 DEF ListRefs, history
    <2>5. CASE ReadRef(c)
      BY <2>5 DEF ReadRef, history
    <2>6. CASE RefsRead(c)
      BY <2>6 DEF RefsRead, history
    <2>7. CASE ReadOrphan(c)
      BY <2>7 DEF ReadOrphan, history
    <2>8. CASE ReadLive(c)
      BY <2>8 DEF ReadLive, history
    <2>9. CASE LiveRead(c)
      BY <2>9 DEF LiveRead, history
    <2>10. CASE DropBlobs(c)
      BY <2>10 DEF DropBlobs, history
    <2>11. CASE DropManifest(c)
      BY <2>11 DEF DropManifest, history
    <2> QED BY <1>2, <2>1, <2>2, <2>3, <2>4, <2>5, <2>6, <2>7, <2>8, <2>9, <2>10, <2>11 DEF Deleting
  <1>3. ASSUME NEW c \in Clients, Loading(c)
        PROVE  (raced => raced') /\ (blind => blind')
    <2>1. CASE Resolve(c)
      BY <2>1 DEF Resolve, history
    <2>2. CASE FillRefCache(c)
      BY <2>2 DEF FillRefCache, history
    <2>3. CASE LoadManifest(c)
      BY <2>3 DEF LoadManifest, history
    <2>4. CASE LoadEntrypoint(c)
      BY <2>4 DEF LoadEntrypoint, history
    <2>5. CASE HydrateFile(c)
      BY <2>5 DEF HydrateFile, history
    <2>6. CASE Scan(c)
      BY <2>6 DEF Scan, history
    <2>7. CASE ReadPreferred(c)
      BY <2>7 DEF ReadPreferred, history
    <2>8. CASE Describe(c)
      BY <2>8 DEF Describe, history
    <2>9. CASE Described(c)
      BY <2>9 DEF Described, history
    <2> QED BY <1>3, <2>1, <2>2, <2>3, <2>4, <2>5, <2>6, <2>7, <2>8, <2>9 DEF Loading
  <1>4. ASSUME NEW c \in Clients, NEW kind \in Offered, NEW t \in Tags, NEW m \in Manifests,
               Start(c, kind, t, m)
        PROVE  (raced => raced') /\ (blind => blind')
    BY <1>4 DEF Start
  <1>5. ASSUME NEW i \in Instances, NEW t \in Tags, Expire(i, t)
        PROVE  (raced => raced') /\ (blind => blind')
    BY <1>5 DEF Expire, history
  <1>6. CASE UNCHANGED vars
    BY <1>6 DEF vars, history
  <1> QED BY <1>1, <1>2, <1>3, <1>4, <1>5, <1>6 DEF Next, Step

\* A delete that starts beside a publish, or a publish beside a delete, is told.
LEMMA NextAlone ==
    ASSUME Typed, Alone, [Next]_vars
    PROVE  Alone'
  <1> SUFFICES ASSUME ~raced'
               PROVE  ~(Busy("publish")' /\ Busy("delete")')
    BY DEF Alone
  <1>1. ~raced /\ ~(Busy("publish") /\ Busy("delete"))
    BY Remembered DEF Alone
  <1>2. ASSUME NEW c \in Clients, Step(c), NEW k
        PROVE  Busy(k)' => Busy(k)
    <2>1. Moved(c) /\ call[c].plan # <<>>
      BY <1>2, StepFrame
    <2>2. \A d \in Clients : call'[d].kind = call[d].kind /\ (call'[d].plan # <<>> => call[d].plan # <<>>)
      BY <2>1 DEF Moved, Same
    <2> QED BY <2>2 DEF Busy
  <1>3. ASSUME NEW c \in Clients, NEW kind \in Offered, NEW t \in Tags, NEW m \in Manifests,
               Start(c, kind, t, m)
        PROVE  ~(Busy("publish")' /\ Busy("delete")')
    <2>1. /\ \A d \in Clients \ {c} : call'[d].kind = call[d].kind /\ call'[d].plan = call[d].plan
          /\ call'[c].kind = kind
      <3>1. call'[c].kind = kind /\ \A d \in Clients \ {c} : Same(call'[d], call[d])
        BY <1>3, StartTyped
      <3> QED BY <3>1 DEF Same
    <2>2. ASSUME NEW k
          PROVE  Busy(k)' => Busy(k) \/ k = kind
      BY <2>1 DEF Busy
    <2>3. ~(kind = "publish" /\ Busy("delete")) /\ ~(kind = "delete" /\ Busy("publish"))
      BY <1>3 DEF Start
    <2> QED BY <1>1, <2>2, <2>3
  <1>4. ASSUME NEW i \in Instances, NEW t \in Tags, Expire(i, t)
        PROVE  UNCHANGED call
    BY <1>4 DEF Expire
  <1>5. CASE UNCHANGED call
    BY <1>1, <1>5 DEF Busy
  <1>6. CASE UNCHANGED vars
    BY <1>5, <1>6 DEF vars
  <1> QED BY <1>1, <1>2, <1>3, <1>4, <1>5, <1>6 DEF Next

\* A call that takes its next step has all it held; one that ends is at no step.
Carries(q, r) ==
    /\ q.kind = r.kind /\ q.end = r.end /\ q.tag = r.tag /\ q.m = r.m /\ q.tags = r.tags
    /\ q.live = r.live /\ q.files = r.files /\ q.keep = r.keep /\ q.found = r.found
    /\ q.steady = r.steady

\* A call that goes on is at the step that follows with all it held, or has ended
\* at a last step.
LEMMA GoesTo ==
    ASSUME CallsTyped, NEW c \in Clients, NEW r, Ready(r), Goes(c, r)
    PROVE  /\ \A step : On(call'[c], step) =>
                 step \in After(Head(r.plan)) /\ Carries(call'[c], r)
           /\ Len(r.plan) = 1 <=> call'[c].plan = <<>>
           /\ call'[c].plan = <<>> => call'[c] = Ended(r, "ok") /\ Head(r.plan) \in Final
  <1>1. r \in CallType /\ r.kind \in Kinds /\ Planned(r.kind, r.plan) /\ r.plan # <<>>
    BY DEF Ready, CallType
  <1>2. CASE Len(r.plan) = 1
    <2>1. call'[c] = Ended(r, "ok")
      BY <1>2 DEF Goes, Stays, CallsTyped
    <2>2. Ended(r, "ok").plan = <<>>
      BY <1>1, EndedOK
    <2>3. Head(r.plan) \in Final
      BY <1>1, <1>2, PlannedTail
    <2> QED BY <1>2, <2>1, <2>2, <2>3 DEF On
  <1>3. CASE Len(r.plan) # 1
    <2> DEFINE q == [r EXCEPT !.plan = Tail(@)]
    <2>1. call'[c] = q
      BY <1>3 DEF Goes, Stays, CallsTyped
    <2>2. q.plan # <<>> /\ Head(q.plan) \in After(Head(r.plan))
      BY <1>3, NextOK
    <2>3. Carries(q, r)
      BY <1>1 DEF CallType, Carries
    <2> HIDE DEF q
    <2> QED BY <1>3, <2>1, <2>2, <2>3 DEF On
  <1> QED BY <1>2, <1>3

\* A call that ends is at no step.
LEMMA EndsTo ==
    ASSUME CallsTyped, NEW c \in Clients, NEW how \in {"ok", "error", "kept"}, Ends(c, how)
    PROVE  /\ call'[c] = Ended(call[c], how) /\ call'[c].plan = <<>> /\ call'[c].end = how
           /\ \A step : ~On(call'[c], step)
  <1>1. call[c] \in CallType /\ call'[c] = Ended(call[c], how)
    BY DEF CallsTyped, Ends, Stays
  <1> QED BY <1>1, EndedOK DEF On

\* A publish or a delete goes on after the write of its tag if the write reported
\* success.
LEMMA WroteTo ==
    ASSUME CallsTyped, NEW c \in Clients, NEW step \in {"put ref", "drop ref"}, At(c, step), NEW o, NEW t,
           call' = Changed([call EXCEPT ![c] = Wrote(c, o)], t)
    PROVE  /\ \A next : On(call'[c], next) =>
                 o = "ok" /\ next \in After(step) /\ call'[c].m = call[c].m /\ call'[c].live = call[c].live
           /\ o = "ok" => call'[c].plan # <<>>
  <1>1. Ready(call[c]) /\ call[c] \in CallType /\ Head(call[c].plan) = step
    BY StillReady DEF At
  <1>2. Len(call[c].plan) # 1
    <2>1. step \notin Final
      BY DEF Final
    <2> QED BY <1>1, <2>1, PlannedTail DEF Ready, CallType
  <1>3. Same(call'[c], Wrote(c, o))
    BY <1>1, <1>2, WroteTyped
  <1>4. CASE o = "ok"
    <2> DEFINE q == [call[c] EXCEPT !.plan = Tail(@)]
    <2>1. q.plan # <<>> /\ Head(q.plan) \in After(step)
      BY <1>1, <1>2, NextOK
    <2>2. Same(call'[c], q)
      BY <1>3, <1>4 DEF Wrote
    <2>3. q.m = call[c].m /\ q.live = call[c].live
      BY <1>1 DEF CallType
    <2> HIDE DEF q
    <2> QED BY <1>4, <2>1, <2>2, <2>3 DEF Same, On
  <1>5. CASE o # "ok"
    <2>1. Same(call'[c], Ended(call[c], "error"))
      BY <1>3, <1>5 DEF Wrote
    <2>2. Ended(call[c], "error").plan = <<>>
      BY <1>1, EndedOK
    <2> QED BY <1>5, <2>1, <2>2 DEF Same, On
  <1> QED BY <1>4, <1>5

-----------------------------------------------------------------------------
(* The cache of the writer                                                   *)

\* The steps of a publish or a delete up to the write of the cache.
TouchSteps == {"put files", "put manifest", "put ref", "cache ref", "find ref", "drop ref",
               "forget ref"}

Touching(r, t) == r.plan # <<>> /\ Head(r.plan) \in TouchSteps /\ r.tag = t

\* Where the tag is settled nobody is about to write it, and what the instance
\* is about to cache is what storage holds.
Rested(t, i) ==
    /\ refCache[i][t] \in {None, refs[t]}
    /\ \A d \in Clients : ~Touching(call[d], t)
    /\ \A d \in Clients :
          On(call[d], "fill") /\ call[d].tag = t /\ call[d].at = i => call[d].m = refs[t]

\* A client that has the tag to itself finds in storage what it wrote.
Claimed(t, c) ==
    Touching(call[c], t) =>
        /\ \A d \in Clients \ {c} : ~Touching(call[d], t)
        /\ \A d \in Clients : ~Resolving(call[d], call[c].at, t)
        /\ On(call[c], "cache ref") => refs[t] = call[c].m
        /\ On(call[c], "forget ref") => refs[t] = None

Owned(t) ==
    /\ \A i \in Instances : settled[t] = i => Rested(t, i)
    /\ \A c \in Clients : settled[t] = c => Claimed(t, c)

Owning == \A t \in Tags : Owned(t)

\* What a step may do to a call without disturbing who owns the tag.
Follows(d, t) ==
    /\ Touching(call'[d], t) => Touching(call[d], t) /\ call'[d].at = call[d].at
    /\ \A i \in Instances : Resolving(call'[d], i, t) => Resolving(call[d], i, t)
    /\ On(call'[d], "fill") /\ call'[d].tag = t =>
          \/ call'[d].m = refs[t]
          \/ /\ On(call[d], "fill") /\ call[d].tag = t
             /\ call'[d].at = call[d].at /\ call'[d].m = call[d].m
    /\ On(call'[d], "cache ref") => On(call[d], "cache ref") /\ call'[d].m = call[d].m
    /\ On(call'[d], "forget ref") => On(call[d], "forget ref")

\* A call of another client, which the step leaves alone, follows.
LEMMA SameFollows ==
    ASSUME NEW d \in Clients, Same(call'[d], call[d]), NEW t
    PROVE  Follows(d, t)
  BY DEF Same, Follows, Touching, Resolving, On

\* A step that leaves the tag as it is, caches nothing else of it and lets every
\* call follow leaves the tag owned.
LEMMA OwnedFrame ==
    ASSUME Typed, NEW t \in Tags, Owned(t), settled'[t] = settled[t], refs'[t] = refs[t],
           \A i \in Instances : settled[t] = i => refCache'[i][t] \in {None, refs[t]},
           \A d \in Clients : Follows(d, t)
    PROVE  Owned(t)'
  <1>1. ASSUME NEW i \in Instances, settled[t] = i
        PROVE  Rested(t, i)'
    <2>1. Rested(t, i)
      BY <1>1 DEF Owned
    <2>2. refCache'[i][t] \in {None, refs'[t]}
      BY <1>1
    <2>3. \A d \in Clients : ~Touching(call'[d], t)
      BY <2>1 DEF Rested, Follows
    <2>4. ASSUME NEW d \in Clients, On(call'[d], "fill"), call'[d].tag = t, call'[d].at = i
          PROVE  call'[d].m = refs'[t]
      BY <2>1, <2>4 DEF Rested, Follows
    <2> QED BY <2>2, <2>3, <2>4 DEF Rested
  <1>2. ASSUME NEW c \in Clients, settled[t] = c, Touching(call'[c], t)
        PROVE  /\ \A d \in Clients \ {c} : ~Touching(call'[d], t)
               /\ \A d \in Clients : ~Resolving(call'[d], call'[c].at, t)
               /\ On(call'[c], "cache ref") => refs'[t] = call'[c].m
               /\ On(call'[c], "forget ref") => refs'[t] = None
    <2>1. Claimed(t, c) /\ Touching(call[c], t) /\ call'[c].at = call[c].at
      BY <1>2 DEF Owned, Follows
    <2>2. call[c].at \in Instances
      BY <2>1 DEF Typed, CallsTyped, CallOK, Touching
    <2> QED BY <2>1, <2>2 DEF Claimed, Follows
  <1> QED BY <1>1, <1>2 DEF Owned, Claimed

\* A call that takes a step of its plan without leaving its tag and its instance.
Advances(c) ==
    call'[c].plan # <<>> =>
        /\ call'[c].at = call[c].at /\ call'[c].tag = call[c].tag
        /\ call'[c].plan \in {call[c].plan, Tail(call[c].plan)}

\* A call that ends advances.
LEMMA EndsAdvances ==
    ASSUME CallsTyped, NEW c \in Clients, NEW how \in {"ok", "error", "kept"}, Ends(c, how)
    PROVE  Advances(c)
  BY EndsTo DEF Advances

\* A call that goes on with its record changed elsewhere advances.
LEMMA GoesAdvances ==
    ASSUME CallsTyped, NEW c \in Clients, NEW r, r \in CallType, Goes(c, r),
           r.at = call[c].at, r.tag = call[c].tag, r.plan = call[c].plan
    PROVE  Advances(c)
  <1>1. CASE Len(r.plan) = 1
    <2>1. call'[c] = Ended(r, "ok")
      BY <1>1 DEF Goes, Stays, CallsTyped
    <2> QED BY <2>1, EndedOK DEF Advances
  <1>2. CASE Len(r.plan) # 1
    <2> DEFINE q == [r EXCEPT !.plan = Tail(@)]
    <2>1. call'[c] = q
      BY <1>2 DEF Goes, Stays, CallsTyped
    <2>2. q.at = r.at /\ q.tag = r.tag /\ q.plan = Tail(r.plan)
      BY DEF CallType
    <2> HIDE DEF q
    <2> QED BY <2>1, <2>2 DEF Advances
  <1> QED BY <1>1, <1>2

\* A call that stays at its step with its record changed elsewhere advances.
LEMMA StaysAdvances ==
    ASSUME CallsTyped, NEW c \in Clients, NEW r, Stays(c, r),
           r.at = call[c].at, r.tag = call[c].tag, r.plan = call[c].plan
    PROVE  Advances(c)
  <1>1. call'[c] = r
    BY DEF Stays, CallsTyped
  <1> QED BY <1>1 DEF Advances

\* Behind its last step nothing of a plan is left.
LEMMA TailOfOne ==
    ASSUME NEW p \in Seq(Steps), p # <<>>, Len(p) = 1
    PROVE  Tail(p) = <<>>
  <1>1. Tail(p) \in Seq(Steps) /\ Len(Tail(p)) = 0
    BY HeadTailProperties
  <1> QED BY <1>1, EmptySeq

\* A call that advances past a step of no write of the cache touches only what it
\* touched, and is at no step where it knows what storage must hold.
LEMMA AdvancesFollows ==
    ASSUME Typed, NEW c \in Clients, NEW step \in Steps, At(c, step), Advances(c), Moved(c),
           step \notin {"put ref", "drop ref", "cache ref", "forget ref", "fill"}, NEW t
    PROVE  Follows(c, t)
  <1>1. /\ call[c].plan # <<>> /\ Head(call[c].plan) = step /\ call[c].kind \in Kinds
        /\ Planned(call[c].kind, call[c].plan)
    BY AtFacts DEF Typed
  <1>2. call'[c].plan # <<>> =>
           /\ call'[c].at = call[c].at /\ call'[c].tag = call[c].tag
           /\ Head(call'[c].plan) = step \/ Head(call'[c].plan) \in After(step)
    <2>1. Tail(call[c].plan) # <<>> => Head(Tail(call[c].plan)) \in After(step)
      <3>1. Len(call[c].plan) = 1 => Tail(call[c].plan) = <<>>
        BY <1>1, TailOfOne DEF Planned
      <3> QED BY <1>1, <3>1, PlannedTail
    <2> QED BY <1>1, <2>1 DEF Advances
  <1>3. /\ \A next \in After(step) : next \notin {"cache ref", "forget ref", "fill"}
        /\ \A next \in After(step) : next \in TouchSteps => step \in TouchSteps
    BY DEF After, Steps, TouchSteps
  <1>4. call'[c].kind = call[c].kind
    BY DEF Moved
  <1> QED BY <1>1, <1>2, <1>3, <1>4 DEF Follows, Touching, Resolving, On

\* The write of a tag leaves the call at the write of the cache, with what storage
\* now holds, or at its end.
LEMMA WriteAdvances ==
    ASSUME Typed, NEW c \in Clients, PutRef(c) \/ DropRef(c)
    PROVE  /\ Moved(c) /\ UNCHANGED <<refCache, settled>>
           /\ call[c].tag \in Tags /\ Touching(call[c], call[c].tag)
           /\ \A t \in Tags : t # call[c].tag => refs'[t] = refs[t]
           /\ Advances(c)
           /\ \A next : On(call'[c], next) => next \in {"cache ref", "forget ref"}
           /\ On(call'[c], "cache ref") => refs'[call[c].tag] = call'[c].m
           /\ On(call'[c], "forget ref") => refs'[call[c].tag] = None
  <1>1. CallsTyped /\ StoreTyped /\ Moved(c)
    BY StepFrame DEF Typed, Step, Publishing, Deleting
  <1>2. PICK step \in {"put ref", "drop ref"} :
          At(c, step) /\ (step = "put ref" <=> PutRef(c)) /\ (step = "drop ref" <=> DropRef(c))
    BY DEF PutRef, DropRef, At
  <1> DEFINE u == call[c].tag
  <1>3. /\ Ready(call[c]) /\ call[c] \in CallType /\ u \in Tags /\ Head(call[c].plan) = step
        /\ call[c].plan # <<>>
    BY <1>1, <1>2, StillReady DEF At
  <1>4. Touching(call[c], u)
    BY <1>3 DEF Touching, TouchSteps
  <1>5. UNCHANGED <<refCache, settled>>
    BY DEF PutRef, DropRef, caches, history
  <1>6. \/ refs' = refs /\ Ends(c, "error")
        \/ \E o : /\ refs' = [refs EXCEPT ![u] = IF step = "put ref" THEN call[c].m ELSE None]
                  /\ call' = Changed([call EXCEPT ![c] = Wrote(c, o)], u)
    BY <1>2 DEF PutRef, DropRef
  <1>7. CASE refs' = refs /\ Ends(c, "error")
    <2>1. Advances(c) /\ \A next : ~On(call'[c], next)
      BY <1>1, <1>7, EndsTo, EndsAdvances
    <2> QED BY <1>1, <1>3, <1>4, <1>5, <1>7, <2>1
  <1>8. ASSUME NEW o, refs' = [refs EXCEPT ![u] = IF step = "put ref" THEN call[c].m ELSE None],
               call' = Changed([call EXCEPT ![c] = Wrote(c, o)], u)
        PROVE  /\ \A t \in Tags : t # u => refs'[t] = refs[t]
               /\ Advances(c)
               /\ \A next : On(call'[c], next) => next \in {"cache ref", "forget ref"}
               /\ On(call'[c], "cache ref") => refs'[u] = call'[c].m
               /\ On(call'[c], "forget ref") => refs'[u] = None
    <2>1. /\ \A t \in Tags : t # u => refs'[t] = refs[t]
          /\ refs'[u] = IF step = "put ref" THEN call[c].m ELSE None
      BY <1>1, <1>3, <1>8 DEF StoreTyped
    <2>2. \A next : On(call'[c], next) => next \in After(step) /\ call'[c].m = call[c].m
      BY <1>1, <1>2, <1>8, WroteTo
    <2>3. After(step) = IF step = "put ref" THEN {"cache ref"} ELSE {"forget ref"}
      BY <1>2 DEF After
    <2>4. Same(call'[c], Wrote(c, o))
      <3>1. step \notin Final
        BY <1>2 DEF Final
      <3>2. Len(call[c].plan) # 1
        BY <1>3, <3>1, PlannedTail DEF Ready, CallType
      <3> QED BY <1>1, <1>3, <1>8, <3>2, WroteTyped
    <2>5. Advances(c)
      <3>1. CASE o = "ok"
        <4> DEFINE q == [call[c] EXCEPT !.plan = Tail(@)]
        <4>1. q.at = call[c].at /\ q.tag = call[c].tag /\ q.plan = Tail(call[c].plan)
          BY <1>3 DEF CallType
        <4>2. Same(call'[c], q)
          BY <2>4, <3>1 DEF Wrote
        <4> HIDE DEF q
        <4> QED BY <4>1, <4>2 DEF Same, Advances
      <3>2. CASE o # "ok"
        <4>1. Wrote(c, o).plan = <<>>
          BY <1>3, <3>2, EndedOK DEF Wrote
        <4> QED BY <2>4, <4>1 DEF Same, Advances
      <3> QED BY <3>1, <3>2
    <2>6. CASE step = "put ref"
      <3>1. After(step) = {"cache ref"}
        BY <2>3, <2>6
      <3>2. \A next : On(call'[c], next) => next = "cache ref" /\ call'[c].m = call[c].m
        BY <2>2, <3>1
      <3>3. ASSUME On(call'[c], "forget ref")
            PROVE  FALSE
        <4>1. "forget ref" = "cache ref"
          BY <3>2, <3>3, Zenon
        <4> QED BY <4>1
      <3>4. refs'[u] = call[c].m
        BY <2>1, <2>6
      <3> HIDE DEF u
      <3> QED BY <2>1, <2>5, <3>2, <3>3, <3>4
    <2>7. CASE step # "put ref"
      <3>1. After(step) = {"forget ref"}
        BY <2>3, <2>7
      <3>2. \A next : On(call'[c], next) => next = "forget ref"
        BY <2>2, <3>1
      <3>3. ASSUME On(call'[c], "cache ref")
            PROVE  FALSE
        <4>1. "cache ref" = "forget ref"
          BY <3>2, <3>3, Zenon
        <4> QED BY <4>1
      <3>4. refs'[u] = None
        BY <2>1, <2>7
      <3> HIDE DEF u
      <3> QED BY <2>1, <2>5, <3>2, <3>3, <3>4
    <2> QED BY <2>6, <2>7
  <1> QED BY <1>1, <1>3, <1>4, <1>5, <1>6, <1>7, <1>8

\* Every other step of a publish or a delete advances.
LEMMA WritersAdvance ==
    ASSUME Typed, NEW c \in Clients, Publishing(c) \/ Deleting(c), ~PutRef(c), ~DropRef(c)
    PROVE  Advances(c)
  <1>1. CallsTyped /\ call[c] \in CallType
    BY DEF Typed, CallsTyped
  <1>2. CASE PutFile(c)
    <2>1. PICK f \in NextFile(c), o \in Outcomes :
            LET r == [call[c] EXCEPT !.files = @ \ {f}] IN
            CASE o # "ok" -> Ends(c, "error")
              [] o = "ok" /\ r.files = {} -> Goes(c, r)
              [] OTHER -> Stays(c, r)
      BY <1>2 DEF PutFile
    <2> DEFINE r == [call[c] EXCEPT !.files = @ \ {f}]
    <2>2. r \in CallType /\ r.at = call[c].at /\ r.tag = call[c].tag /\ r.plan = call[c].plan
      BY <1>1 DEF CallType
    <2>3. Ends(c, "error") \/ Goes(c, r) \/ Stays(c, r)
      BY <2>1
    <2> HIDE DEF r
    <2> QED BY <1>1, <2>2, <2>3, EndsAdvances, GoesAdvances, StaysAdvances
  <1>3. CASE PutManifest(c) \/ DropBlobs(c) \/ DropManifest(c)
    <2>1. Goes(c, call[c]) \/ Ends(c, "error")
      BY <1>3 DEF PutManifest, DropBlobs, DropManifest, GoesIf
    <2> QED BY <1>1, <2>1, EndsAdvances, GoesAdvances
  <1>4. CASE CacheRef(c) \/ ForgetRef(c) \/ RefsRead(c) \/ LiveRead(c)
    <2>1. Goes(c, call[c]) \/ Ends(c, "kept")
      BY <1>4 DEF CacheRef, ForgetRef, RefsRead, LiveRead
    <2> QED BY <1>1, <2>1, EndsAdvances, GoesAdvances
  <1>5. CASE FindRef(c)
    <2> DEFINE r == [call[c] EXCEPT !.m = refs[call[c].tag]]
    <2>1. Ends(c, "error") \/ Goes(c, r)
      BY <1>5 DEF FindRef
    <2>2. refs[call[c].tag] \in Manifests \cup {None}
      <3>1. call[c].tag \in Tags
        BY <1>1, <1>5, AtFacts DEF FindRef
      <3> QED BY <3>1 DEF Typed, StoreTyped
    <2>3. r \in CallType /\ r.at = call[c].at /\ r.tag = call[c].tag /\ r.plan = call[c].plan
      BY <1>1, <2>2 DEF CallType
    <2> HIDE DEF r
    <2> QED BY <1>1, <2>1, <2>3, EndsAdvances, GoesAdvances
  <1>6. CASE ListRefs(c)
    <2> DEFINE r == [call[c] EXCEPT !.tags = Tagged]
    <2>1. Ends(c, "error") \/ Goes(c, r)
      BY <1>6 DEF ListRefs
    <2>2. r \in CallType /\ r.at = call[c].at /\ r.tag = call[c].tag /\ r.plan = call[c].plan
      BY <1>1 DEF CallType, Tagged
    <2> HIDE DEF r
    <2> QED BY <1>1, <2>1, <2>2, EndsAdvances, GoesAdvances
  <1>7. CASE ReadRef(c)
    <2>1. PICK t \in call[c].tags, o \in {"ok", "lost"} :
            Stays(c, [call[c] EXCEPT
                !.tags = @ \ {t},
                !.live = IF o = "ok" THEN @ \cup ({refs[t]} \ {None}) ELSE @])
      BY <1>7 DEF ReadRef
    <2> DEFINE r == [call[c] EXCEPT
                !.tags = @ \ {t},
                !.live = IF o = "ok" THEN @ \cup ({refs[t]} \ {None}) ELSE @]
    <2>2. Stays(c, r) /\ r.at = call[c].at /\ r.tag = call[c].tag /\ r.plan = call[c].plan
      BY <1>1, <2>1 DEF CallType
    <2> HIDE DEF r
    <2> QED BY <1>1, <2>2, StaysAdvances
  <1>8. CASE ReadOrphan(c)
    <2>1. PICK o \in {"ok", "lost"} :
            Goes(c, [call[c] EXCEPT
                !.files = IF o = "ok" /\ call[c].m \in manifests THEN FilesOf[call[c].m] ELSE {}])
      BY <1>8 DEF ReadOrphan
    <2> DEFINE r == [call[c] EXCEPT
                !.files = IF o = "ok" /\ call[c].m \in manifests THEN FilesOf[call[c].m] ELSE {}]
    <2>2. call[c].m \in manifests => FilesOf[call[c].m] \subseteq Files
      BY ManifestsAssumption DEF Typed, StoreTyped
    <2>3. /\ r \in CallType /\ r.at = call[c].at /\ r.tag = call[c].tag /\ r.plan = call[c].plan
          /\ Goes(c, r)
      BY <1>1, <2>1, <2>2 DEF CallType
    <2> HIDE DEF r
    <2> QED BY <1>1, <2>3, GoesAdvances
  <1>9. CASE ReadLive(c)
    <2>1. PICK m \in call[c].live, o \in {"ok", "lost"} :
            Stays(c, [call[c] EXCEPT
                !.live = @ \ {m},
                !.keep = IF o = "ok" /\ m \in manifests THEN @ \cup FilesOf[m] ELSE @])
      BY <1>9 DEF ReadLive
    <2> DEFINE r == [call[c] EXCEPT
                !.live = @ \ {m},
                !.keep = IF o = "ok" /\ m \in manifests THEN @ \cup FilesOf[m] ELSE @]
    <2>2. Stays(c, r) /\ r.at = call[c].at /\ r.tag = call[c].tag /\ r.plan = call[c].plan
      BY <1>1, <2>1 DEF CallType
    <2> HIDE DEF r
    <2> QED BY <1>1, <2>2, StaysAdvances
  <1> QED BY <1>2, <1>3, <1>4, <1>5, <1>6, <1>7, <1>8, <1>9 DEF Publishing, Deleting

\* A step put in front of a plan is its head.
LEMMA HeadOfJoin ==
    ASSUME NEW p \in Seq(Steps), NEW step \in Steps
    PROVE  Head(<<step>> \o p) = step
  <1> DEFINE q == <<step>> \o p
  <1>1. <<step>> \in Seq(Steps) /\ Len(<<step>>) = 1 /\ <<step>>[1] = step /\ Len(p) \in Nat
    OBVIOUS
  <1>2. /\ q \in Seq(Steps) /\ Len(q) = 1 + Len(p)
        /\ 1 \in 1..1 + Len(p) => q[1] = step
    BY <1>1, ConcatProperties
  <1> HIDE DEF q
  <1>3. 1 \in 1..1 + Len(p) /\ 1 + Len(p) # 0
    BY <1>1
  <1>4. q # <<>>
    BY <1>2, <1>3, EmptySeq
  <1>5. Head(q) = step
    BY <1>2, <1>3, <1>4, HeadIsFirst
  <1> QED BY <1>5 DEF q

\* A load that goes on stays at its tag and its instance, and comes to cache only
\* what it has just read from storage.
LEMMA LoadingFollows ==
    ASSUME Typed, NEW c \in Clients, Loading(c), NEW t
    PROVE  Follows(c, t)
  <1>1. CallsTyped /\ call[c] \in CallType /\ Moved(c) /\ Typed' /\ call[c].plan # <<>>
    BY StepFrame DEF Typed, CallsTyped, Step
  <1>2. PICK step \in {"resolve", "fill", "manifest", "entry", "hydrate", "scan", "info",
                       "describe"} : At(c, step)
    BY StepsAt
  <1>3. step \in Steps
    BY DEF Steps
  <1>4. ASSUME Advances(c), step # "fill"
        PROVE  Follows(c, t)
    BY <1>1, <1>2, <1>3, <1>4, AdvancesFollows
  <1>5. call[c].kind \in Kinds /\ call[c].kind \notin {"publish", "delete"} /\ call'[c].kind = call[c].kind
    BY <1>1, KindsOfSteps DEF CallType, Moved
  <1>6. \A next : On(call'[c], next) =>
           next \notin {"cache ref", "forget ref"} /\ next \notin TouchSteps
    <2>1. ASSUME NEW next, On(call'[c], next)
          PROVE  call'[c].kind \in Kinds /\ next \in StepsOf(call'[c].kind)
      <3>1. CallOK(call'[c]) /\ call'[c] \in CallType
        BY <1>1 DEF Typed, CallsTyped
      <3>2. call'[c].kind \in Kinds /\ Planned(call'[c].kind, call'[c].plan)
        BY <3>1 DEF CallOK, CallType
      <3> QED BY <2>1, <3>2, PlannedTail DEF On
    <2> QED BY <1>5, <2>1, KindOfStep DEF TouchSteps
  <1>7. ASSUME call'[c].plan # <<>> => call'[c].at = call[c].at /\ call'[c].tag = call[c].tag,
               On(call'[c], "fill") => call'[c].m = refs[call[c].tag]
        PROVE  Follows(c, t)
    BY <1>1, <1>5, <1>6, <1>7 DEF Follows, Touching, Resolving, On
  <1>8. CASE Resolve(c)
    <2>1. At(c, "resolve")
      BY <1>8 DEF Resolve
    <2> DEFINE u == call[c].tag  hit == refCache[Host(c)][u]
               r == [call[c] EXCEPT !.m = hit]
               q == [call[c] EXCEPT !.m = refs[u], !.plan = <<"fill">> \o Tail(@)]
    <2>2. Ends(c, "error") \/ Goes(c, r) \/ Stays(c, q)
      BY <1>8 DEF Resolve
    <2>3. hit \in Manifests \cup {None}
      <3>1. u \in Tags /\ Host(c) \in Instances
        BY <1>1, <2>1, AtFacts
      <3> QED BY <3>1 DEF Typed, StoreTyped
    <2>4. r \in CallType /\ r.at = call[c].at /\ r.tag = call[c].tag /\ r.plan = call[c].plan
      BY <1>1, <2>3 DEF CallType
    <2>5. q.at = call[c].at /\ q.tag = call[c].tag /\ q.m = refs[u]
      BY <1>1 DEF CallType
    <2>6. Stays(c, q) => call'[c] = q
      BY <1>1 DEF Stays, CallsTyped
    <2>7. step # "fill"
      BY <1>2, <2>1 DEF At
    <2> HIDE DEF r, q
    <2>8. Stays(c, q) => Follows(c, t)
      BY <1>7, <2>5, <2>6
    <2> QED BY <1>1, <1>4, <2>2, <2>4, <2>7, <2>8, EndsAdvances, GoesAdvances
  <1>9. CASE FillRefCache(c)
    <2>1. Goes(c, call[c]) \/ Ends(c, "error")
      BY <1>9 DEF FillRefCache, GoesIf
    <2>2. Advances(c)
      BY <1>1, <2>1, EndsAdvances, GoesAdvances
    <2>3. At(c, "fill")
      BY <1>9 DEF FillRefCache
    <2>4. ~On(call'[c], "fill")
      <3>1. CASE Ends(c, "error")
        BY <1>1, <3>1, EndsTo
      <3>2. CASE Goes(c, call[c])
        <4>1. Ready(call[c]) /\ Head(call[c].plan) = "fill"
          BY <1>1, <2>3, StillReady DEF At
        <4>2. \A next : On(call'[c], next) => next \in After("fill")
          BY <1>1, <3>2, <4>1, GoesTo
        <4> QED BY <4>2 DEF After
      <3> QED BY <2>1, <3>1, <3>2
    <2> QED BY <1>7, <2>2, <2>4 DEF Advances
  <1>10. CASE LoadManifest(c)
    <2> DEFINE r == [call[c] EXCEPT !.files = FilesOf[call[c].m]]
    <2>1. Goes(c, r) \/ Ends(c, "error")
      BY <1>10 DEF LoadManifest
    <2>2. At(c, "manifest")
      BY <1>10 DEF LoadManifest
    <2>3. call[c].m \in Manifests
      BY <1>1, <2>2, Resolved DEF Steps
    <2>4. FilesOf[call[c].m] \subseteq Files
      BY <2>3, ManifestsAssumption
    <2>5. r \in CallType /\ r.at = call[c].at /\ r.tag = call[c].tag /\ r.plan = call[c].plan
      BY <1>1, <2>4 DEF CallType
    <2>6. step # "fill"
      BY <1>2, <2>2 DEF At
    <2> HIDE DEF r
    <2> QED BY <1>1, <1>4, <2>1, <2>5, <2>6, EndsAdvances, GoesAdvances
  <1>11. CASE LoadEntrypoint(c) \/ Described(c)
    <2>1. Goes(c, call[c]) \/ Ends(c, "error")
      BY <1>11 DEF LoadEntrypoint, Described, GoesIf
    <2>2. step # "fill"
      BY <1>2, <1>11 DEF LoadEntrypoint, Described, At
    <2> QED BY <1>1, <1>4, <2>1, <2>2, EndsAdvances, GoesAdvances
  <1>12. CASE HydrateFile(c)
    <2>1. PICK f \in call[c].files, o \in {"ok", "lost"} :
            LET r == [call[c] EXCEPT !.files = @ \ {f}] IN
            CASE ~Got(c, f) -> Ends(c, "error")
              [] Got(c, f) /\ r.files = {} -> Goes(c, r)
              [] OTHER -> Stays(c, r)
      BY <1>12 DEF HydrateFile
    <2> DEFINE r == [call[c] EXCEPT !.files = @ \ {f}]
    <2>2. r \in CallType /\ r.at = call[c].at /\ r.tag = call[c].tag /\ r.plan = call[c].plan
      BY <1>1 DEF CallType
    <2>3. Ends(c, "error") \/ Goes(c, r) \/ Stays(c, r)
      BY <2>1
    <2>4. step # "fill"
      BY <1>2, <1>12 DEF HydrateFile, At
    <2> HIDE DEF r
    <2> QED BY <1>1, <1>4, <2>2, <2>3, <2>4, EndsAdvances, GoesAdvances, StaysAdvances
  <1>13. CASE Scan(c)
    <2> DEFINE r == [call[c] EXCEPT !.tags = {v \in Tagged : v[1] \in InScope(c)}]
    <2>1. Ends(c, "error") \/ Goes(c, r)
      BY <1>13 DEF Scan
    <2>2. r \in CallType /\ r.at = call[c].at /\ r.tag = call[c].tag /\ r.plan = call[c].plan
      <3>1. {v \in Tagged : v[1] \in InScope(c)} \subseteq Tags
        BY DEF Tagged
      <3> HIDE DEF Tagged
      <3> QED BY <1>1, <3>1 DEF CallType
    <2>3. step # "fill"
      BY <1>2, <1>13 DEF Scan, At
    <2> HIDE DEF r
    <2> QED BY <1>1, <1>4, <2>1, <2>2, <2>3, EndsAdvances, GoesAdvances
  <1>14. CASE ReadPreferred(c)
    <2>1. PICK n \in {v[1] : v \in call[c].tags} :
            LET m == refs[Preferred(call[c].tags, n)]
                r == [call[c] EXCEPT !.tags = {v \in @ : v[1] # n}]
            IN \/ Stays(c, [r EXCEPT !.m = m, !.live = {n}, !.plan = <<"describe">> \o @])
               \/ Stays(c, r) \/ Ends(c, "error")
      BY <1>14 DEF ReadPreferred, SkipOrFail
    <2> DEFINE m == refs[Preferred(call[c].tags, n)]
               r == [call[c] EXCEPT !.tags = {v \in @ : v[1] # n}]
               q == [r EXCEPT !.m = m, !.live = {n}, !.plan = <<"describe">> \o @]
    <2>2. /\ r.at = call[c].at /\ r.tag = call[c].tag /\ r.plan = call[c].plan
          /\ q.at = call[c].at /\ q.tag = call[c].tag /\ q.plan = <<"describe">> \o call[c].plan
      BY <1>1 DEF CallType
    <2>3. Stays(c, q) \/ Stays(c, r) \/ Ends(c, "error")
      BY <2>1
    <2>4. step = "info"
      BY <1>2, <1>14 DEF ReadPreferred, At
    <2> HIDE DEF q, r, m
    <2>5. CASE Stays(c, q)
      <3>1. call'[c] = q
        BY <1>1, <2>5 DEF Stays, CallsTyped
      <3>2. Head(q.plan) = "describe"
        <4>1. call[c].plan \in Seq(Steps) /\ "describe" \in Steps
          BY <1>1 DEF CallType, Steps
        <4> QED BY <2>2, <4>1, HeadOfJoin
      <3>3. ~On(call'[c], "fill")
        BY <3>1, <3>2 DEF On
      <3> QED BY <1>7, <2>2, <3>1, <3>3
    <2> QED BY <1>1, <1>4, <2>2, <2>3, <2>4, <2>5, EndsAdvances, StaysAdvances
  <1>15. CASE Describe(c)
    <2> DEFINE r == [call[c] EXCEPT !.plan = Tail(@), !.live = {}]
               q == [r EXCEPT !.found = @ \cup call[c].live]
    <2>1. Stays(c, q) \/ Stays(c, r) \/ Ends(c, "error")
      BY <1>15 DEF Describe, SkipOrFail
    <2>2. /\ r.at = call[c].at /\ r.tag = call[c].tag /\ r.plan = Tail(call[c].plan)
          /\ q.at = call[c].at /\ q.tag = call[c].tag /\ q.plan = Tail(call[c].plan)
      BY <1>1 DEF CallType
    <2>3. step # "fill"
      BY <1>2, <1>15 DEF Describe, At
    <2> HIDE DEF q, r
    <2>4. Stays(c, q) => call'[c] = q
      BY <1>1 DEF Stays, CallsTyped
    <2>5. Stays(c, r) => call'[c] = r
      BY <1>1 DEF Stays, CallsTyped
    <2>6. Advances(c)
      BY <1>1, <2>1, <2>2, <2>4, <2>5, EndsAdvances DEF Advances
    <2> QED BY <1>4, <2>3, <2>6
  <1> QED BY <1>8, <1>9, <1>10, <1>11, <1>12, <1>13, <1>14, <1>15 DEF Loading

\* The write of the cache by a call that has the tag to itself settles it.
LEMMA CachingOwns ==
    ASSUME Typed, Owning, NEW c \in Clients, CacheRef(c) \/ ForgetRef(c)
    PROVE  Owning'
  <1>1. PICK u, j, w : /\ u = call[c].tag /\ j = call[c].at
                       /\ w = IF CacheRef(c) THEN call[c].m ELSE None
    OBVIOUS
  <1>2. PICK step \in {"cache ref", "forget ref"} :
          At(c, step) /\ (CacheRef(c) <=> step = "cache ref") /\ (ForgetRef(c) <=> step = "forget ref")
    BY DEF CacheRef, ForgetRef, At
  <1>3. /\ CallsTyped /\ StoreTyped /\ Moved(c) /\ Ready(call[c]) /\ call[c] \in CallType
        /\ u \in Tags /\ j \in Instances /\ Head(call[c].plan) = step /\ call[c].plan # <<>>
    BY <1>1, <1>2, StepFrame, StillReady DEF Typed, Step, Publishing, Deleting, At, Host
  <1>4. Touching(call[c], u) /\ On(call[c], step)
    BY <1>1, <1>3 DEF Touching, TouchSteps, On
  <1>5. /\ refCache' = [refCache EXCEPT ![j][u] = w] /\ refs' = refs
        /\ settled' = [settled EXCEPT ![u] = IF settled[u] = c THEN j ELSE settled[u]]
        /\ Goes(c, call[c])
    BY <1>1, <1>2 DEF CacheRef, ForgetRef, Settle, stored, Host
  <1>6. \A next : On(call'[c], next) => next = "list refs"
    <2>1. \A next : On(call'[c], next) => next \in After(step)
      BY <1>3, <1>5, GoesTo
    <2>2. After(step) \subseteq {"list refs"}
      BY <1>2 DEF After
    <2> QED BY <2>1, <2>2
  <1>7. call[c].kind \in {"publish", "delete"} /\ call'[c].kind = call[c].kind
    <2>1. call[c].kind \in Kinds /\ step \in StepsOf(call[c].kind)
      BY <1>2, <1>3, AtFacts
    <2>2. call[c].kind \in {"publish", "delete"}
      BY <1>2, <2>1, KindOfStep
    <2> QED BY <1>3, <2>2 DEF Moved
  <1>8. \A t : Follows(c, t)
    BY <1>6, <1>7 DEF Follows, Touching, TouchSteps, Resolving, Resolves, On
  <1>9. \A t : \A d \in Clients : Follows(d, t)
    BY <1>3, <1>8, SameFollows DEF Moved
  <1>10. ASSUME NEW t \in Tags, t # u
        PROVE  Owned(t)'
    <2>1. settled'[t] = settled[t] /\ \A i \in Instances : refCache'[i][t] = refCache[i][t]
      BY <1>3, <1>5, <1>10 DEF StoreTyped
    <2>2. \A i \in Instances : settled[t] = i => refCache'[i][t] \in {None, refs[t]}
      BY <2>1 DEF Owning, Owned, Rested
    <2> QED BY <1>5, <1>9, <2>1, <2>2, OwnedFrame DEF Owning
  <1>11. Owned(u)
    BY <1>3 DEF Owning
  <1>12. ASSUME NEW i \in Instances, settled'[u] = i
         PROVE  Rested(u, i)'
    <2>1. settled[u] # i
      BY <1>4, <1>11 DEF Owned, Rested
    <2>2. settled[u] = c /\ i = j
      BY <1>3, <1>5, <1>12, <2>1 DEF StoreTyped
    <2>3. Claimed(u, c)
      BY <1>11, <2>2 DEF Owned
    <2>4. refs[u] = w
      <3>1. CASE step = "cache ref"
        BY <1>1, <1>2, <1>4, <2>3, <3>1 DEF Claimed
      <3>2. CASE step = "forget ref"
        BY <1>1, <1>2, <1>4, <2>3, <3>2 DEF Claimed
      <3> QED BY <1>2, <3>1, <3>2
    <2>5. refCache'[i][u] \in {None, refs'[u]}
      BY <1>3, <1>5, <2>2, <2>4 DEF StoreTyped
    <2>6. \A d \in Clients : ~Touching(call'[d], u)
      <3>1. ~Touching(call'[c], u)
        BY <1>6 DEF Touching, TouchSteps, On
      <3> QED BY <1>4, <1>9, <2>3, <3>1 DEF Claimed, Follows
    <2>7. ASSUME NEW d \in Clients, On(call'[d], "fill"), call'[d].tag = u, call'[d].at = i
          PROVE  FALSE
      <3>1. d # c
        BY <1>6, <2>7
      <3>2. Same(call'[d], call[d])
        BY <1>3, <3>1 DEF Moved
      <3>3. On(call[d], "fill") /\ call[d].tag = u /\ call[d].at = j
        BY <2>2, <2>7, <3>2 DEF Same, On
      <3>4. call[d].kind \in Kinds /\ "fill" \in StepsOf(call[d].kind)
        BY <1>3, <3>3, AtFacts DEF On, At
      <3>5. Resolves(call[d].kind)
        BY <3>4 DEF Kinds, StepsOf, Resolves
      <3>6. Resolving(call[d], call[c].at, u)
        BY <1>1, <3>3, <3>5 DEF Resolving, On
      <3> QED BY <1>4, <2>3, <3>6 DEF Claimed
    <2> QED BY <2>5, <2>6, <2>7 DEF Rested
  <1>13. ASSUME NEW e \in Clients, settled'[u] = e
         PROVE  Claimed(u, e)'
    <2>1. settled[u] = e /\ e # c
      BY <1>3, <1>5, <1>13, InstancesAssumption DEF StoreTyped
    <2>2. Claimed(u, e)
      BY <1>11, <2>1 DEF Owned
    <2>3. ~Touching(call[e], u)
      BY <1>4, <2>1, <2>2 DEF Claimed
    <2>4. ~Touching(call'[e], u)
      BY <1>9, <2>3 DEF Follows
    <2> QED BY <2>4 DEF Claimed
  <1>14. Owned(u)'
    BY <1>12, <1>13 DEF Owned
  <1> QED BY <1>10, <1>14 DEF Owning

\* A call that starts claims the tag it writes if nobody else is about it, and
\* takes it from a writer of its instance if it resolves it.
LEMMA StartOwns ==
    ASSUME Typed, Owning, NEW c \in Clients, NEW kind \in Offered, NEW u \in Tags, NEW m \in Manifests,
           Start(c, kind, u, m)
    PROVE  Owning'
  <1>1. PICK i0 \in Instances :
          /\ \E pin : call' = [call EXCEPT ![c] =
              [Idle EXCEPT !.kind = kind, !.plan = Plan(kind), !.at = i0, !.tag = u, !.pin = pin,
                           !.m = IF kind = "publish" THEN m ELSE None,
                           !.files = IF kind = "publish" THEN FilesOf[m] ELSE {},
                           !.steady = IF kind = "list" THEN Names ELSE {u[1]}]]
          /\ Claims(c, kind, i0, u)
    BY DEF Start
  <1>2. /\ CallsTyped /\ StoreTyped /\ kind \in Kinds
        /\ \A d \in Clients \ {c} : Same(call'[d], call[d])
        /\ call'[c].kind = kind /\ Head(call'[c].plan) \in {"find ref", "resolve", "scan", "put files"}
        /\ Head(call'[c].plan) \in StepsOf(kind)
    <2>1. CallsTyped /\ StoreTyped /\ kind \in Kinds
      BY LimitsAssumption DEF Typed
    <2>2. /\ call'[c].plan = Plan(kind) /\ call'[c].kind = kind
          /\ \A d \in Clients \ {c} : Same(call'[d], call[d])
          /\ Head(call'[c].plan) \in {"find ref", "resolve", "scan", "put files"}
      BY StartTyped
    <2>3. Head(Plan(kind)) \in StepsOf(kind)
      BY <2>1, PlanPlanned, PlannedTail
    <2> QED BY <2>1, <2>2, <2>3
  <1>3. call'[c].at = i0 /\ call'[c].tag = u
    <2>1. PICK pin : call' = [call EXCEPT ![c] =
              [Idle EXCEPT !.kind = kind, !.plan = Plan(kind), !.at = i0, !.tag = u, !.pin = pin,
                           !.m = IF kind = "publish" THEN m ELSE None,
                           !.files = IF kind = "publish" THEN FilesOf[m] ELSE {},
                           !.steady = IF kind = "list" THEN Names ELSE {u[1]}]]
      BY <1>1
    <2> DEFINE r == [Idle EXCEPT !.kind = kind, !.plan = Plan(kind), !.at = i0, !.tag = u, !.pin = pin,
                           !.m = IF kind = "publish" THEN m ELSE None,
                           !.files = IF kind = "publish" THEN FilesOf[m] ELSE {},
                           !.steady = IF kind = "list" THEN Names ELSE {u[1]}]
    <2>2. r.at = i0 /\ r.tag = u
      BY DEF Idle
    <2>3. call'[c] = r
      BY <1>2, <2>1 DEF CallsTyped
    <2> QED BY <2>2, <2>3
  <1>4. call[c].plan = <<>> /\ UNCHANGED <<refs, refCache>>
    BY DEF Start, stored, caches
  <1>5. /\ Writes(kind) => settled' = [settled EXCEPT ![u] =
                 IF \E d \in Clients : Writing(call[d], u) \/ Resolving(call[d], i0, u) THEN None ELSE c]
        /\ ~Writes(kind) => settled' = [settled EXCEPT ![u] =
                 IF Resolves(kind) /\ \E d \in Clients : settled[u] = d /\ Host(d) = i0
                 THEN None ELSE settled[u]]
    BY <1>1 DEF Claims
  <1>6. /\ \A step : On(call'[c], step) => step \notin {"cache ref", "forget ref", "fill"}
        /\ ~Writes(kind) => \A t : ~Touching(call'[c], t)
    <2>1. \A step : On(call'[c], step) => step \notin {"cache ref", "forget ref", "fill"}
      BY <1>2 DEF On
    <2>2. ~Writes(kind) => Head(call'[c].plan) \notin TouchSteps
      BY <1>2, KindOfStep DEF Writes, TouchSteps
    <2> QED BY <2>1, <2>2 DEF Touching
  <1>7. \A t : \A d \in Clients \ {c} : Follows(d, t)
    BY <1>2, SameFollows
  <1>8. ASSUME NEW t \in Tags, t # u
        PROVE  Owned(t)'
    <2>1. settled'[t] = settled[t]
      BY <1>2, <1>5, <1>8 DEF StoreTyped
    <2>2. Follows(c, t)
      BY <1>3, <1>6, <1>8 DEF Follows, Touching, Resolving
    <2>3. \A i \in Instances : settled[t] = i => refCache'[i][t] \in {None, refs[t]}
      BY <1>4 DEF Owning, Owned, Rested
    <2> QED BY <1>4, <1>7, <2>1, <2>2, <2>3, OwnedFrame DEF Owning
  <1>9. CASE Writes(kind)
    <2>1. \/ settled'[u] = None
          \/ /\ settled'[u] = c
             /\ \A d \in Clients : ~Writing(call[d], u) /\ ~Resolving(call[d], i0, u)
      BY <1>2, <1>5, <1>9 DEF StoreTyped
    <2>2. settled'[u] = None => Owned(u)'
      BY InstancesAssumption DEF Owned
    <2>3. ASSUME settled'[u] = c,
                 \A d \in Clients : ~Writing(call[d], u) /\ ~Resolving(call[d], i0, u)
          PROVE  Owned(u)'
      <3>1. ASSUME NEW d \in Clients \ {c}
            PROVE  ~Touching(call'[d], u)
        <4>1. ASSUME Touching(call[d], u)
              PROVE  Writing(call[d], u)
          <5>1. call[d].kind \in Kinds /\ Head(call[d].plan) \in StepsOf(call[d].kind)
            BY <1>2, <4>1, AtFacts DEF Touching, At
          <5>2. call[d].kind \in {"publish", "delete"}
            BY <4>1, <5>1, KindOfStep DEF Touching, TouchSteps
          <5> QED BY <4>1, <5>2 DEF Touching, Writing, Writes
        <4> QED BY <1>7, <2>3, <4>1 DEF Follows
      <3>2. \A d \in Clients : ~Resolving(call'[d], call'[c].at, u)
        <4>1. ~Resolving(call'[c], i0, u)
          BY <1>2, <1>9 DEF Resolving, Resolves, Writes
        <4> QED BY <1>3, <1>7, <2>3, <4>1 DEF Follows
      <3>3. Claimed(u, c)'
        BY <1>6, <3>1, <3>2 DEF Claimed
      <3> QED BY <2>3, <3>3, InstancesAssumption DEF Owned
    <2> QED BY <1>8, <2>1, <2>2, <2>3 DEF Owning
  <1>10. CASE ~Writes(kind)
    <2>1. \/ settled'[u] = None
          \/ /\ settled'[u] = settled[u]
             /\ Resolves(kind) => \A d \in Clients : settled[u] = d => Host(d) # i0
      BY <1>2, <1>5, <1>10 DEF StoreTyped
    <2>2. settled'[u] = None => Owned(u)'
      BY InstancesAssumption DEF Owned
    <2>3. ASSUME settled'[u] = settled[u],
                 Resolves(kind) => \A d \in Clients : settled[u] = d => Host(d) # i0
          PROVE  Owned(u)'
      <3>1. Owned(u)
        BY DEF Owning
      <3>2. ASSUME NEW i \in Instances, settled'[u] = i
            PROVE  Rested(u, i)'
        <4>1. Rested(u, i)
          BY <2>3, <3>1, <3>2 DEF Owned
        <4>2. \A d \in Clients : ~Touching(call'[d], u)
          BY <1>6, <1>7, <1>10, <4>1 DEF Rested, Follows
        <4>3. \A d \in Clients : On(call'[d], "fill") /\ call'[d].tag = u /\ call'[d].at = i
                 => call'[d].m = refs[u]
          BY <1>6, <1>7, <4>1 DEF Rested, Follows
        <4> QED BY <1>4, <4>1, <4>2, <4>3 DEF Rested
      <3>3. ASSUME NEW e \in Clients, settled'[u] = e, Touching(call'[e], u)
            PROVE  Claimed(u, e)'
        <4>1. e # c
          BY <1>6, <1>10, <3>3
        <4>2. Touching(call[e], u) /\ call'[e].at = call[e].at
          BY <1>7, <3>3, <4>1 DEF Follows
        <4>3. Claimed(u, e) /\ call[e].at \in Instances
          BY <1>2, <2>3, <3>1, <3>3, <4>2 DEF Owned, Touching, CallsTyped, CallOK
        <4>4. ~Resolving(call'[c], call[e].at, u)
          BY <1>2, <1>3, <2>3, <3>3 DEF Resolving, Host
        <4>5. \A d \in Clients \ {e} : ~Touching(call'[d], u)
          BY <1>6, <1>7, <1>10, <4>2, <4>3 DEF Claimed, Follows
        <4>6. \A d \in Clients : ~Resolving(call'[d], call'[e].at, u)
          BY <1>7, <4>2, <4>3, <4>4 DEF Claimed, Follows
        <4>7. /\ On(call'[e], "cache ref") => refs'[u] = call'[e].m
              /\ On(call'[e], "forget ref") => refs'[u] = None
          BY <1>4, <1>7, <4>1, <4>2, <4>3 DEF Claimed, Follows
        <4> QED BY <4>5, <4>6, <4>7 DEF Claimed
      <3>4. \A e \in Clients : settled'[u] = e => Claimed(u, e)'
        BY <3>3 DEF Claimed
      <3> QED BY <3>2, <3>4 DEF Owned
    <2> QED BY <1>8, <2>1, <2>2, <2>3 DEF Owning
  <1> QED BY <1>9, <1>10

\* The write of a tag is the owner's, or the tag has none.
LEMMA WritingOwns ==
    ASSUME Typed, Owning, NEW c \in Clients, PutRef(c) \/ DropRef(c)
    PROVE  Owning'
  <1> DEFINE u == call[c].tag
  <1>1. /\ Moved(c) /\ UNCHANGED <<refCache, settled>>
        /\ u \in Tags /\ Touching(call[c], u)
        /\ \A t \in Tags : t # u => refs'[t] = refs[t]
        /\ Advances(c)
        /\ \A next : On(call'[c], next) => next \in {"cache ref", "forget ref"}
        /\ On(call'[c], "cache ref") => refs'[u] = call'[c].m
        /\ On(call'[c], "forget ref") => refs'[u] = None
    BY WriteAdvances
  <1>2. \A t : \A d \in Clients \ {c} : Follows(d, t)
    BY <1>1, SameFollows DEF Moved
  <1>3. call'[c].plan # <<>> => call'[c].at = call[c].at /\ call'[c].tag = u
    BY <1>1 DEF Advances
  <1> HIDE DEF u
  <1>4. ASSUME NEW t \in Tags, NEW i \in Instances, settled'[t] = i
        PROVE  Rested(t, i)'
    <2>1. Rested(t, i)
      BY <1>1, <1>4 DEF Owning, Owned
    <2>2. t # u /\ refs'[t] = refs[t]
      BY <1>1, <2>1 DEF Rested
    <2>3. ~Touching(call'[c], t) /\ ~On(call'[c], "fill")
      <3>1. ~Touching(call'[c], t)
        BY <1>3, <2>2 DEF Touching
      <3>2. ASSUME On(call'[c], "fill")
            PROVE  FALSE
        <4>1. "fill" \in {"cache ref", "forget ref"}
          BY <1>1, <3>2, Zenon
        <4> QED BY <4>1
      <3> QED BY <3>1, <3>2
    <2>4. \A d \in Clients : ~Touching(call'[d], t)
      BY <1>2, <2>1, <2>3 DEF Rested, Follows
    <2>5. \A d \in Clients : On(call'[d], "fill") /\ call'[d].tag = t /\ call'[d].at = i
             => call'[d].m = refs'[t]
      BY <1>2, <2>1, <2>2, <2>3 DEF Rested, Follows
    <2> QED BY <1>1, <2>1, <2>2, <2>4, <2>5 DEF Rested
  <1>5. ASSUME NEW t \in Tags, NEW e \in Clients, settled'[t] = e, Touching(call'[e], t)
        PROVE  Claimed(t, e)'
    <2>1. Claimed(t, e)
      BY <1>1, <1>5 DEF Owning, Owned
    <2>2. Touching(call[e], t) /\ call'[e].at = call[e].at
      <3>1. CASE e = c
        BY <1>1, <1>3, <1>5, <3>1 DEF Touching
      <3>2. CASE e # c
        BY <1>2, <1>5, <3>2 DEF Follows
      <3> QED BY <3>1, <3>2
    <2>3. call[e].at \in Instances
      BY <2>2 DEF Typed, CallsTyped, CallOK, Touching
    <2>4. \A d \in Clients \ {e} : ~Touching(call'[d], t)
      <3>1. \A d \in Clients \ {c} : Touching(call'[d], t) => Touching(call[d], t)
        BY <1>2 DEF Follows
      <3>2. Touching(call'[c], t) => Touching(call[c], t)
        BY <1>1, <1>3 DEF Touching
      <3> QED BY <2>1, <2>2, <3>1, <3>2 DEF Claimed
    <2>5. \A d \in Clients : ~Resolving(call'[d], call'[e].at, t)
      <3>1. \A d \in Clients : Resolving(call'[d], call[e].at, t) => Resolving(call[d], call[e].at, t)
        <4>1. Resolving(call'[c], call[e].at, t) => Resolving(call[c], call[e].at, t)
          BY <1>1, <1>3 DEF Resolving, Moved, Touching, u
        <4> QED BY <1>2, <2>3, <4>1 DEF Follows
      <3> QED BY <2>1, <2>2, <3>1 DEF Claimed
    <2>6. CASE e = c
      <3>1. t = u
        BY <1>3, <1>5, <2>6 DEF Touching
      <3> QED BY <1>1, <2>4, <2>5, <2>6, <3>1 DEF Claimed
    <2>7. CASE e # c
      <3>1. t # u
        BY <1>1, <2>1, <2>2, <2>7 DEF Claimed
      <3> QED BY <1>1, <1>2, <2>1, <2>2, <2>4, <2>5, <2>7, <3>1 DEF Claimed, Follows
    <2> QED BY <2>6, <2>7
  <1>6. \A t \in Tags, e \in Clients : settled'[t] = e => Claimed(t, e)'
    BY <1>5 DEF Claimed
  <1> QED BY <1>4, <1>6 DEF Owning, Owned

\* No step disturbs who owns a tag.
LEMMA NextOwns ==
    ASSUME Typed, Owning, [Next]_vars
    PROVE  Owning'
  <1>1. ASSUME NEW c \in Clients, Publishing(c) \/ Deleting(c),
               ~PutRef(c), ~DropRef(c), ~CacheRef(c), ~ForgetRef(c)
        PROVE  Owning'
    <2>1. UNCHANGED <<refs, refCache, settled>>
      <3>1. CASE Publishing(c)
        BY <1>1, <3>1 DEF Publishing, PutFile, PutManifest, caches, history
      <3>2. CASE Deleting(c)
        BY <1>1, <3>2 DEF Deleting, FindRef, ListRefs, ReadRef, RefsRead, ReadOrphan, ReadLive,
             LiveRead, DropBlobs, DropManifest, stored, caches, history
      <3> QED BY <1>1, <3>1, <3>2
    <2>2. Advances(c) /\ Moved(c)
      BY <1>1, WritersAdvance, StepFrame DEF Step
    <2>3. PICK step \in Steps : At(c, step) /\
             step \notin {"put ref", "drop ref", "cache ref", "forget ref", "fill"}
      <3>1. CASE Publishing(c)
        BY <1>1, <3>1 DEF Publishing, PutFile, PutManifest, Steps
      <3>2. CASE Deleting(c)
        BY <1>1, <3>2 DEF Deleting, FindRef, ListRefs, ReadRef, RefsRead, ReadOrphan, ReadLive,
             LiveRead, DropBlobs, DropManifest, Steps
      <3> QED BY <1>1, <3>1, <3>2
    <2>4. \A t : \A d \in Clients : Follows(d, t)
      BY <2>2, <2>3, AdvancesFollows, SameFollows DEF Moved
    <2>5. ASSUME NEW t \in Tags
          PROVE  Owned(t)'
      <3>1. \A i \in Instances : settled[t] = i => refCache'[i][t] \in {None, refs[t]}
        BY <2>1 DEF Owning, Owned, Rested
      <3> QED BY <2>1, <2>4, <3>1, OwnedFrame DEF Owning
    <2> QED BY <2>5 DEF Owning
  <1>2. ASSUME NEW c \in Clients, Loading(c)
        PROVE  Owning'
    <2>1. UNCHANGED <<refs, settled>> /\ Moved(c)
      <3>1. UNCHANGED <<refs, settled>>
        BY <1>2 DEF Loading, Resolve, FillRefCache, LoadManifest, LoadEntrypoint, HydrateFile, Scan,
             ReadPreferred, Describe, Described, stored, history
      <3> QED BY <1>2, <3>1, StepFrame DEF Step
    <2>2. \A t : \A d \in Clients : Follows(d, t)
      BY <1>2, <2>1, LoadingFollows, SameFollows DEF Moved
    <2>3. ASSUME NEW t \in Tags, NEW i \in Instances, settled[t] = i
          PROVE  refCache'[i][t] \in {None, refs[t]}
      <3>1. Rested(t, i)
        BY <2>3 DEF Owning, Owned
      <3>2. CASE FillRefCache(c)
        <4>1. At(c, "fill") /\ refCache' = [refCache EXCEPT ![Host(c)][call[c].tag] = call[c].m]
          BY <3>2 DEF FillRefCache
        <4>2. On(call[c], "fill") /\ Host(c) \in Instances /\ call[c].tag \in Tags
          BY <4>1, AtFacts DEF Typed, On, At
        <4>3. call[c].tag = t /\ Host(c) = i => call[c].m = refs[t]
          BY <3>1, <4>2 DEF Rested, Host
        <4>4. refCache'[i][t] = IF Host(c) = i /\ call[c].tag = t THEN call[c].m ELSE refCache[i][t]
          BY <4>1, <4>2 DEF Typed, StoreTyped
        <4> QED BY <3>1, <4>3, <4>4 DEF Rested
      <3>3. CASE ~FillRefCache(c)
        <4>1. refCache' = refCache
          BY <1>2, <3>3 DEF Loading, Resolve, LoadManifest, LoadEntrypoint, HydrateFile, Scan,
               ReadPreferred, Describe, Described, caches
        <4> QED BY <3>1, <4>1 DEF Rested
      <3> QED BY <3>2, <3>3
    <2>4. \A t \in Tags : Owned(t)'
      BY <2>1, <2>2, <2>3, OwnedFrame DEF Owning
    <2> QED BY <2>4 DEF Owning
  <1>3. ASSUME UNCHANGED <<refs, settled, call>>,
               \A i \in Instances, t \in Tags : refCache'[i][t] \in {None, refCache[i][t]}
        PROVE  Owning'
    <2>1. \A t : \A d \in Clients : Follows(d, t)
      BY <1>3, SameFollows DEF Same
    <2>2. \A t \in Tags, i \in Instances : settled[t] = i => refCache'[i][t] \in {None, refs[t]}
      BY <1>3 DEF Owning, Owned, Rested
    <2>3. \A t \in Tags : Owned(t)'
      BY <1>3, <2>1, <2>2, OwnedFrame DEF Owning
    <2> QED BY <2>3 DEF Owning
  <1>4. ASSUME NEW j \in Instances, NEW u \in Tags, Expire(j, u)
        PROVE  Owning'
    <2>1. UNCHANGED <<refs, settled, call>> /\ refCache' = [refCache EXCEPT ![j][u] = None]
      BY <1>4 DEF Expire, stored, history
    <2>2. \A i \in Instances, t \in Tags : refCache'[i][t] \in {None, refCache[i][t]}
      BY <2>1 DEF Typed, StoreTyped
    <2> QED BY <1>3, <2>1, <2>2
  <1>5. CASE UNCHANGED vars
    BY <1>3, <1>5 DEF vars, stored, caches, history
  <1> QED BY <1>1, <1>2, <1>4, <1>5, WritingOwns, CachingOwns, StartOwns DEF Next, Step

\* A publish or a delete that had its tag to itself leaves its instance serving
\* what it wrote, or asking storage, until another write of the tag starts:
\* however many other tags, instances, loads and failures there are.
THEOREM OwnWriteHolds == Spec => []OwnWriteIsSeen
  <1>1. Init => Owning
    BY InstancesAssumption DEF Init, Owning, Owned
  <1>2. Owning => OwnWriteIsSeen
    BY DEF Owning, Owned, Rested, OwnWriteIsSeen
  <1> QED BY <1>1, <1>2, InitTyped, NextTyped, NextOwns, PTL DEF Spec

-----------------------------------------------------------------------------
(* Collections spare what is tagged                                          *)

\* A call is at a step of its own kind only.
LEMMA OnKind ==
    ASSUME CallsTyped, NEW c \in Clients, NEW step, On(call[c], step)
    PROVE  call[c].kind \in Kinds /\ step \in StepsOf(call[c].kind) /\ At(c, step)
  BY AtFacts DEF On, At

\* A call of another client is spared by a step that only adds blobs and
\* manifests if it is a publish, and only takes tags away if it is a delete.
LEMMA SparedFrame ==
    ASSUME Typed, Typed', NEW d \in Clients, Same(call'[d], call[d]), Spared(call[d]),
           (call[d].plan # <<>> /\ call[d].kind = "publish") =>
               (blobs \subseteq blobs' /\ manifests \subseteq manifests'),
           (call[d].plan # <<>> /\ call[d].kind = "delete") =>
               \A t \in Tagged' : t \in Tagged /\ refs'[t] = refs[t]
    PROVE  Spared(call[d])'
  <1> DEFINE r == call[d]  q == call'[d]
  <1>1. /\ q.kind = r.kind /\ q.plan = r.plan /\ q.m = r.m /\ q.tags = r.tags /\ q.live = r.live
        /\ q.files = r.files /\ q.keep = r.keep
    BY DEF Same
  <1>2. \A step : On(r, step) => r.kind \in Kinds /\ step \in StepsOf(r.kind)
    BY OnKind DEF Typed
  <1>3. On(r, "put files") \/ On(r, "put manifest") \/ On(r, "put ref") =>
           blobs \subseteq blobs' /\ manifests \subseteq manifests'
    BY <1>2, KindOfStep DEF On
  <1>4. On(r, "read refs") \/ On(r, "read orphan") \/ On(r, "read live") \/ On(r, "drop blobs")
          \/ On(r, "drop manifest") => \A t \in Tagged' : t \in Tagged /\ refs'[t] = refs[t]
    BY <1>2, KindOfStep DEF On
  <1>5. \A step : On(q, step) <=> On(r, step)
    BY <1>1 DEF On
  <1>6. Spared(r)
    OBVIOUS
  <1> HIDE DEF r, q
  <1>7. /\ On(q, "put files") => FilesOf[q.m] \ q.files \subseteq blobs'
        /\ On(q, "put manifest") => FilesOf[q.m] \subseteq blobs'
        /\ On(q, "put ref") => q.m \in manifests' /\ FilesOf[q.m] \subseteq blobs'
    BY <1>1, <1>3, <1>5, <1>6 DEF Spared, Complete
  <1>8. /\ On(q, "read refs") => \A t \in Tagged' : t \in q.tags \/ refs'[t] \in q.live
        /\ On(q, "read orphan") => \A t \in Tagged' : refs'[t] # q.m /\ refs'[t] \in q.live
    BY <1>1, <1>4, <1>5, <1>6 DEF Spared
  <1>9. On(q, "read live") =>
          \A t \in Tagged' : refs'[t] # q.m /\ (refs'[t] \in q.live \/ FilesOf[refs'[t]] \subseteq q.keep)
    BY <1>1, <1>4, <1>5, <1>6 DEF Spared
  <1>10. /\ On(q, "drop blobs") => \A t \in Tagged' : refs'[t] # q.m /\ FilesOf[refs'[t]] \subseteq q.keep
         /\ On(q, "drop manifest") => \A t \in Tagged' : refs'[t] # q.m
    BY <1>1, <1>4, <1>5, <1>6 DEF Spared
  <1> QED BY <1>7, <1>8, <1>9, <1>10 DEF Spared, Complete, r, q

\* A call at none of the steps of a publish or a delete that matter.
LEMMA SparedElsewhere ==
    ASSUME NEW c \in Clients,
           \A step \in {"put files", "put manifest", "put ref", "read refs", "read orphan", "read live",
                        "drop blobs", "drop manifest"} : ~On(call'[c], step)
    PROVE  Spared(call[c])'
  BY DEF Spared

\* A publish stores its files before its manifest and its manifest before its
\* tag, so it never leaves a tag incomplete; as no delete runs beside it, it
\* disturbs none.
LEMMA PublishingSpares ==
    ASSUME Typed, Typed', Alone, Sparing, ~raced, ~blind, NEW c \in Clients, Publishing(c)
    PROVE  (\A t \in Tagged : Complete(refs[t]))' /\ \A d \in Clients : Spared(call[d])'
  <1>1. /\ \A t \in Tagged : Complete(refs[t])
        /\ \A d \in Clients : Spared(call[d])
    BY DEF Sparing
  <1>2. call[c].kind = "publish" /\ Moved(c) /\ call[c].plan # <<>> /\ CallsTyped /\ StoreTyped
    BY KindsOfSteps, StepFrame DEF Step, Typed
  <1>3. \A d \in Clients : ~(call[d].plan # <<>> /\ call[d].kind = "delete")
    BY <1>2 DEF Alone, Busy
  <1>4. ASSUME blobs \subseteq blobs', manifests \subseteq manifests', Spared(call[c])'
        PROVE  \A d \in Clients : Spared(call[d])'
    BY <1>1, <1>2, <1>3, <1>4, SparedFrame DEF Moved
  <1>5. ASSUME blobs \subseteq blobs', manifests \subseteq manifests', refs' = refs
        PROVE  (\A t \in Tagged : Complete(refs[t]))'
    BY <1>1, <1>5 DEF Tagged, Complete
  <1>6. CASE PutFile(c)
    <2>1. At(c, "put files")
      BY <1>6 DEF PutFile
    <2> DEFINE r(f) == [call[c] EXCEPT !.files = @ \ {f}]
    <2>2. PICK f \in NextFile(c) : \E o \in Outcomes :
          /\ S3(o)
          /\ blobs' = IF o = "lost" THEN blobs ELSE blobs \cup {f}
          /\ CASE o # "ok" -> Ends(c, "error")
               [] o = "ok" /\ r(f).files = {} -> Goes(c, r(f))
               [] OTHER -> Stays(c, r(f))
      BY <1>6 DEF PutFile
    <2>3. PICK o \in Outcomes :
          /\ S3(o)
          /\ blobs' = IF o = "lost" THEN blobs ELSE blobs \cup {f}
          /\ CASE o # "ok" -> Ends(c, "error")
               [] o = "ok" /\ r(f).files = {} -> Goes(c, r(f))
               [] OTHER -> Stays(c, r(f))
      BY <2>2
    <2> DEFINE q == r(f)
    <2>4. /\ blobs' = IF o = "lost" THEN blobs ELSE blobs \cup {f}
          /\ CASE o # "ok" -> Ends(c, "error")
               [] o = "ok" /\ q.files = {} -> Goes(c, q)
               [] OTHER -> Stays(c, q)
      BY <2>3
    <2>5. call[c] \in CallType /\ Ready(call[c]) /\ Head(call[c].plan) = "put files"
      BY <2>1, <1>2, StillReady DEF At
    <2>6. /\ q \in CallType /\ q.kind = call[c].kind /\ q.plan = call[c].plan /\ q.live = call[c].live
          /\ q.at = call[c].at /\ q.tag = call[c].tag /\ q.end = call[c].end /\ q.m = call[c].m
          /\ q.files = call[c].files \ {f}
      BY <2>5 DEF CallType
    <2> HIDE DEF q
    <2>7. FilesOf[q.m] \ call[c].files \subseteq blobs
      BY <1>1, <2>1, <2>6 DEF Spared, On, At
    <2>8. o # "lost" => FilesOf[q.m] \ q.files \subseteq blobs'
      BY <2>4, <2>6, <2>7
    <2>9. Ready(q)
      <3>1. \A next \in After("put files") : next \notin {"put files", "entry", "hydrate"}
        BY DEF After
      <3> QED BY <2>5, <2>6, <3>1 DEF Ready
    <2>10. Spared(call[c])'
      <3>1. CASE o # "ok"
        <4>1. \A step : ~On(call'[c], step)
          BY <1>2, <2>4, <3>1, EndsTo
        <4> QED BY <4>1, SparedElsewhere
      <3>2. CASE o = "ok" /\ q.files = {}
        <4>1. Goes(c, q) /\ Head(q.plan) = "put files" /\ After("put files") = {"put manifest"}
          BY <2>4, <2>5, <2>6, <3>2 DEF After
        <4>2. \A step : On(call'[c], step) => step = "put manifest" /\ Carries(call'[c], q)
          BY <1>2, <2>9, <4>1, GoesTo
        <4>3. On(call'[c], "put manifest") => FilesOf[call'[c].m] \subseteq blobs'
          BY <2>8, <3>2, <4>2 DEF Carries
        <4>4. \A step \in {"put files", "put ref", "read refs", "read orphan", "read live",
                           "drop blobs", "drop manifest"} : ~On(call'[c], step)
          BY <4>2
        <4> QED BY <4>3, <4>4 DEF Spared
      <3>3. CASE o = "ok" /\ q.files # {}
        <4>1. call'[c] = q
          BY <1>2, <2>4, <3>3 DEF Stays, CallsTyped
        <4>2. \A step : On(call'[c], step) => step = "put files"
          BY <2>5, <2>6, <4>1 DEF On
        <4> QED BY <2>8, <3>3, <4>1, <4>2 DEF Spared
      <3> QED BY <3>1, <3>2, <3>3
    <2>11. blobs \subseteq blobs' /\ manifests' = manifests /\ refs' = refs
      BY <1>6, <2>4 DEF PutFile
    <2> QED BY <1>4, <1>5, <2>10, <2>11
  <1>7. CASE PutManifest(c)
    <2>1. At(c, "put manifest")
      BY <1>7 DEF PutManifest
    <2>2. PICK o \in Outcomes :
          /\ S3(o)
          /\ manifests' = IF o = "lost" THEN manifests ELSE manifests \cup {call[c].m}
          /\ GoesIf(c, o = "ok")
      BY <1>7 DEF PutManifest
    <2>3. Ready(call[c]) /\ Head(call[c].plan) = "put manifest"
      BY <1>2, <2>1, StillReady DEF At
    <2>4. FilesOf[call[c].m] \subseteq blobs
      BY <1>1, <2>1 DEF Spared, On, At
    <2>5. blobs' = blobs /\ manifests \subseteq manifests' /\ refs' = refs
      BY <1>7, <2>2 DEF PutManifest
    <2>6. Spared(call[c])'
      <3>1. CASE o # "ok"
        <4>1. \A step : ~On(call'[c], step)
          BY <1>2, <2>2, <3>1, EndsTo DEF GoesIf
        <4> QED BY <4>1, SparedElsewhere
      <3>2. CASE o = "ok"
        <4>1. \A step : On(call'[c], step) => step \in After("put manifest") /\ Carries(call'[c], call[c])
          BY <1>2, <2>2, <2>3, <3>2, GoesTo DEF GoesIf
        <4>2. \A step : On(call'[c], step) => step = "put ref"
          BY <4>1 DEF After
        <4>3. On(call'[c], "put ref") => Complete(call[c].m)'
          BY <2>2, <2>4, <2>5, <3>2, <4>1 DEF Carries, Complete
        <4> QED BY <4>2, <4>3 DEF Spared
      <3> QED BY <3>1, <3>2
    <2> QED BY <1>4, <1>5, <2>5, <2>6
  <1>8. CASE PutRef(c)
    <2>1. At(c, "put ref")
      BY <1>8 DEF PutRef
    <2> DEFINE t == call[c].tag  m == call[c].m
    <2>2. PICK o \in Outcomes :
          /\ S3(o)
          /\ IF o = "lost"
             THEN Ends(c, "error") /\ UNCHANGED <<refs, replaced>>
             ELSE /\ refs' = [refs EXCEPT ![t] = m]
                  /\ replaced' = replaced \cup ({refs[t]} \ {None, m})
                  /\ call' = Changed([call EXCEPT ![c] = Wrote(c, o)], t)
      BY <1>8 DEF PutRef
    <2>3. Ready(call[c]) /\ Head(call[c].plan) = "put ref" /\ m \in Manifests /\ t \in Tags
      BY <1>2, <2>1, StillReady, Resolved DEF At, Steps
    <2>4. Complete(m) /\ blobs' = blobs /\ manifests' = manifests
      BY <1>1, <1>8, <2>1 DEF PutRef, Spared, On, At
    <2>5. (\A u \in Tagged : Complete(refs[u]))'
      BY <1>1, <1>2, <2>2, <2>3, <2>4 DEF StoreTyped, Tagged, Complete
    <2>6. Spared(call[c])'
      <3>1. CASE o = "lost"
        <4>1. \A step : ~On(call'[c], step)
          BY <1>2, <2>2, <3>1, EndsTo
        <4> QED BY <4>1, SparedElsewhere
      <3>2. CASE o # "lost"
        <4>1. After("put ref") = {"cache ref"}
          BY DEF After
        <4>2. \A step : On(call'[c], step) => step \in After("put ref")
          <5>1. call' = Changed([call EXCEPT ![c] = Wrote(c, o)], t)
            BY <2>2, <3>2
          <5> HIDE DEF t
          <5> QED BY <1>2, <2>1, <5>1, WroteTo
        <4> QED BY <4>1, <4>2, SparedElsewhere
      <3> QED BY <3>1, <3>2
    <2> QED BY <1>4, <2>4, <2>5, <2>6
  <1>9. CASE CacheRef(c)
    <2>1. At(c, "cache ref")
      BY <1>9 DEF CacheRef
    <2>2. Ready(call[c]) /\ Head(call[c].plan) = "cache ref"
      BY <1>2, <2>1, StillReady DEF At
    <2>3. \A step : ~On(call'[c], step)
      <3>1. Goes(c, call[c])
        BY <1>9 DEF CacheRef
      <3>2. \A step : On(call'[c], step) => step \in After("cache ref")
        BY <1>2, <2>2, <3>1, GoesTo
      <3> QED BY <3>2 DEF After
    <2>4. blobs' = blobs /\ manifests' = manifests /\ refs' = refs
      BY <1>9 DEF CacheRef, stored
    <2> QED BY <1>4, <1>5, <2>3, <2>4, SparedElsewhere
  <1> QED BY <1>6, <1>7, <1>8, <1>9 DEF Publishing

\* GoesTo for a step that only one other follows.
LEMMA GoesOn ==
    ASSUME CallsTyped, NEW c \in Clients, NEW r, Ready(r), Goes(c, r), NEW next,
           After(Head(r.plan)) = {next}
    PROVE  \A step : On(call'[c], step) => step = next /\ Carries(call'[c], r)
  BY GoesTo

\* A step of a delete takes nothing a tag still needs, and every delete in flight
\* goes on knowing all the tags it must keep: other deletes only ever take tags
\* away.
LEMMA DeletingSpares ==
    ASSUME Typed, Typed', Alone, Sparing, ~raced, ~blind, ~blind', NEW c \in Clients, Deleting(c)
    PROVE  (\A t \in Tagged : Complete(refs[t]))' /\ \A d \in Clients : Spared(call[d])'
  <1>1. /\ \A t \in Tagged : Complete(refs[t])
        /\ \A d \in Clients : Spared(call[d])
    BY DEF Sparing
  <1>2. call[c].kind = "delete" /\ Moved(c) /\ call[c].plan # <<>> /\ CallsTyped /\ StoreTyped
    BY KindsOfSteps, StepFrame DEF Step, Typed
  <1>3. \A d \in Clients : ~(call[d].plan # <<>> /\ call[d].kind = "publish")
    BY <1>2 DEF Alone, Busy
  <1>4. ASSUME \A t \in Tagged' : t \in Tagged /\ refs'[t] = refs[t], Spared(call[c])'
        PROVE  \A d \in Clients : Spared(call[d])'
    BY <1>1, <1>2, <1>3, <1>4, SparedFrame DEF Moved
  <1>5. ASSUME blobs' = blobs, manifests' = manifests, \A t \in Tagged' : t \in Tagged /\ refs'[t] = refs[t]
        PROVE  (\A t \in Tagged : Complete(refs[t]))'
    BY <1>1, <1>5 DEF Complete
  <1>6. ASSUME refs' = refs
        PROVE  \A t \in Tagged' : t \in Tagged /\ refs'[t] = refs[t]
    BY <1>6 DEF Tagged
  <1>7. CASE FindRef(c)
    <2>1. At(c, "find ref")
      BY <1>7 DEF FindRef
    <2> DEFINE r == [call[c] EXCEPT !.m = refs[call[c].tag]]
    <2>2. stored' = stored /\ (Goes(c, r) \/ Ends(c, "error"))
      BY <1>7 DEF FindRef
    <2>3. Spared(call[c])'
      <3>1. CASE Ends(c, "error")
        BY <1>2, <3>1, EndsTo, SparedElsewhere
      <3>2. CASE Goes(c, r)
        <4>1. /\ call[c] \in CallType /\ Planned(call[c].kind, call[c].plan) /\ call[c].plan # <<>>
              /\ Head(call[c].plan) = "find ref" /\ call[c].kind \in Kinds
          BY <1>2, <2>1, AtFacts
        <4>2. r.plan = call[c].plan
          BY <4>1 DEF CallType
        <4>3. Len(r.plan) # 1
          <5>1. "find ref" \notin Final
            BY DEF Final
          <5> QED BY <4>1, <4>2, <5>1, PlannedTail
        <4> DEFINE q == [r EXCEPT !.plan = Tail(@)]
        <4>4. call'[c] = q /\ q.plan = Tail(call[c].plan)
          <5>1. call'[c] = q
            BY <1>2, <3>2, <4>3 DEF Goes, Stays, CallsTyped
          <5>2. q.plan = Tail(call[c].plan)
            BY <4>1 DEF CallType
          <5> QED BY <5>1, <5>2
        <4> HIDE DEF q
        <4>5. Head(Tail(call[c].plan)) = "drop ref"
          <5>1. After("find ref") = {"drop ref"}
            BY DEF After
          <5> QED BY <4>1, <4>2, <4>3, <5>1, PlannedTail
        <4> QED BY <4>4, <4>5, SparedElsewhere DEF On
      <3> QED BY <2>2, <3>1, <3>2
    <2> QED BY <1>4, <1>5, <1>6, <2>2, <2>3 DEF stored
  <1>8. CASE DropRef(c)
    <2>1. At(c, "drop ref")
      BY <1>8 DEF DropRef
    <2> DEFINE t == call[c].tag
    <2>2. PICK o \in Outcomes :
          /\ S3(o)
          /\ IF o = "lost"
             THEN Ends(c, "error") /\ UNCHANGED refs
             ELSE /\ refs' = [refs EXCEPT ![t] = None]
                  /\ call' = Changed([call EXCEPT ![c] = Wrote(c, o)], t)
      BY <1>8 DEF DropRef
    <2>3. blobs' = blobs /\ manifests' = manifests
      BY <1>8 DEF DropRef
    <2>4. \A u \in Tagged' : u \in Tagged /\ refs'[u] = refs[u]
      <3>1. t \in Tags
        BY <1>2, <2>1, AtFacts
      <3> HIDE DEF t
      <3> QED BY <1>2, <2>2, <3>1 DEF StoreTyped, Tagged
    <2>5. Spared(call[c])'
      <3>1. CASE o = "lost"
        BY <1>2, <2>2, <3>1, EndsTo, SparedElsewhere
      <3>2. CASE o # "lost"
        <4>1. After("drop ref") = {"forget ref"}
          BY DEF After
        <4>2. \A step : On(call'[c], step) => step \in After("drop ref")
          <5>1. call' = Changed([call EXCEPT ![c] = Wrote(c, o)], t)
            BY <2>2, <3>2
          <5> HIDE DEF t
          <5> QED BY <1>2, <2>1, <5>1, WroteTo
        <4> QED BY <4>1, <4>2, SparedElsewhere
      <3> QED BY <3>1, <3>2
    <2> QED BY <1>4, <1>5, <2>3, <2>4, <2>5
  <1>9. CASE ForgetRef(c)
    <2>1. At(c, "forget ref")
      BY <1>9 DEF ForgetRef
    <2>2. Ready(call[c]) /\ Head(call[c].plan) = "forget ref" /\ After("forget ref") = {"list refs"}
      BY <1>2, <2>1, StillReady DEF At, After
    <2>3. \A step : On(call'[c], step) => step = "list refs"
      BY <1>2, <1>9, <2>2, GoesOn DEF ForgetRef
    <2>4. blobs' = blobs /\ manifests' = manifests /\ refs' = refs
      BY <1>9 DEF ForgetRef, stored
    <2> QED BY <1>4, <1>5, <1>6, <2>3, <2>4, SparedElsewhere
  <1>10. CASE ListRefs(c)
    <2>1. At(c, "list refs")
      BY <1>10 DEF ListRefs
    <2> DEFINE r == [call[c] EXCEPT !.tags = Tagged]
    <2>2. (Goes(c, r) \/ Ends(c, "error")) /\ blobs' = blobs /\ manifests' = manifests /\ refs' = refs
      BY <1>10 DEF ListRefs, stored
    <2>3. Ready(call[c]) /\ call[c] \in CallType /\ Head(call[c].plan) = "list refs"
          /\ After("list refs") = {"read refs"}
      BY <1>2, <2>1, StillReady DEF At, After
    <2>4. /\ r \in CallType /\ r.kind = call[c].kind /\ r.plan = call[c].plan
          /\ r.live = call[c].live /\ r.at = call[c].at /\ r.tag = call[c].tag
          /\ r.end = call[c].end /\ r.m = call[c].m /\ r.files = call[c].files /\ r.tags = Tagged
      BY <2>3 DEF CallType, Tagged
    <2> HIDE DEF r
    <2>5. Ready(r)
      BY <2>3, <2>4 DEF Ready
    <2>6. Spared(call[c])'
      <3>1. CASE Ends(c, "error")
        BY <1>2, <3>1, EndsTo, SparedElsewhere
      <3>2. CASE Goes(c, r)
        <4>1. \A step : On(call'[c], step) => step = "read refs" /\ Carries(call'[c], r)
          BY <1>2, <2>3, <2>4, <2>5, <3>2, GoesOn
        <4>2. On(call'[c], "read refs") => \A t \in Tagged' : t \in call'[c].tags
          BY <1>6, <2>2, <2>4, <4>1 DEF Carries
        <4>3. \A step \in {"put files", "put manifest", "put ref", "read orphan", "read live",
                           "drop blobs", "drop manifest"} : ~On(call'[c], step)
          BY <4>1
        <4> QED BY <4>2, <4>3 DEF Spared
      <3> QED BY <2>2, <3>1, <3>2
    <2> QED BY <1>4, <1>5, <1>6, <2>2, <2>6
  <1>11. CASE ReadRef(c)
    <2>1. At(c, "read refs")
      BY <1>11 DEF ReadRef
    <2>2. PICK t \in call[c].tags : \E o \in {"ok", "lost"} :
          /\ S3(o)
          /\ Stays(c, [call[c] EXCEPT
                !.tags = @ \ {t},
                !.live = IF o = "ok" THEN @ \cup ({refs[t]} \ {None}) ELSE @])
          /\ blind' = (blind \/ o # "ok")
      BY <1>11 DEF ReadRef
    <2> DEFINE r == [call[c] EXCEPT !.tags = @ \ {t}, !.live = @ \cup ({refs[t]} \ {None})]
    <2>3. Stays(c, r)
      BY <2>2
    <2>4. call[c] \in CallType /\ Head(call[c].plan) = "read refs"
      BY <1>2, <2>1, AtFacts
    <2>5. /\ r.plan = call[c].plan /\ r.tags = call[c].tags \ {t}
          /\ r.live = call[c].live \cup ({refs[t]} \ {None})
      BY <2>4 DEF CallType
    <2> HIDE DEF r
    <2>6. call'[c] = r
      BY <1>2, <2>3 DEF Stays, CallsTyped
    <2>7. blobs' = blobs /\ manifests' = manifests /\ refs' = refs
      BY <1>11 DEF ReadRef, stored
    <2>8. \A u \in Tagged : u \in call[c].tags \/ refs[u] \in call[c].live
      BY <1>1, <2>1 DEF Spared, On, At
    <2>9. \A u \in Tagged' : u \in r.tags \/ refs'[u] \in r.live
      BY <2>5, <2>7, <2>8 DEF Tagged
    <2>10. Spared(call[c])'
      <3>1. \A step \in {"put files", "put manifest", "put ref", "read orphan", "read live",
                         "drop blobs", "drop manifest"} : ~On(call'[c], step)
        BY <2>4, <2>5, <2>6 DEF On
      <3> QED BY <2>6, <2>9, <3>1 DEF Spared
    <2> QED BY <1>4, <1>5, <1>6, <2>7, <2>10
  <1>12. CASE RefsRead(c)
    <2>1. At(c, "read refs") /\ call[c].tags = {}
      BY <1>12 DEF RefsRead
    <2>2. Ready(call[c]) /\ Head(call[c].plan) = "read refs" /\ After("read refs") = {"read orphan"}
      BY <1>2, <2>1, StillReady DEF At, After
    <2>3. blobs' = blobs /\ manifests' = manifests /\ refs' = refs
      BY <1>12 DEF RefsRead, stored
    <2>4. \A u \in Tagged : refs[u] \in call[c].live
      BY <1>1, <2>1 DEF Spared, On, At
    <2>5. Spared(call[c])'
      <3>1. CASE call[c].m \in call[c].live
        <4>1. Ends(c, "kept")
          BY <1>12, <3>1 DEF RefsRead
        <4> QED BY <1>2, <4>1, EndsTo, SparedElsewhere
      <3>2. CASE call[c].m \notin call[c].live
        <4>1. Goes(c, call[c])
          BY <1>12, <3>2 DEF RefsRead
        <4>2. \A step : On(call'[c], step) => step = "read orphan" /\ Carries(call'[c], call[c])
          BY <1>2, <2>2, <4>1, GoesOn
        <4>3. On(call'[c], "read orphan") =>
                 \A t \in Tagged' : refs'[t] # call'[c].m /\ refs'[t] \in call'[c].live
          BY <2>3, <2>4, <3>2, <4>2 DEF Carries, Tagged
        <4>4. \A step \in {"put files", "put manifest", "put ref", "read refs", "read live",
                           "drop blobs", "drop manifest"} : ~On(call'[c], step)
          BY <4>2
        <4> QED BY <4>3, <4>4 DEF Spared
      <3> QED BY <3>1, <3>2
    <2> QED BY <1>4, <1>5, <1>6, <2>3, <2>5
  <1>13. CASE ReadOrphan(c)
    <2>1. At(c, "read orphan")
      BY <1>13 DEF ReadOrphan
    <2>2. PICK o \in {"ok", "lost"} :
          /\ S3(o)
          /\ Goes(c, [call[c] EXCEPT
                !.files = IF o = "ok" /\ call[c].m \in manifests THEN FilesOf[call[c].m] ELSE {}])
      BY <1>13 DEF ReadOrphan
    <2> DEFINE r == [call[c] EXCEPT
                !.files = IF o = "ok" /\ call[c].m \in manifests THEN FilesOf[call[c].m] ELSE {}]
    <2>3. /\ Ready(call[c]) /\ call[c] \in CallType /\ call[c].m \in Manifests
          /\ Head(call[c].plan) = "read orphan" /\ After("read orphan") = {"read live"}
      BY <1>2, <2>1, StillReady, Resolved DEF Steps, At, After
    <2>4. Goes(c, r)
      BY <2>2
    <2>5. FilesOf[call[c].m] \subseteq Files
      BY <2>3, ManifestsAssumption
    <2>6. /\ r \in CallType /\ r.kind = call[c].kind /\ r.plan = call[c].plan
          /\ r.live = call[c].live /\ r.at = call[c].at /\ r.tag = call[c].tag
          /\ r.end = call[c].end /\ r.m = call[c].m
      BY <2>3, <2>5 DEF CallType
    <2> HIDE DEF r
    <2>7. Ready(r)
      BY <2>3, <2>6 DEF Ready
    <2>8. blobs' = blobs /\ manifests' = manifests /\ refs' = refs
      BY <1>13 DEF ReadOrphan, stored
    <2>9. \A u \in Tagged : refs[u] # call[c].m /\ refs[u] \in call[c].live
      BY <1>1, <2>1 DEF Spared, On, At
    <2>10. \A step : On(call'[c], step) => step = "read live" /\ Carries(call'[c], r)
      BY <1>2, <2>3, <2>4, <2>6, <2>7, GoesOn
    <2>11. Spared(call[c])'
      <3>1. On(call'[c], "read live") =>
               \A t \in Tagged' : refs'[t] # call'[c].m /\ refs'[t] \in call'[c].live
        BY <2>6, <2>8, <2>9, <2>10 DEF Carries, Tagged
      <3>2. \A step \in {"put files", "put manifest", "put ref", "read refs", "read orphan",
                         "drop blobs", "drop manifest"} : ~On(call'[c], step)
        BY <2>10
      <3> QED BY <3>1, <3>2 DEF Spared
    <2> QED BY <1>4, <1>5, <1>6, <2>8, <2>11
  <1>14. CASE ReadLive(c)
    <2>1. At(c, "read live")
      BY <1>14 DEF ReadLive
    <2>2. PICK m \in call[c].live : \E o \in {"ok", "lost"} :
          /\ S3(o)
          /\ Stays(c, [call[c] EXCEPT
                !.live = @ \ {m},
                !.keep = IF o = "ok" /\ m \in manifests THEN @ \cup FilesOf[m] ELSE @])
          /\ blind' = (blind \/ o # "ok")
      BY <1>14 DEF ReadLive
    <2> DEFINE r == [call[c] EXCEPT
                !.live = @ \ {m},
                !.keep = IF m \in manifests THEN @ \cup FilesOf[m] ELSE @]
    <2>3. Stays(c, r)
      BY <2>2
    <2>4. call[c] \in CallType /\ Head(call[c].plan) = "read live"
      BY <1>2, <2>1, AtFacts
    <2>5. /\ r.plan = call[c].plan /\ r.live = call[c].live \ {m} /\ r.m = call[c].m
          /\ r.keep = IF m \in manifests THEN call[c].keep \cup FilesOf[m] ELSE call[c].keep
      BY <2>4 DEF CallType
    <2> HIDE DEF r
    <2>6. call'[c] = r
      BY <1>2, <2>3 DEF Stays, CallsTyped
    <2>7. blobs' = blobs /\ manifests' = manifests /\ refs' = refs
      BY <1>14 DEF ReadLive, stored
    <2>8. \A u \in Tagged : refs[u] # call[c].m
                            /\ (refs[u] \in call[c].live \/ FilesOf[refs[u]] \subseteq call[c].keep)
      BY <1>1, <2>1 DEF Spared, On, At
    <2>9. \A u \in Tagged : refs[u] = m => m \in manifests
      BY <1>1 DEF Complete
    <2>10. \A u \in Tagged' : refs'[u] # r.m /\ (refs'[u] \in r.live \/ FilesOf[refs'[u]] \subseteq r.keep)
      <3>1. ASSUME NEW u \in Tagged
            PROVE  refs[u] # r.m /\ (refs[u] \in r.live \/ FilesOf[refs[u]] \subseteq r.keep)
        <4>1. CASE refs[u] = m
          BY <2>5, <2>8, <2>9, <4>1
        <4>2. CASE refs[u] # m
          BY <2>5, <2>8, <4>2
        <4> QED BY <4>1, <4>2
      <3> QED BY <1>6, <2>7, <3>1
    <2>11. Spared(call[c])'
      <3>1. \A step \in {"put files", "put manifest", "put ref", "read refs", "read orphan",
                         "drop blobs", "drop manifest"} : ~On(call'[c], step)
        BY <2>4, <2>5, <2>6 DEF On
      <3> QED BY <2>6, <2>10, <3>1 DEF Spared
    <2> QED BY <1>4, <1>5, <1>6, <2>7, <2>11
  <1>15. CASE LiveRead(c)
    <2>1. At(c, "read live") /\ call[c].live = {}
      BY <1>15 DEF LiveRead
    <2>2. Ready(call[c]) /\ Head(call[c].plan) = "read live" /\ After("read live") = {"drop blobs"}
      BY <1>2, <2>1, StillReady DEF At, After
    <2>3. blobs' = blobs /\ manifests' = manifests /\ refs' = refs
      BY <1>15 DEF LiveRead, stored
    <2>4. \A u \in Tagged : refs[u] # call[c].m /\ FilesOf[refs[u]] \subseteq call[c].keep
      BY <1>1, <2>1 DEF Spared, On, At
    <2>5. \A step : On(call'[c], step) => step = "drop blobs" /\ Carries(call'[c], call[c])
      BY <1>2, <1>15, <2>2, GoesOn DEF LiveRead
    <2>6. Spared(call[c])'
      <3>1. On(call'[c], "drop blobs") =>
               \A t \in Tagged' : refs'[t] # call'[c].m /\ FilesOf[refs'[t]] \subseteq call'[c].keep
        BY <1>6, <2>3, <2>4, <2>5 DEF Carries
      <3>2. \A step \in {"put files", "put manifest", "put ref", "read refs", "read orphan",
                         "read live", "drop manifest"} : ~On(call'[c], step)
        BY <2>5
      <3> QED BY <3>1, <3>2 DEF Spared
    <2> QED BY <1>4, <1>5, <1>6, <2>3, <2>6
  <1>16. CASE DropBlobs(c)
    <2>1. At(c, "drop blobs")
      BY <1>16 DEF DropBlobs
    <2>2. PICK o \in {"ok", "lost"} :
          /\ \E gone \in IF o = "ok" THEN {Doomed(c)} ELSE SUBSET Doomed(c) : blobs' = blobs \ gone
          /\ GoesIf(c, o = "ok")
      BY <1>16 DEF DropBlobs
    <2>3. PICK gone \in SUBSET Doomed(c) : blobs' = blobs \ gone
      BY <2>2
    <2>4. Ready(call[c]) /\ Head(call[c].plan) = "drop blobs" /\ After("drop blobs") = {"drop manifest"}
      BY <1>2, <2>1, StillReady DEF At, After
    <2>5. manifests' = manifests /\ refs' = refs
      BY <1>16 DEF DropBlobs
    <2>6. \A u \in Tagged : refs[u] # call[c].m /\ FilesOf[refs[u]] \subseteq call[c].keep
      BY <1>1, <2>1 DEF Spared, On, At
    <2>7. (\A u \in Tagged : Complete(refs[u]))'
      <3>1. \A u \in Tagged : FilesOf[refs[u]] \subseteq blobs'
        BY <1>1, <2>3, <2>6 DEF Doomed, Complete
      <3> QED BY <1>1, <1>6, <2>5, <3>1 DEF Complete
    <2>8. Spared(call[c])'
      <3>1. CASE o # "ok"
        BY <1>2, <2>2, <3>1, EndsTo, SparedElsewhere DEF GoesIf
      <3>2. CASE o = "ok"
        <4>1. \A step : On(call'[c], step) => step = "drop manifest" /\ Carries(call'[c], call[c])
          BY <1>2, <2>2, <2>4, <3>2, GoesOn DEF GoesIf
        <4>2. On(call'[c], "drop manifest") => \A t \in Tagged' : refs'[t] # call'[c].m
          BY <1>6, <2>5, <2>6, <4>1 DEF Carries
        <4>3. \A step \in {"put files", "put manifest", "put ref", "read refs", "read orphan",
                           "read live", "drop blobs"} : ~On(call'[c], step)
          BY <4>1
        <4> QED BY <4>2, <4>3 DEF Spared
      <3> QED BY <3>1, <3>2
    <2> QED BY <1>4, <1>6, <2>5, <2>7, <2>8
  <1>17. CASE DropManifest(c)
    <2>1. At(c, "drop manifest")
      BY <1>17 DEF DropManifest
    <2>2. PICK o \in Outcomes :
          /\ manifests' = IF o = "lost" THEN manifests ELSE manifests \ {call[c].m}
          /\ GoesIf(c, o = "ok")
      BY <1>17 DEF DropManifest
    <2>3. Ready(call[c]) /\ Head(call[c].plan) = "drop manifest"
      BY <1>2, <2>1, StillReady DEF At
    <2>4. blobs' = blobs /\ refs' = refs
      BY <1>17 DEF DropManifest
    <2>5. \A u \in Tagged : refs[u] # call[c].m
      BY <1>1, <2>1 DEF Spared, On, At
    <2>6. (\A u \in Tagged : Complete(refs[u]))'
      <3>1. \A u \in Tagged : refs[u] \in manifests'
        BY <1>1, <2>2, <2>5 DEF Complete
      <3> QED BY <1>1, <1>6, <2>4, <3>1 DEF Complete
    <2>7. \A step : ~On(call'[c], step)
      <3>1. CASE o # "ok"
        BY <1>2, <2>2, <3>1, EndsTo DEF GoesIf
      <3>2. CASE o = "ok"
        <4>1. After("drop manifest") = {}
          BY DEF After
        <4> QED BY <1>2, <2>2, <2>3, <3>2, <4>1, GoesTo DEF GoesIf
      <3> QED BY <3>1, <3>2
    <2> QED BY <1>4, <1>6, <2>4, <2>6, <2>7, SparedElsewhere
  <1> QED BY <1>7, <1>8, <1>9, <1>10, <1>11, <1>12, <1>13, <1>14, <1>15, <1>16, <1>17 DEF Deleting

\* Loads and listings change nothing in the store.
LEMMA LoadingStores ==
    ASSUME NEW c \in Clients, Loading(c)
    PROVE  UNCHANGED <<refs, manifests, blobs, raced, blind, replaced>>
  <1>1. CASE Resolve(c)
    BY <1>1 DEF Resolve, stored, history
  <1>2. CASE FillRefCache(c)
    BY <1>2 DEF FillRefCache, stored, history
  <1>3. CASE LoadManifest(c)
    BY <1>3 DEF LoadManifest, stored, history
  <1>4. CASE LoadEntrypoint(c)
    BY <1>4 DEF LoadEntrypoint, stored, history
  <1>5. CASE HydrateFile(c)
    BY <1>5 DEF HydrateFile, stored, history
  <1>6. CASE Scan(c)
    BY <1>6 DEF Scan, stored, history
  <1>7. CASE ReadPreferred(c)
    BY <1>7 DEF ReadPreferred, stored, history
  <1>8. CASE Describe(c)
    BY <1>8 DEF Describe, stored, history
  <1>9. CASE Described(c)
    BY <1>9 DEF Described, stored, history
  <1> QED BY <1>1, <1>2, <1>3, <1>4, <1>5, <1>6, <1>7, <1>8, <1>9 DEF Loading

\* No step leaves a tag incomplete or a collection ignorant of a tag.
LEMMA NextSpares ==
    ASSUME Typed, Alone, Sparing, [Next]_vars
    PROVE  Sparing'
  <1> SUFFICES ASSUME ~raced', ~blind'
               PROVE  (\A t \in Tagged : Complete(refs[t]))' /\ \A d \in Clients : Spared(call[d])'
    BY DEF Sparing
  <1>1. /\ ~raced /\ ~blind /\ Typed'
        /\ \A t \in Tagged : Complete(refs[t])
        /\ \A d \in Clients : Spared(call[d])
    BY Remembered, NextTyped DEF Sparing
  <1>2. ASSUME UNCHANGED <<refs, manifests, blobs>>
        PROVE  (\A t \in Tagged : Complete(refs[t]))'
    BY <1>1, <1>2 DEF Tagged, Complete
  <1>3. ASSUME UNCHANGED <<refs, manifests, blobs>>, NEW d \in Clients, Same(call'[d], call[d])
        PROVE  Spared(call[d])'
    <2>1. \A t \in Tagged' : t \in Tagged /\ refs'[t] = refs[t]
      BY <1>3 DEF Tagged
    <2> QED BY <1>1, <1>3, <2>1, SparedFrame
  <1>4. ASSUME NEW c \in Clients, Publishing(c)
        PROVE  (\A t \in Tagged : Complete(refs[t]))' /\ \A d \in Clients : Spared(call[d])'
    BY <1>1, <1>4, PublishingSpares
  <1>5. ASSUME NEW c \in Clients, Deleting(c)
        PROVE  (\A t \in Tagged : Complete(refs[t]))' /\ \A d \in Clients : Spared(call[d])'
    BY <1>1, <1>5, DeletingSpares
  <1>6. ASSUME NEW c \in Clients, Loading(c)
        PROVE  (\A t \in Tagged : Complete(refs[t]))' /\ \A d \in Clients : Spared(call[d])'
    <2>1. UNCHANGED <<refs, manifests, blobs>>
      BY <1>6, LoadingStores
    <2>2. Moved(c) /\ call[c].kind \notin {"publish", "delete"}
      BY <1>6, StepFrame, KindsOfSteps DEF Step
    <2>3. \A step : On(call'[c], step) => call'[c].kind \in Kinds /\ step \in StepsOf(call'[c].kind)
      <3>1. CallOK(call'[c]) /\ call'[c] \in CallType
        BY <1>1 DEF Typed, CallsTyped
      <3>2. call'[c].kind \in Kinds /\ Planned(call'[c].kind, call'[c].plan)
        BY <3>1 DEF CallOK, CallType
      <3> QED BY <3>2, PlannedTail DEF On
    <2>4. Spared(call[c])'
      BY <2>2, <2>3, KindOfStep, SparedElsewhere DEF Moved
    <2> QED BY <1>2, <1>3, <2>1, <2>2, <2>4 DEF Moved
  <1>7. ASSUME NEW c \in Clients, NEW kind \in Offered, NEW t \in Tags, NEW m \in Manifests,
               Start(c, kind, t, m)
        PROVE  (\A u \in Tagged : Complete(refs[u]))' /\ \A d \in Clients : Spared(call[d])'
    <2>1. UNCHANGED <<refs, manifests, blobs>>
      BY <1>7 DEF Start, stored
    <2>2. /\ \A d \in Clients \ {c} : Same(call'[d], call[d])
          /\ call'[c].kind = kind /\ call'[c].plan # <<>>
          /\ Head(call'[c].plan) \in {"find ref", "resolve", "scan", "put files"}
          /\ kind = "publish" => call'[c].files = FilesOf[call'[c].m]
          /\ kind # "publish" => Head(call'[c].plan) # "put files"
      BY <1>7, StartTyped
    <2>3. On(call'[c], "put files") => FilesOf[call'[c].m] \ call'[c].files = {}
      BY <2>2 DEF On
    <2>4. \A step \in {"put manifest", "put ref", "read refs", "read orphan", "read live",
                       "drop blobs", "drop manifest"} : ~On(call'[c], step)
      BY <2>2 DEF On
    <2>5. Spared(call[c])'
      BY <2>3, <2>4 DEF Spared
    <2> QED BY <1>2, <1>3, <2>1, <2>2, <2>5
  <1>8. CASE UNCHANGED <<stored, call>>
    BY <1>1, <1>2, <1>3, <1>8 DEF stored, Same
  <1>9. ASSUME NEW i \in Instances, NEW t \in Tags, Expire(i, t)
        PROVE  UNCHANGED <<stored, call>>
    BY <1>9 DEF Expire
  <1>10. CASE UNCHANGED vars
    BY <1>8, <1>10 DEF vars
  <1> QED BY <1>4, <1>5, <1>6, <1>7, <1>8, <1>9, <1>10 DEF Next, Step

StoreInv == Typed /\ Alone /\ Sparing

\* At the start every tag is complete and no call is in flight.
LEMMA InitSpares ==
    ASSUME Init
    PROVE  Alone /\ Sparing
  <1>1. \A c \in Clients : call[c].plan = <<>>
    BY DEF Init, Idle
  <1>2. Alone
    BY <1>1 DEF Alone, Busy
  <1>3. \A c \in Clients : Spared(call[c])
    BY <1>1 DEF Spared, On
  <1>4. \A t \in Tagged : Complete(refs[t])
    BY DEF Init, Tagged, Complete
  <1> QED BY <1>2, <1>3, <1>4 DEF Sparing

\* The inductive invariant of the store: types, the history of overlaps, and what
\* publishes and deletes know.
LEMMA StoreInvHolds == Spec => []StoreInv
  <1>1. Init => StoreInv
    BY InitTyped, InitSpares DEF StoreInv
  <1>2. StoreInv /\ [Next]_vars => StoreInv'
    BY NextTyped, NextAlone, NextSpares DEF StoreInv
  <1> QED BY <1>1, <1>2, PTL DEF Spec

\* However many deletes run at once, and whatever fails in them but the reads
\* of what they keep, a collection spares every manifest and every blob that a
\* tag still needs, as long as no publish overlaps a delete.
THEOREM CollectionsSpareTagged == Spec => []CollectionSparesTagged
  <1>1. StoreInv => CollectionSparesTagged
    BY DEF StoreInv, Sparing, CollectionSparesTagged
  <1> QED BY <1>1, StoreInvHolds, PTL

-----------------------------------------------------------------------------
(* Loads of what is tagged                                                   *)

\* A fetch of a stored object gets it unless a storage call fails.
LEMMA FetchGets ==
    ASSUME StoreTyped, NEW c \in Clients, Host(c) \in Instances, NEW key \in manifests \cup blobs, NEW o,
           Fetch(c, key, o), faults' = faults
    PROVE  Got(c, key)
  <1>1. CASE key \in objects[Host(c)]
    BY <1>1 DEF Fetch, Got
  <1>2. CASE key \notin objects[Host(c)]
    <2>1. S3(o) /\ objects' = IF o = "ok" /\ key \in manifests \cup blobs
                              THEN [objects EXCEPT ![Host(c)] = @ \cup {key}] ELSE objects
      BY <1>2 DEF Fetch
    <2>2. o = "ok"
      BY <2>1, S3Counts DEF StoreTyped
    <2> QED BY <2>1, <2>2 DEF Got, StoreTyped
  <1> QED BY <1>1, <1>2

\* A call that goes on does not end in an error.
LEMMA GoesEndsWell ==
    ASSUME CallsTyped, NEW c \in Clients, NEW r, Ready(r), Goes(c, r)
    PROVE  call'[c].end \in {"none", "ok"}
  <1>1. CASE call'[c].plan = <<>>
    <2>1. call'[c] = Ended(r, "ok")
      BY <1>1, GoesTo
    <2> QED BY <2>1, EndedOK DEF Ready
  <1>2. CASE call'[c].plan # <<>>
    <2>1. On(call'[c], Head(call'[c].plan))
      BY <1>2 DEF On
    <2>2. call'[c].end = r.end
      BY <2>1, GoesTo DEF Carries
    <2> QED BY <2>2 DEF Ready
  <1> QED BY <1>1, <1>2

\* A load whose tag still names the manifest it resolved to fails only with a
\* storage call: the manifest and its files are there.
LEMMA LoadOfTagged ==
    ASSUME StoreInv, [Next]_vars, NEW c \in Clients,
           At(c, "manifest") \/ At(c, "entry") \/ At(c, "hydrate"),
           faults' = faults, ~raced, ~blind, refs[call[c].tag] = call[c].m
    PROVE  call'[c].end # "error"
  <1> DEFINE m == call[c].m
  <1>1. Typed /\ CallsTyped /\ StoreTyped
    BY DEF StoreInv, Typed
  <1>2. PICK step \in {"manifest", "entry", "hydrate"} : At(c, step)
    OBVIOUS
  <1>3. /\ call[c] \in CallType /\ call[c].plan # <<>> /\ call[c].tag \in Tags /\ m \in Manifests
        /\ Host(c) \in Instances /\ call[c].end = "none"
        /\ Planned(call[c].kind, call[c].plan) /\ Head(call[c].plan) = step
    <2>1. step \in Steps \ {"find ref", "resolve", "scan", "info"}
      BY DEF Steps
    <2>2. m \in Manifests
      BY <1>1, <1>2, <2>1, Resolved
    <2> QED BY <1>1, <1>2, <2>2, AtFacts
  <1>4. m \in manifests /\ FilesOf[m] \subseteq blobs /\ EntryOf[m] \in FilesOf[m] /\ FilesOf[m] \subseteq Files
    <2>1. call[c].tag \in Tagged
      BY <1>3, ManifestsAssumption DEF Tagged
    <2>2. Complete(m)
      BY <2>1 DEF StoreInv, Sparing
    <2> QED BY <1>3, <2>2, ManifestsAssumption DEF Complete
  <1>5. CASE call'[c].end = call[c].end
    BY <1>3, <1>5
  <1>6. CASE LoadManifest(c)
    <2>1. At(c, "manifest") /\ \E o \in {"ok", "lost"} : Fetch(c, m, o)
      BY <1>6 DEF LoadManifest
    <2>2. Got(c, m)
      BY <1>1, <1>3, <1>4, <2>1, FetchGets
    <2> DEFINE r == [call[c] EXCEPT !.files = FilesOf[m]]
    <2>3. Goes(c, r)
      BY <1>6, <2>2 DEF LoadManifest
    <2>4. /\ r \in CallType /\ r.kind = call[c].kind /\ r.plan = call[c].plan
          /\ r.live = call[c].live /\ r.at = call[c].at /\ r.tag = call[c].tag
          /\ r.end = call[c].end /\ r.m = call[c].m /\ r.files = FilesOf[m]
      BY <1>3, <1>4 DEF CallType
    <2> HIDE DEF r
    <2>5. IF call[c].kind = "delete" THEN call[c].live \subseteq Manifests ELSE call[c].live \subseteq Names
      BY <1>1, <2>1, AtFacts
    <2>6. Ready(r)
      BY <1>3, <2>4, <2>5 DEF Ready, Host
    <2> QED BY <1>1, <2>3, <2>6, GoesEndsWell
  <1>7. CASE LoadEntrypoint(c)
    <2>1. At(c, "entry") /\ \E o \in {"ok", "lost"} : Fetch(c, EntryOf[m], o)
      BY <1>7 DEF LoadEntrypoint
    <2>2. Got(c, EntryOf[m])
      BY <1>1, <1>3, <1>4, <2>1, FetchGets
    <2>3. Goes(c, call[c])
      BY <1>7, <2>2 DEF LoadEntrypoint, GoesIf
    <2>4. Ready(call[c])
      BY <1>1, <2>1, StillReady
    <2> QED BY <1>1, <2>3, <2>4, GoesEndsWell
  <1>8. CASE HydrateFile(c)
    <2>1. At(c, "hydrate")
      BY <1>8 DEF HydrateFile
    <2> DEFINE q(f) == [call[c] EXCEPT !.files = @ \ {f}]
    <2>2. PICK f \in call[c].files : \E o \in {"ok", "lost"} :
          /\ Fetch(c, f, o)
          /\ CASE ~Got(c, f) -> Ends(c, "error")
               [] Got(c, f) /\ q(f).files = {} -> Goes(c, q(f))
               [] OTHER -> Stays(c, q(f))
      BY <1>8 DEF HydrateFile
    <2>3. Got(c, f)
      <3>1. f \in blobs
        BY <1>1, <1>4, <2>1, AtFacts
      <3> QED BY <1>1, <1>3, <2>2, <3>1, FetchGets
    <2> DEFINE r == q(f)
    <2>4. Goes(c, r) \/ Stays(c, r)
      BY <2>2, <2>3
    <2>5. /\ r \in CallType /\ r.kind = call[c].kind /\ r.plan = call[c].plan /\ r.live = call[c].live
          /\ r.at = call[c].at /\ r.tag = call[c].tag /\ r.end = call[c].end /\ r.m = call[c].m
      BY <1>3 DEF CallType
    <2> HIDE DEF r
    <2>6. Ready(r)
      <3>1. Ready(call[c])
        BY <1>1, <2>1, StillReady
      <3>2. \A next \in After("hydrate") : next \notin {"put files", "entry", "hydrate"}
        BY DEF After
      <3>3. Head(call[c].plan) = "hydrate"
        BY <2>1 DEF At
      <3> QED BY <2>5, <3>1, <3>2, <3>3 DEF Ready
    <2>7. CASE Goes(c, r)
      BY <1>1, <2>6, <2>7, GoesEndsWell
    <2>8. CASE Stays(c, r)
      BY <1>1, <1>3, <2>5, <2>8 DEF Stays, CallsTyped
    <2> QED BY <2>4, <2>7, <2>8
  <1>9. ASSUME Step(c)
        PROVE  LoadManifest(c) \/ LoadEntrypoint(c) \/ HydrateFile(c)
    <2>1. Head(call[c].plan) \in {"manifest", "entry", "hydrate"}
      BY <1>3
    <2>2. ~Publishing(c)
      BY <2>1 DEF Publishing, PutFile, PutManifest, PutRef, CacheRef, At
    <2>3. ~Deleting(c)
      <3>1. ASSUME NEW s \in {"find ref", "drop ref", "forget ref", "list refs", "read refs",
                              "read orphan", "read live", "drop blobs", "drop manifest"}
            PROVE  ~At(c, s)
        BY <2>1 DEF At
      <3> QED BY <3>1, StepsAt
    <2>4. /\ ~Resolve(c) /\ ~FillRefCache(c) /\ ~Scan(c) /\ ~ReadPreferred(c)
          /\ ~Describe(c) /\ ~Described(c)
      <3>1. ASSUME NEW s \in {"resolve", "fill", "scan", "info", "describe"}
            PROVE  ~At(c, s)
        BY <2>1 DEF At
      <3> QED BY <3>1 DEF Resolve, FillRefCache, Scan, ReadPreferred, Describe, Described
    <2> QED BY <1>9, <2>2, <2>3, <2>4 DEF Step, Loading
  <1>10. ASSUME NEW d \in Clients, Step(d), d # c
         PROVE  call'[c].end = call[c].end
    <2>1. Moved(d)
      BY <1>1, <1>10, StepFrame
    <2> QED BY <1>10, <2>1 DEF Moved, Same
  <1>11. ASSUME NEW d \in Clients, NEW kind \in Offered, NEW t \in Tags, NEW n \in Manifests,
                Start(d, kind, t, n)
         PROVE  call'[c].end = call[c].end
    <2>1. d # c
      BY <1>3, <1>11 DEF Start
    <2>2. Same(call'[c], call[c])
      BY <1>1, <1>11, <2>1, StartTyped
    <2> QED BY <2>2 DEF Same
  <1>12. ASSUME NEW i \in Instances, NEW t \in Tags, Expire(i, t)
         PROVE  call'[c].end = call[c].end
    BY <1>12 DEF Expire
  <1>13. CASE UNCHANGED vars
    BY <1>5, <1>13 DEF vars
  <1> QED BY <1>5, <1>6, <1>7, <1>8, <1>9, <1>10, <1>11, <1>12, <1>13 DEF Next

\* A load that resolved a tag to the manifest the tag still names fails only if
\* a storage call fails: no delete takes the manifest or a file from under it.
THEOREM LoadsFailOnlyWhenGone == Spec => LoadFailsOnlyWhenGone
  <1>1. ASSUME StoreInv, [Next]_vars
        PROVE  [\A c \in Clients :
                  (/\ At(c, "manifest") \/ At(c, "entry") \/ At(c, "hydrate")
                   /\ call'[c].end = "error" /\ faults' = faults)
                     => (raced \/ blind \/ refs[call[c].tag] # call[c].m)]_vars
    BY <1>1, LoadOfTagged
  <1> QED BY <1>1, StoreInvHolds, PTL DEF Spec, LoadFailsOnlyWhenGone

-----------------------------------------------------------------------------
(* Listings                                                                  *)

\* A storage call that fails is counted, and a tag a write changes is steady
\* for nobody.
LEMMA FetchCounts ==
    ASSUME StoreTyped, NEW c \in Clients, NEW key, NEW o, Fetch(c, key, o)
    PROVE  faults' <= faults
  <1>1. CASE key \in objects[Host(c)]
    BY <1>1, LimitsAssumption DEF Fetch, StoreTyped
  <1>2. CASE key \notin objects[Host(c)]
    BY <1>2, S3Counts DEF Fetch, StoreTyped
  <1> QED BY <1>1, <1>2

\* Failures left only ever decrease, and a collection turns blind only with one.
LEMMA NextCounts ==
    ASSUME Typed, [Next]_vars
    PROVE  faults' <= faults /\ (blind' => blind \/ faults' < faults)
  <1>1. StoreTyped /\ faults \in 0..MaxFaults /\ faults' \in 0..MaxFaults /\ MaxFaults \in Nat
    BY NextTyped, LimitsAssumption DEF Typed, StoreTyped
  <1>2. ASSUME UNCHANGED <<faults, blind>>
        PROVE  faults' <= faults /\ (blind' => blind \/ faults' < faults)
    BY <1>1, <1>2
  <1>3. ASSUME NEW o, S3(o), blind' = blind \/ blind' = (blind \/ o # "ok")
        PROVE  faults' <= faults /\ (blind' => blind \/ faults' < faults)
    <2>1. faults' <= faults /\ (faults' = faults <=> o = "ok")
      BY <1>1, <1>3, S3Counts
    <2>2. o = "ok" \/ faults' < faults
      BY <1>1, <2>1
    <2>3. blind' => blind \/ o # "ok"
      BY <1>3, Zenon
    <2> QED BY <2>1, <2>2, <2>3
  <1>4. ASSUME NEW c \in Clients, NEW key, NEW o, Fetch(c, key, o), blind' = blind
        PROVE  faults' <= faults /\ (blind' => blind \/ faults' < faults)
    BY <1>1, <1>4, FetchCounts
  <1>5. ASSUME NEW c \in Clients, Publishing(c)
        PROVE  faults' <= faults /\ (blind' => blind \/ faults' < faults)
    <2>1. CASE PutFile(c)
      BY <1>3, <2>1 DEF PutFile, history
    <2>2. CASE PutManifest(c)
      BY <1>3, <2>2 DEF PutManifest, history
    <2>3. CASE PutRef(c)
      BY <1>3, <2>3 DEF PutRef, history
    <2>4. CASE CacheRef(c)
      BY <1>2, <2>4 DEF CacheRef, history
    <2> QED BY <1>5, <2>1, <2>2, <2>3, <2>4 DEF Publishing
  <1>6. ASSUME NEW c \in Clients, Deleting(c)
        PROVE  faults' <= faults /\ (blind' => blind \/ faults' < faults)
    <2>1. CASE FindRef(c)
      BY <1>3, <2>1 DEF FindRef, history
    <2>2. CASE DropRef(c)
      BY <1>3, <2>2 DEF DropRef, history
    <2>3. CASE ForgetRef(c)
      BY <1>2, <2>3 DEF ForgetRef, history
    <2>4. CASE ListRefs(c)
      BY <1>3, <2>4 DEF ListRefs, history
    <2>5. CASE ReadRef(c)
      BY <1>3, <2>5 DEF ReadRef, history
    <2>6. CASE RefsRead(c)
      BY <1>2, <2>6 DEF RefsRead, history
    <2>7. CASE ReadOrphan(c)
      BY <1>3, <2>7 DEF ReadOrphan, history
    <2>8. CASE ReadLive(c)
      BY <1>3, <2>8 DEF ReadLive, history
    <2>9. CASE LiveRead(c)
      BY <1>2, <2>9 DEF LiveRead, history
    <2>10. CASE DropBlobs(c)
      BY <1>3, <2>10 DEF DropBlobs, history
    <2>11. CASE DropManifest(c)
      BY <1>3, <2>11 DEF DropManifest, history
    <2> QED BY <1>6, <2>1, <2>2, <2>3, <2>4, <2>5, <2>6, <2>7, <2>8, <2>9, <2>10, <2>11 DEF Deleting
  <1>7. ASSUME NEW c \in Clients, Loading(c)
        PROVE  faults' <= faults /\ (blind' => blind \/ faults' < faults)
    <2>1. CASE Resolve(c)
      BY <1>2, <1>3, <2>1 DEF Resolve, history
    <2>2. CASE FillRefCache(c)
      BY <1>2, <2>2 DEF FillRefCache, history
    <2>3. CASE LoadManifest(c)
      BY <1>4, <2>3 DEF LoadManifest, history
    <2>4. CASE LoadEntrypoint(c)
      BY <1>4, <2>4 DEF LoadEntrypoint, history
    <2>5. CASE HydrateFile(c)
      BY <1>4, <2>5 DEF HydrateFile, history
    <2>6. CASE Scan(c)
      BY <1>3, <2>6 DEF Scan, history
    <2>7. CASE ReadPreferred(c)
      BY <1>3, <2>7 DEF ReadPreferred, history
    <2>8. CASE Describe(c)
      BY <1>4, <2>8 DEF Describe, history
    <2>9. CASE Described(c)
      BY <1>2, <2>9 DEF Described, history
    <2> QED BY <1>7, <2>1, <2>2, <2>3, <2>4, <2>5, <2>6, <2>7, <2>8, <2>9 DEF Loading
  <1>8. ASSUME NEW c \in Clients, NEW kind \in Offered, NEW t \in Tags, NEW m \in Manifests,
               Start(c, kind, t, m)
        PROVE  faults' <= faults /\ (blind' => blind \/ faults' < faults)
    BY <1>2, <1>8 DEF Start
  <1>9. ASSUME NEW i \in Instances, NEW t \in Tags, Expire(i, t)
        PROVE  faults' <= faults /\ (blind' => blind \/ faults' < faults)
    BY <1>2, <1>9 DEF Expire, history
  <1>10. CASE UNCHANGED vars
    BY <1>2, <1>10 DEF vars, history
  <1> QED BY <1>5, <1>6, <1>7, <1>8, <1>9, <1>10 DEF Next, Step

\* So as long as nothing has failed no collection is blind.
LEMMA NextCountsFailing ==
    ASSUME Typed, FailingIsCounted, [Next]_vars
    PROVE  FailingIsCounted'
  <1>1. faults' <= faults /\ (blind' => blind \/ faults' < faults)
    BY NextCounts
  <1>2. faults \in 0..MaxFaults /\ faults' \in 0..MaxFaults /\ MaxFaults \in Nat
    BY NextTyped, LimitsAssumption DEF Typed, StoreTyped
  <1> QED BY <1>1, <1>2 DEF FailingIsCounted

\* A step leaves the tags of every name that a call still takes for steady.
LEMMA StepChanges ==
    ASSUME Typed, NEW c \in Clients, Step(c)
    PROVE  \A d \in Clients, t \in Tags : t[1] \in call'[d].steady => refs'[t] = refs[t]
  <1>1. CASE PutRef(c) \/ DropRef(c)
    <2> DEFINE u == call[c].tag
    <2>1. u \in Tags
      BY <1>1, AtFacts DEF PutRef, DropRef, Typed
    <2>2. \/ refs' = refs
          \/ /\ \E m : refs' = [refs EXCEPT ![u] = m]
             /\ \E o : call' = Changed([call EXCEPT ![c] = Wrote(c, o)], u)
      BY <1>1 DEF PutRef, DropRef
    <2>3. CASE refs' = refs
      BY <2>3
    <2>4. CASE \E m : refs' = [refs EXCEPT ![u] = m]
      <3>1. PICK m : refs' = [refs EXCEPT ![u] = m]
        BY <2>4
      <3>2. CASE refs' = refs
        BY <3>2
      <3>3. CASE refs' # refs
        <4>1. PICK o : call' = Changed([call EXCEPT ![c] = Wrote(c, o)], u)
          BY <2>2, <3>3
        <4>2. \A d \in Clients : u[1] \notin call'[d].steady
          <5> DEFINE calls == [call EXCEPT ![c] = Wrote(c, o)]
          <5>1. \A d \in Clients : calls[d] \in CallType
            <6>1. CallsTyped /\ \E step \in {"put ref", "drop ref"} : At(c, step)
              BY <1>1 DEF PutRef, DropRef, Typed
            <6>2. Ready(call[c])
              BY <6>1, StillReady
            <6>3. Wrote(c, o) \in CallType
              <7>1. Len(call[c].plan) # 1
                <8>1. "put ref" \notin Final /\ "drop ref" \notin Final
                  BY DEF Final
                <8> QED BY <6>1, <8>1, AtFacts, PlannedTail
              <7>2. CallOK(Wrote(c, o))
                BY <6>2, <7>1, NextOK, EndedOK DEF Wrote, Ready
              <7> QED BY <7>2 DEF CallOK
            <6> QED BY <6>1, <6>3 DEF CallsTyped
          <5>2. \A d \in Clients : call'[d] = [calls[d] EXCEPT !.steady = @ \ {u[1]}]
            BY <4>1 DEF Changed
          <5> HIDE DEF calls
          <5>3. \A d \in Clients : call'[d].steady = calls[d].steady \ {u[1]}
            BY <5>1, <5>2 DEF CallType
          <5> QED BY <5>3
        <4>3. \A t \in Tags : t # u => refs'[t] = refs[t]
          BY <3>1 DEF Typed, StoreTyped
        <4> QED BY <4>2, <4>3
      <3> QED BY <3>2, <3>3
    <2> QED BY <2>2, <2>3, <2>4
  <1>2. CASE ~(PutRef(c) \/ DropRef(c))
    <2>1. CASE Publishing(c)
      BY <1>2, <2>1 DEF Publishing, PutFile, PutManifest, CacheRef, stored
    <2>2. CASE Deleting(c)
      BY <1>2, <2>2 DEF Deleting, FindRef, ForgetRef, ListRefs, ReadRef, RefsRead, ReadOrphan,
           ReadLive, LiveRead, DropBlobs, DropManifest, stored
    <2>3. CASE Loading(c)
      BY <2>3, LoadingStores
    <2> QED BY <2>1, <2>2, <2>3 DEF Step
  <1> QED BY <1>1, <1>2

\* What another call has listed of the names that stay steady is still so.
LEMMA ListedFrame ==
    ASSUME Typed, Typed', NEW d \in Clients, Same(call'[d], call[d]), Listed(call[d]),
           \A t \in Tags : t[1] \in call'[d].steady => refs'[t] = refs[t]
    PROVE  Listed(call[d])'
  <1> DEFINE r == call[d]  q == call'[d]
  <1>1. /\ q.kind = r.kind /\ q.plan = r.plan /\ q.m = r.m /\ q.tags = r.tags /\ q.live = r.live
        /\ q.found = r.found /\ q.end = r.end /\ q.steady \subseteq r.steady
    BY DEF Same
  <1>2. \A step : On(q, step) <=> On(r, step)
    BY <1>1 DEF On
  <1>3. r.tags \subseteq Tags
    BY DEF Typed, CallsTyped, CallType
  <1>4. \A t \in Tags : t[1] \in q.steady => refs'[t] = refs[t]
    OBVIOUS
  <1>5. Listed(r)
    OBVIOUS
  <1> HIDE DEF r, q
  <1>6. \A n \in q.steady : n \in NamesIn(Tagged') <=> n \in NamesIn(Tagged)
    BY <1>4 DEF NamesIn, Tagged
  <1>7. ASSUME q.kind = "list"
        PROVE  /\ On(q, "scan") => q.found = {}
               /\ On(q, "info") \/ On(q, "describe") =>
                     \A t \in q.tags : t[1] \in q.steady => t \in Tagged'
    <2>1. On(r, "scan") => r.found = {}
      BY <1>1, <1>5, <1>7 DEF Listed
    <2>2. On(r, "info") \/ On(r, "describe") => \A t \in r.tags : t[1] \in r.steady => t \in Tagged
      BY <1>1, <1>5, <1>7 DEF Listed
    <2> QED BY <1>1, <1>2, <1>3, <1>4, <2>1, <2>2 DEF Tagged
  <1>8. ASSUME q.kind = "list", On(q, "info")
        PROVE  \A n \in q.steady : n \in NamesIn(Tagged') <=> n \in q.found \cup NamesIn(q.tags)
    <2>1. \A n \in r.steady : n \in NamesIn(Tagged) <=> n \in r.found \cup NamesIn(r.tags)
      BY <1>1, <1>2, <1>5, <1>8 DEF Listed
    <2> QED BY <1>1, <1>6, <2>1
  <1>9. ASSUME q.kind = "list", On(q, "describe")
        PROVE  /\ \A n \in q.steady :
                     n \in NamesIn(Tagged') <=> n \in q.found \cup NamesIn(q.tags) \cup q.live
               /\ \A n \in q.live \cap q.steady : \E t \in Tagged' : t[1] = n /\ refs'[t] = q.m
    <2>1. /\ \A n \in r.steady :
                n \in NamesIn(Tagged) <=> n \in r.found \cup NamesIn(r.tags) \cup r.live
          /\ \A n \in r.live \cap r.steady : \E t \in Tagged : t[1] = n /\ refs[t] = r.m
      BY <1>1, <1>2, <1>5, <1>9 DEF Listed
    <2>2. \A n \in q.steady : n \in NamesIn(Tagged') <=> n \in q.found \cup NamesIn(q.tags) \cup q.live
      BY <1>1, <1>6, <2>1
    <2>3. \A n \in q.live \cap q.steady : \E t \in Tagged' : t[1] = n /\ refs'[t] = q.m
      BY <1>1, <1>4, <2>1 DEF Tagged
    <2> QED BY <2>2, <2>3
  <1>10. ASSUME q.kind = "list", q.end = "ok"
         PROVE  \A n \in q.steady : n \in NamesIn(Tagged') <=> n \in q.found
    <2>1. \A n \in r.steady : n \in NamesIn(Tagged) <=> n \in r.found
      BY <1>1, <1>5, <1>10 DEF Listed
    <2> QED BY <1>1, <1>6, <2>1
  <1> QED BY <1>7, <1>8, <1>9, <1>10 DEF Listed, r, q

\* A listing's own step keeps every steady name either found, listed or in hand.
LEMMA ListStepLists ==
    ASSUME StoreInv, Typed', ~raced, ~blind, faults = MaxFaults, faults' = faults,
           NEW c \in Clients, Loading(c), call[c].kind = "list", Listed(call[c])
    PROVE  Listed(call[c])'
  <1> DEFINE r == call[c]  q == call'[c]
  <1>1. Typed /\ CallsTyped /\ StoreTyped /\ faults \in 0..MaxFaults
    BY DEF StoreInv, Typed, StoreTyped
  <1>2. refs' = refs /\ Tagged' = Tagged
    BY LoadingStores DEF Tagged
  <1>3. r \in CallType /\ Host(c) \in Instances
    <2>1. PICK step : At(c, step)
      BY StepsAt
    <2> QED BY <1>1, <2>1, AtFacts
  <1>4. ASSUME NEW o, S3(o)
        PROVE  o = "ok"
    BY <1>1, <1>4, S3Counts
  <1>5. ASSUME q.end # "ok", ~On(q, "scan"), ~On(q, "info"), ~On(q, "describe")
        PROVE  Listed(call[c])'
    BY <1>5 DEF Listed
  <1>6. CASE Scan(c)
    <2>1. At(c, "scan") /\ call[c].kind = "list"
      BY <1>6 DEF Scan
    <2> DEFINE seen == {t \in Tagged : t[1] \in InScope(c)}
               s == [call[c] EXCEPT !.tags = seen]
    <2>2. Goes(c, s)
      BY <1>4, <1>6, <2>1 DEF Scan
    <2>3. seen = Tagged
      BY <2>1 DEF InScope, Tagged, Tags
    <2>4. Ready(r) /\ Head(r.plan) = "scan" /\ After("scan") = {"info"} /\ "scan" \notin Final
          /\ r.end = "none"
      <3>1. After("scan") = {"info"} /\ "scan" \notin Final
        BY DEF After, Final
      <3>2. r.end = "none"
        BY <1>1, <2>1, AtFacts
      <3> QED BY <1>1, <2>1, <3>1, <3>2, StillReady DEF At
    <2>5. /\ s \in CallType /\ s.kind = r.kind /\ s.plan = r.plan
          /\ s.live = r.live /\ s.at = r.at /\ s.tag = r.tag /\ s.found = r.found
          /\ s.end = r.end /\ s.m = r.m /\ s.files = r.files /\ s.tags = Tagged
      BY <1>3, <2>3 DEF CallType, Tagged
    <2> HIDE DEF s
    <2>6. Ready(s)
      BY <2>4, <2>5 DEF Ready
    <2>7. /\ \A step : On(q, step) => step = "info" /\ Carries(q, s)
          /\ q.plan # <<>>
      <3>1. \A step : On(q, step) => step = "info" /\ Carries(q, s)
        BY <1>1, <2>2, <2>4, <2>5, <2>6, GoesOn
      <3>2. q.plan # <<>>
        BY <1>1, <2>2, <2>4, <2>5, <2>6, GoesTo
      <3> QED BY <3>1, <3>2
    <2>8. q.tags = Tagged /\ q.found = {} /\ q.end = "none"
      <3>1. Carries(q, s)
        <4>1. On(q, Head(q.plan))
          BY <2>7 DEF On
        <4> QED BY <2>7, <4>1
      <3>2. r.found = {}
        BY <2>1 DEF Listed, On, At
      <3> QED BY <2>4, <2>5, <3>1, <3>2 DEF Carries
    <2> HIDE DEF q, r
    <2>9. ~On(q, "scan") /\ ~On(q, "describe")
      BY <2>7
    <2> QED BY <1>2, <2>8, <2>9 DEF Listed, q
  <1>7. CASE Described(c)
    <2>1. At(c, "info") /\ r.tags = {} /\ Goes(c, r)
      BY <1>7 DEF Described
    <2>2. Ready(r) /\ Head(r.plan) = "info" /\ After("info") = {"resolve"} /\ r.end = "none"
      <3>1. r.end = "none"
        BY <1>1, <2>1, AtFacts
      <3> QED BY <1>1, <2>1, <3>1, StillReady DEF At, After
    <2>3. \A n \in r.steady : n \in NamesIn(Tagged) <=> n \in r.found
      BY <2>1 DEF Listed, On, At, NamesIn
    <2>4. \A step : On(q, step) => step = "resolve" /\ Carries(q, r)
      BY <1>1, <2>1, <2>2, GoesOn
    <2>5. CASE q.plan = <<>>
      <3>1. q = Ended(r, "ok")
        BY <1>1, <2>1, <2>2, <2>5, GoesTo
      <3>2. q.found = r.found /\ q.steady = r.steady
        BY <3>1 DEF Ended, Idle
      <3>3. ~On(q, "scan") /\ ~On(q, "info") /\ ~On(q, "describe")
        BY <2>5 DEF On
      <3> QED BY <1>2, <2>3, <3>2, <3>3 DEF Listed
    <2>6. CASE q.plan # <<>>
      <3>1. q.end = "none"
        <4>1. On(q, Head(q.plan))
          BY <2>6 DEF On
        <4> QED BY <2>2, <2>4, <4>1 DEF Carries
      <3>2. ~On(q, "scan") /\ ~On(q, "info") /\ ~On(q, "describe")
        BY <2>4
      <3> QED BY <1>5, <3>1, <3>2
    <2> QED BY <2>5, <2>6
  <1>8. CASE ReadPreferred(c)
    <2>1. At(c, "info")
      BY <1>8 DEF ReadPreferred
    <2> DEFINE m(n) == refs[Preferred(call[c].tags, n)]
               left1(n) == [call[c] EXCEPT !.tags = {t \in @ : t[1] # n}]
               named(n) == [left1(n) EXCEPT !.m = m(n), !.live = {n}, !.plan = <<"describe">> \o @]
    <2>2. PICK n \in {t[1] : t \in call[c].tags} :
            IF m(n) # None THEN Stays(c, named(n)) ELSE SkipOrFail(c, left1(n))
      <3>1. PICK n \in {t[1] : t \in call[c].tags} : \E o \in {"ok", "lost"} :
              /\ S3(o)
              /\ IF o = "ok" /\ m(n) # None THEN Stays(c, named(n)) ELSE SkipOrFail(c, left1(n))
        BY <1>8 DEF ReadPreferred
      <3>2. PICK o \in {"ok", "lost"} :
              /\ S3(o)
              /\ IF o = "ok" /\ m(n) # None THEN Stays(c, named(n)) ELSE SkipOrFail(c, left1(n))
        BY <3>1
      <3>3. o = "ok"
        BY <1>4, <3>2
      <3> QED BY <3>2, <3>3
    <2> DEFINE mn == m(n)  skip == left1(n)  name == named(n)
    <2>3. IF mn # None THEN q = name ELSE q = skip
      BY <1>1, <2>2 DEF Stays, SkipOrFail, CallsTyped, CallType
    <2>4. /\ skip.kind = r.kind /\ skip.plan = r.plan /\ skip.found = r.found /\ skip.steady = r.steady
          /\ skip.end = r.end /\ skip.tags = {t \in r.tags : t[1] # n}
      BY <1>3 DEF CallType
    <2>5. /\ name.kind = r.kind /\ name.plan = <<"describe">> \o r.plan /\ name.found = r.found
          /\ name.steady = r.steady /\ name.end = r.end /\ name.tags = {t \in r.tags : t[1] # n}
          /\ name.live = {n} /\ name.m = mn
      BY <1>3 DEF CallType
    <2>6. Head(r.plan) = "info" /\ r.end = "none" /\ r.plan \in Seq(Steps) /\ r.tags \subseteq Tags
          /\ Planned("list", r.plan) /\ r.plan # <<>>
      BY <1>1, <1>3, <2>1, AtFacts DEF CallType
    <2>7. Preferred(r.tags, n) \in r.tags /\ Preferred(r.tags, n)[1] = n
      BY <2>6, PreferredIsOne
    <2>8. /\ \A t \in r.tags : t[1] \in r.steady => t \in Tagged
          /\ \A k \in r.steady : k \in NamesIn(Tagged) <=> k \in r.found \cup NamesIn(r.tags)
      BY <2>1, <2>6 DEF Listed, On
    <2>9. \A k : k \in NamesIn({t \in r.tags : t[1] # n}) <=> k \in NamesIn(r.tags) /\ k # n
      BY DEF NamesIn
    <2>10. n \in NamesIn(r.tags)
      BY <2>2 DEF NamesIn
    <2>11. n \in r.steady => mn # None
      BY <2>7, <2>8 DEF Tagged
    <2>12. mn = refs[Preferred(r.tags, n)]
      OBVIOUS
    <2> HIDE DEF mn, skip, name
    <2>13. CASE mn # None
      <3>1. q = name
        BY <2>3, <2>13
      <3>2. /\ q.found = r.found /\ q.steady = r.steady /\ q.end = "none" /\ q.live = {n} /\ q.m = mn
            /\ q.tags = {t \in r.tags : t[1] # n} /\ q.plan = <<"describe">> \o r.plan
        BY <2>5, <2>6, <3>1
      <3>3. \A step : On(q, step) => step = "describe"
        <4>1. "describe" \in StepsOf("list") /\ "describe" \in Steps /\ "info" \in After("describe")
          BY DEF StepsOf, Steps, After
        <4>2. Head(<<"describe">> \o r.plan) = "describe"
          <5> HIDE DEF r
          <5> QED BY <2>6, <4>1, PlannedPrefix DEF Kinds
        <4> QED BY <3>2, <4>2 DEF On
      <3> HIDE DEF q, r
      <3>4. \A t \in q.tags : t[1] \in q.steady => t \in Tagged
        BY <2>8, <3>2
      <3>5. \A k \in q.steady : k \in NamesIn(Tagged) <=> k \in q.found \cup NamesIn(q.tags) \cup q.live
        BY <2>8, <2>9, <2>10, <3>2
      <3>6. \A k \in q.live \cap q.steady : \E t \in Tagged : t[1] = k /\ refs[t] = q.m
        BY <2>7, <2>8, <2>12, <3>2
      <3>7. ~On(q, "scan") /\ ~On(q, "info") /\ q.end # "ok"
        BY <3>2, <3>3
      <3> QED BY <1>2, <3>4, <3>5, <3>6, <3>7 DEF Listed, q
    <2>14. CASE mn = None
      <3>1. q = skip
        BY <2>3, <2>14
      <3>2. /\ q.found = r.found /\ q.steady = r.steady /\ q.end = "none"
            /\ q.tags = {t \in r.tags : t[1] # n} /\ q.plan = r.plan
        BY <2>4, <2>6, <3>1
      <3>3. \A step : On(q, step) => step = "info"
        BY <2>6, <3>2 DEF On
      <3>4. n \notin q.steady
        BY <2>11, <2>14, <3>2
      <3> HIDE DEF q, r
      <3>5. \A t \in q.tags : t[1] \in q.steady => t \in Tagged
        BY <2>8, <3>2
      <3>6. \A k \in q.steady : k \in NamesIn(Tagged) <=> k \in q.found \cup NamesIn(q.tags)
        BY <2>8, <2>9, <3>2, <3>4
      <3>7. ~On(q, "scan") /\ ~On(q, "describe") /\ q.end # "ok"
        BY <3>2, <3>3
      <3> QED BY <1>2, <3>5, <3>6, <3>7 DEF Listed, q
    <2> QED BY <2>13, <2>14
  <1>9. CASE Describe(c)
    <2>1. At(c, "describe")
      BY <1>9 DEF Describe
    <2> DEFINE skip == [call[c] EXCEPT !.plan = Tail(@), !.live = {}]
               add == [skip EXCEPT !.found = @ \cup call[c].live]
    <2>2. PICK o \in {"ok", "lost"} : Fetch(c, r.m, o)
      BY <1>9 DEF Describe
    <2>3. IF Got(c, skip.m) THEN Stays(c, add) ELSE SkipOrFail(c, skip)
      BY <1>9 DEF Describe
    <2>4. /\ skip.kind = r.kind /\ skip.plan = Tail(r.plan) /\ skip.found = r.found /\ skip.steady = r.steady
          /\ skip.end = r.end /\ skip.tags = r.tags /\ skip.m = r.m
      BY <1>3 DEF CallType
    <2>5. /\ add.kind = r.kind /\ add.plan = Tail(r.plan) /\ add.found = r.found \cup r.live
          /\ add.steady = r.steady /\ add.end = r.end /\ add.tags = r.tags
      BY <1>3 DEF CallType
    <2> HIDE DEF skip, add
    <2>6. IF Got(c, r.m) THEN q = add ELSE q = skip
      BY <1>1, <2>3, <2>4 DEF Stays, SkipOrFail, CallsTyped
    <2>7. /\ q.found = IF Got(c, r.m) THEN r.found \cup r.live ELSE r.found
          /\ q.steady = r.steady /\ q.end = r.end /\ q.tags = r.tags /\ q.plan = Tail(r.plan)
      BY <2>4, <2>5, <2>6
    <2>8. r.end = "none" /\ \A step : On(q, step) => step = "info"
      <3>1. Planned("list", r.plan) /\ r.plan # <<>> /\ Head(r.plan) = "describe" /\ r.end = "none"
        BY <1>1, <2>1, AtFacts
      <3>2. After("describe") = {"info"} /\ "describe" \notin Final
        BY DEF After, Final
      <3>3. Head(Tail(r.plan)) = "info"
        BY <3>1, <3>2, PlannedTail DEF Kinds
      <3> QED BY <2>7, <3>1, <3>3 DEF On
    <2>9. /\ \A t \in r.tags : t[1] \in r.steady => t \in Tagged
          /\ \A n \in r.steady :
                n \in NamesIn(Tagged) <=> n \in r.found \cup NamesIn(r.tags) \cup r.live
          /\ \A n \in r.live \cap r.steady : \E t \in Tagged : t[1] = n /\ refs[t] = r.m
      <3>1. On(r, "describe")
        BY <2>1 DEF On, At
      <3> QED BY <3>1 DEF Listed
    <2>10. ASSUME r.live \cap r.steady # {}
           PROVE  Got(c, r.m)
      <3>1. PICK t \in Tagged : refs[t] = r.m
        BY <2>9, <2>10
      <3>2. Complete(r.m)
        BY <3>1 DEF StoreInv, Sparing
      <3>3. r.m \in manifests \cup blobs
        BY <3>2 DEF Complete
      <3> HIDE DEF r
      <3> QED BY <1>1, <1>3, <2>2, <3>3, FetchGets
    <2> HIDE DEF q, r
    <2>11. \A n \in q.steady : n \in NamesIn(Tagged) <=> n \in q.found \cup NamesIn(q.tags)
      <3>1. CASE Got(c, r.m)
        BY <2>7, <2>9, <3>1
      <3>2. CASE ~Got(c, r.m)
        BY <2>7, <2>9, <2>10, <3>2
      <3> QED BY <3>1, <3>2
    <2>12. \A t \in q.tags : t[1] \in q.steady => t \in Tagged
      BY <2>7, <2>9
    <2>13. ~On(q, "scan") /\ ~On(q, "describe") /\ q.end # "ok"
      BY <2>7, <2>8
    <2> QED BY <1>2, <2>11, <2>12, <2>13 DEF Listed, q
  <1>10. ASSUME NEW s, At(c, s)
         PROVE  s \in {"scan", "info", "describe"}
    <2>1. s \in StepsOf("list")
      BY <1>1, <1>10, AtFacts
    <2> QED BY <2>1 DEF StepsOf
  <1>11. /\ ~Resolve(c) /\ ~FillRefCache(c) /\ ~LoadManifest(c) /\ ~LoadEntrypoint(c) /\ ~HydrateFile(c)
    BY <1>10 DEF Resolve, FillRefCache, LoadManifest, LoadEntrypoint, HydrateFile
  <1> QED BY <1>6, <1>7, <1>8, <1>9, <1>11 DEF Loading

\* What every listing has seen stays true of the names nobody changed: its own
\* step reads one more tag or manifest, any other step touches no steady name.
LEMMA NextLists ==
    ASSUME StoreInv, FailingIsCounted, Listing, [Next]_vars
    PROVE  Listing'
  <1> SUFFICES ASSUME ~raced', faults' = MaxFaults
               PROVE  \A d \in Clients : Listed(call[d])'
    BY DEF Listing
  <1>1. Typed /\ Typed' /\ ~raced
    BY NextTyped, Remembered DEF StoreInv
  <1>2. faults = MaxFaults /\ faults' = faults
    <2>1. faults \in 0..MaxFaults /\ faults' \in 0..MaxFaults /\ MaxFaults \in Nat
      BY <1>1, LimitsAssumption DEF Typed, StoreTyped
    <2>2. faults' <= faults
      BY <1>1, NextCounts
    <2> QED BY <2>1, <2>2
  <1>3. ~blind /\ \A d \in Clients : Listed(call[d])
    BY <1>1, <1>2 DEF FailingIsCounted, Listing
  <1>4. ASSUME NEW d \in Clients, Same(call'[d], call[d]), refs' = refs
        PROVE  Listed(call[d])'
    BY <1>1, <1>3, <1>4, ListedFrame
  <1>5. ASSUME NEW c \in Clients, Step(c)
        PROVE  \A d \in Clients : Listed(call[d])'
    <2>1. Moved(c)
      BY <1>1, <1>5, StepFrame
    <2>2. ASSUME NEW d \in Clients \ {c}
          PROVE  Listed(call[d])'
      <3>1. Same(call'[d], call[d])
        BY <2>1 DEF Moved
      <3>2. \A t \in Tags : t[1] \in call'[d].steady => refs'[t] = refs[t]
        BY <1>1, <1>5, StepChanges
      <3> QED BY <1>1, <1>3, <3>1, <3>2, ListedFrame
    <2>3. CASE call[c].kind = "list"
      <3>1. Loading(c)
        BY <1>1, <1>5, <2>3, KindsOfSteps DEF Step
      <3>2. Listed(call[c])'
        BY <1>1, <1>2, <1>3, <2>3, <3>1, ListStepLists
      <3> QED BY <2>2, <3>2
    <2>4. CASE call[c].kind # "list"
      <3>1. Listed(call[c])'
        BY <2>1, <2>4 DEF Moved, Listed
      <3> QED BY <2>2, <3>1
    <2> QED BY <2>3, <2>4
  <1>6. ASSUME NEW c \in Clients, NEW kind \in Offered, NEW t \in Tags, NEW m \in Manifests,
               Start(c, kind, t, m)
        PROVE  \A d \in Clients : Listed(call[d])'
    <2>1. refs' = refs
      BY <1>6 DEF Start, stored
    <2>2. /\ \A d \in Clients \ {c} : Same(call'[d], call[d])
          /\ call'[c].end = "none" /\ call'[c].found = {}
          /\ Head(call'[c].plan) \in {"find ref", "resolve", "scan", "put files"}
      BY <1>1, <1>6, StartTyped
    <2>3. ~On(call'[c], "info") /\ ~On(call'[c], "describe")
      BY <2>2 DEF On
    <2>4. Listed(call[c])'
      BY <2>2, <2>3 DEF Listed
    <2> QED BY <1>4, <2>1, <2>2, <2>4
  <1>7. CASE UNCHANGED <<stored, call>>
    BY <1>4, <1>7 DEF stored, Same
  <1>8. ASSUME NEW i \in Instances, NEW t \in Tags, Expire(i, t)
        PROVE  UNCHANGED <<stored, call>>
    BY <1>8 DEF Expire
  <1>9. CASE UNCHANGED vars
    BY <1>7, <1>9 DEF vars
  <1> QED BY <1>5, <1>6, <1>7, <1>8, <1>9 DEF Next

\* A listing that ends with nothing failing has found every template nobody
\* changed while it ran, and no other: list_templates leaves out a template only
\* for a publish or a delete that came in between.
THEOREM ListingsAreComplete == Spec => []ListingIsComplete
  <1>1. Init => FailingIsCounted /\ Listing
    <2>1. ASSUME Init, NEW d \in Clients
          PROVE  Listed(call[d])
      <3>1. call[d].plan = <<>> /\ call[d].end = "none"
        BY <2>1 DEF Init, Idle
      <3> QED BY <3>1 DEF Listed, On
    <2> QED BY <2>1 DEF Init, FailingIsCounted, Listing
  <1>2. StoreInv /\ FailingIsCounted /\ Listing /\ [Next]_vars => (FailingIsCounted /\ Listing)'
    BY NextCountsFailing, NextLists DEF StoreInv
  <1>3. Listing => ListingIsComplete
    <2>1. ASSUME Listing, NEW c \in Clients, call[c].kind = "list", call[c].end = "ok", ~raced,
                 faults = MaxFaults
          PROVE  {t[1] : t \in Tagged} \cap call[c].steady = call[c].found \cap call[c].steady
      <3>1. \A n \in call[c].steady : n \in NamesIn(Tagged) <=> n \in call[c].found
        BY <2>1 DEF Listing, Listed
      <3> QED BY <3>1 DEF NamesIn
    <2> QED BY <2>1 DEF ListingIsComplete
  <1> QED BY <1>1, <1>2, <1>3, StoreInvHolds, PTL DEF Spec

-----------------------------------------------------------------------------
(* Collections leave nothing behind                                          *)

\* A manifest stays minded in a step of c that keeps the tags, if what c
\* minded is still kept.
LEMMA KeptFrame ==
    ASSUME NEW c \in Clients, \A d \in Clients \ {c} : Same(call'[d], call[d]), replaced \subseteq replaced',
           NEW m, Kept(m),
           (\E t \in Tagged : refs[t] = m) => Kept(m)',
           Minds(call[c], m) => Kept(m)'
    PROVE  Kept(m)'
  <1>1. ASSUME NEW d \in Clients \ {c}, Minds(call[d], m)
        PROVE  Minds(call'[d], m)
    BY <1>1 DEF Minds, Same, On
  <1>2. ASSUME NEW d \in Clients, Minds(call'[d], m)
        PROVE  Kept(m)'
    BY <1>2 DEF Kept
  <1> QED BY <1>1, <1>2 DEF Kept

\* What a delete knows outlives the steps of others: they only take its tag away.
LEMMA KnowsFrame ==
    ASSUME NEW d \in Clients, Same(call'[d], call[d]), Knows(call[d]),
           On(call[d], "drop ref") => refs'[call[d].tag] \in {None, refs[call[d].tag]}
    PROVE  Knows(call[d])'
  <1>1. \A step : On(call'[d], step) <=> On(call[d], step)
    BY DEF Same, On
  <1>2. call'[d].m = call[d].m /\ call'[d].tag = call[d].tag /\ call'[d].live = call[d].live
    BY DEF Same
  <1> QED BY <1>1, <1>2 DEF Knows

\* A step of c that writes no tag and adds no manifest keeps all manifests kept
\* if what c minded is.
LEMMA MindedFrame ==
    ASSUME NEW c \in Clients, Moved(c),
           \A d \in Clients : Knows(call[d]), \A m \in manifests : Kept(m),
           refs' = refs, replaced' = replaced, manifests' \subseteq manifests,
           Knows(call[c])', \A m \in manifests' : Minds(call[c], m) => Kept(m)'
    PROVE  (\A d \in Clients : Knows(call[d])') /\ \A m \in manifests' : Kept(m)'
  <1>1. ASSUME NEW d \in Clients \ {c}
        PROVE  Knows(call[d])'
    BY KnowsFrame DEF Moved
  <1>2. ASSUME NEW m \in manifests'
        PROVE  Kept(m)'
    <2>1. (\E t \in Tagged : refs[t] = m) => Kept(m)'
      BY DEF Kept, Tagged
    <2> QED BY <2>1, KeptFrame DEF Moved
  <1> QED BY <1>1, <1>2

\* A call at none of the steps that could mind a manifest minds none.
LEMMA MindsNothing ==
    ASSUME CallsTyped, NEW c \in Clients, NEW step, At(c, step),
           step \notin {"put ref", "forget ref", "list refs", "read refs", "read orphan", "read live",
                        "drop blobs", "drop manifest"}
    PROVE  \A m : ~Minds(call[c], m)
  BY DEF Minds, On, At

\* A call at none of the first steps of a delete has nothing to know.
LEMMA KnowsElsewhere ==
    ASSUME NEW c \in Clients,
           \A step \in {"find ref", "drop ref", "forget ref", "list refs"} : ~On(call'[c], step)
    PROVE  Knows(call[c])'
  BY DEF Knows

\* A call that goes on from one step to the next still minds its manifest.
LEMMA MindsOn ==
    ASSUME CallsTyped, NEW c \in Clients, NEW r, Ready(r), Goes(c, r), Len(r.plan) # 1, NEW next,
           After(Head(r.plan)) = {next}, r.m = call[c].m,
           next \in {"put ref", "forget ref", "list refs", "read orphan", "read live", "drop blobs",
                     "drop manifest"}
    PROVE  Minds(call[c], call[c].m)' /\ \A step : On(call'[c], step) => step = next
  <1>1. call'[c].plan # <<>> /\ \A step : On(call'[c], step) => step = next /\ Carries(call'[c], r)
    BY GoesTo, GoesOn
  <1>2. On(call'[c], next) /\ Carries(call'[c], r)
    BY <1>1 DEF On
  <1> QED BY <1>1, <1>2 DEF Minds, Carries

\* A publish has its manifest in hand from the write of the manifest to that of
\* the tag; the one its tag held before counts as replaced.
LEMMA PublishingMinds ==
    ASSUME Typed, Typed', Alone, ~raced, faults' = faults, NEW c \in Clients, Publishing(c),
           \A d \in Clients : Knows(call[d]), \A m \in manifests : Kept(m)
    PROVE  (\A d \in Clients : Knows(call[d])') /\ \A m \in manifests' : Kept(m)'
  <1>1. call[c].kind = "publish" /\ Moved(c) /\ call[c].plan # <<>> /\ CallsTyped /\ StoreTyped
    BY KindsOfSteps, StepFrame DEF Step, Typed
  <1>2. \A d \in Clients : ~(call[d].plan # <<>> /\ call[d].kind = "delete")
    BY <1>1 DEF Alone, Busy
  <1>3. ASSUME NEW o, S3(o)
        PROVE  o = "ok"
    BY <1>1, <1>3, S3Counts DEF StoreTyped
  <1>4. \A d \in Clients : Knows(call[d])'
    <2>1. ASSUME NEW d \in Clients, NEW step \in {"find ref", "drop ref", "forget ref", "list refs"},
                 On(call'[d], step)
          PROVE  FALSE
      <3>1. call'[d].kind \in Kinds /\ step \in StepsOf(call'[d].kind)
        <4>1. CallOK(call'[d]) /\ call'[d] \in CallType
          BY DEF Typed, CallsTyped
        <4>2. call'[d].kind \in Kinds /\ Planned(call'[d].kind, call'[d].plan)
          BY <4>1 DEF CallOK, CallType
        <4> QED BY <2>1, <4>2, PlannedTail DEF On
      <3>2. call'[d].kind = "delete"
        BY <3>1, KindOfStep
      <3>3. call[d].kind = "delete" /\ call[d].plan # <<>>
        BY <1>1, <2>1, <3>2 DEF Moved, Same, On
      <3> QED BY <1>2, <3>3
    <2> QED BY <2>1, KnowsElsewhere
  <1>5. CASE PutFile(c)
    <2>1. At(c, "put files") /\ UNCHANGED <<refs, manifests, replaced>>
      BY <1>5 DEF PutFile, history
    <2>2. \A m : ~Minds(call[c], m)
      BY <1>1, <2>1, MindsNothing
    <2> QED BY <1>1, <1>4, <2>1, <2>2, MindedFrame
  <1>6. CASE PutManifest(c)
    <2>1. At(c, "put manifest") /\ UNCHANGED <<refs, replaced>>
      BY <1>6 DEF PutManifest, history
    <2>2. manifests' = manifests \cup {call[c].m} /\ Goes(c, call[c])
      BY <1>3, <1>6 DEF PutManifest, GoesIf
    <2>3. Ready(call[c]) /\ Head(call[c].plan) = "put manifest" /\ Len(call[c].plan) # 1
      <3>1. "put manifest" \notin Final
        BY DEF Final
      <3>2. Ready(call[c]) /\ Head(call[c].plan) = "put manifest"
        BY <1>1, <2>1, StillReady DEF At
      <3> QED BY <3>1, <3>2, PlannedTail DEF Ready, CallType
    <2>4. After("put manifest") = {"put ref"}
      BY DEF After
    <2>5. Minds(call[c], call[c].m)'
      BY <1>1, <2>2, <2>3, <2>4, MindsOn
    <2>6. call'[c].m = call[c].m
      <3>1. call'[c].plan # <<>> /\ \A step : On(call'[c], step) => Carries(call'[c], call[c])
        BY <1>1, <2>2, <2>3, GoesTo
      <3> QED BY <3>1 DEF On, Carries
    <2>7. \A m : ~Minds(call[c], m)
      BY <1>1, <2>1, MindsNothing
    <2>8. ASSUME NEW m \in manifests
          PROVE  Kept(m)'
      <3>1. (\E t \in Tagged : refs[t] = m) => Kept(m)'
        BY <2>1 DEF Kept, Tagged
      <3> QED BY <1>1, <2>1, <2>7, <3>1, KeptFrame DEF Moved
    <2>9. ASSUME NEW m, m = call[c].m
          PROVE  Kept(m)'
      BY <2>5, <2>6, <2>9 DEF Kept
    <2> QED BY <1>4, <2>2, <2>6, <2>8, <2>9
  <1>7. CASE PutRef(c)
    <2>1. At(c, "put ref") /\ manifests' = manifests
      BY <1>7 DEF PutRef
    <2> PICK u, n : u = call[c].tag /\ n = call[c].m
      OBVIOUS
    <2>2. refs' = [refs EXCEPT ![u] = n] /\ replaced' = replaced \cup ({refs[u]} \ {None, n})
      BY <1>3, <1>7 DEF PutRef
    <2>3. u \in Tags /\ n \in Manifests /\ n # None
      <3>1. "put ref" \notin Unresolved
        BY DEF Unresolved
      <3>2. call[c].m \in Manifests /\ call[c].tag \in Tags
        BY <1>1, <2>1, <3>1, AtFacts
      <3> QED BY <3>2, ManifestsAssumption
    <2>4. Kept(n)'
      <3>1. u \in Tagged' /\ refs'[u] = n
        BY <1>1, <2>2, <2>3 DEF StoreTyped, Tagged
      <3> QED BY <3>1 DEF Kept
    <2>5. ASSUME NEW m \in manifests
          PROVE  Kept(m)'
      <3>1. Minds(call[c], m) => m = n
        BY DEF Minds
      <3>2. ASSUME NEW t \in Tagged, refs[t] = m
            PROVE  Kept(m)'
        <4>1. CASE t # u
          <5>1. t \in Tagged' /\ refs'[t] = m
            BY <1>1, <2>2, <3>2, <4>1 DEF StoreTyped, Tagged
          <5> QED BY <5>1 DEF Kept
        <4>2. CASE t = u
          <5>1. m = n \/ m \in replaced'
            BY <2>2, <3>2, <4>2 DEF Tagged
          <5> QED BY <2>4, <5>1 DEF Kept
        <4> QED BY <4>1, <4>2
      <3> QED BY <1>1, <2>2, <2>4, <3>1, <3>2, KeptFrame DEF Moved
    <2> QED BY <1>4, <2>1, <2>5
  <1>8. CASE CacheRef(c)
    <2>1. At(c, "cache ref") /\ UNCHANGED <<refs, manifests, replaced>>
      BY <1>8 DEF CacheRef, stored
    <2>2. \A m : ~Minds(call[c], m)
      BY <1>1, <2>1, MindsNothing
    <2> QED BY <1>1, <1>4, <2>1, <2>2, MindedFrame
  <1> QED BY <1>5, <1>6, <1>7, <1>8 DEF Publishing

\* A delete that goes on keeps its manifest in hand.
LEMMA DeleteGoesOn ==
    ASSUME CallsTyped, NEW c \in Clients, Moved(c),
           \A d \in Clients : Knows(call[d]), \A m \in manifests : Kept(m),
           refs' = refs, replaced' = replaced, manifests' \subseteq manifests,
           NEW r, Ready(r), Goes(c, r), r.m = call[c].m, Head(r.plan) \notin Final,
           NEW next \in {"list refs", "read refs", "read orphan", "read live", "drop blobs",
                         "drop manifest"},
           After(Head(r.plan)) = {next},
           next = "list refs" => r.live = {}, next = "read refs" => r.m \notin r.live
    PROVE  (\A d \in Clients : Knows(call[d])') /\ \A m \in manifests' : Kept(m)'
  <1>1. \A step : On(call'[c], step) => step = next /\ Carries(call'[c], r)
    BY GoesOn
  <1>2. On(call'[c], next) /\ Carries(call'[c], r)
    <2>1. call'[c].plan # <<>>
      BY GoesTo
    <2> QED BY <1>1, <2>1 DEF On
  <1>3. Knows(call[c])'
    <2>1. \A step : On(call'[c], step) => step \notin {"find ref", "drop ref", "forget ref"}
      <3>1. next \notin {"find ref", "drop ref", "forget ref"}
        OBVIOUS
      <3> QED BY <1>1, <3>1
    <2>2. On(call'[c], "list refs") => call'[c].live = {}
      BY <1>1, <1>2 DEF Carries
    <2> QED BY <2>1, <2>2 DEF Knows
  <1>4. ASSUME NEW m, m = call[c].m
        PROVE  Kept(m)'
    <2>1. Minds(call'[c], m)
      BY <1>2, <1>4 DEF Minds, Carries
    <2> QED BY <2>1 DEF Kept
  <1>5. \A m \in manifests' : Minds(call[c], m) => Kept(m)'
    BY <1>4 DEF Minds
  <1> QED BY <1>3, <1>5, MindedFrame

\* A delete gives a manifest up only when it drops it or has read a tag that
\* still names it: dropping the tag is what puts the manifest in its hands.
LEMMA DeletingMinds ==
    ASSUME Typed, Typed', faults' = faults, NEW c \in Clients, Deleting(c),
           \A d \in Clients : Knows(call[d]), \A m \in manifests : Kept(m)
    PROVE  (\A d \in Clients : Knows(call[d])') /\ \A m \in manifests' : Kept(m)'
  <1>1. Moved(c) /\ CallsTyped /\ StoreTyped
    BY StepFrame DEF Step, Typed
  <1>2. ASSUME NEW o, S3(o)
        PROVE  o = "ok"
    BY <1>1, <1>2, S3Counts DEF StoreTyped
  <1>3. CASE FindRef(c)
    <2>1. At(c, "find ref") /\ UNCHANGED <<refs, manifests, replaced>>
      BY <1>3 DEF FindRef, stored, history
    <2> DEFINE r == [call[c] EXCEPT !.m = refs[call[c].tag]]
    <2>2. IF refs[call[c].tag] # None THEN Goes(c, r) ELSE Ends(c, "error")
      BY <1>2, <1>3 DEF FindRef
    <2>3. /\ \/ call[c] \in CallType /\ Ready([call[c] EXCEPT !.m = refs[call[c].tag]])
             \/ refs[call[c].tag] = None
          /\ Head(call[c].plan) = "find ref" /\ call[c].tag \in Tags
      <3>1. /\ call[c] \in CallType /\ Planned(call[c].kind, call[c].plan) /\ call[c].plan # <<>>
            /\ Head(call[c].plan) = "find ref" /\ call[c].tag \in Tags /\ Host(c) \in Instances
            /\ call[c].end = "none"
            /\ IF call[c].kind = "delete" THEN call[c].live \subseteq Manifests
               ELSE call[c].live \subseteq Names
        BY <1>1, <2>1, AtFacts
      <3>2. refs[call[c].tag] \in Manifests \cup {None}
        BY <1>1, <3>1 DEF StoreTyped
      <3>3. /\ r \in CallType /\ r.kind = call[c].kind /\ r.plan = call[c].plan /\ r.live = call[c].live
            /\ r.at = call[c].at /\ r.tag = call[c].tag /\ r.end = call[c].end
            /\ r.m = refs[call[c].tag]
        BY <3>1, <3>2 DEF CallType
      <3>4. After("find ref") = {"drop ref"}
        BY DEF After
      <3> HIDE DEF r
      <3>5. refs[call[c].tag] # None => Ready(r)
        BY <3>1, <3>2, <3>3, <3>4 DEF Ready, Host
      <3> QED BY <3>1, <3>5 DEF r
    <2>4. Knows(call[c])'
      <3>1. CASE Ends(c, "error")
        BY <1>1, <3>1, EndsTo, KnowsElsewhere
      <3>2. CASE refs[call[c].tag] # None
        <4>1. /\ r.plan = call[c].plan /\ r.tag = call[c].tag /\ r.m = refs[call[c].tag]
              /\ r.live = call[c].live
          BY <2>3, <3>2 DEF CallType
        <4>2. Ready(r) /\ Goes(c, r)
          BY <2>2, <2>3, <3>2
        <4> HIDE DEF r
        <4>3. After(Head(r.plan)) = {"drop ref"}
          BY <2>3, <4>1 DEF After
        <4>4. \A step : On(call'[c], step) => step = "drop ref" /\ Carries(call'[c], r)
          BY <1>1, <4>2, <4>3, GoesOn
        <4>5. call[c].live = {}
          BY <2>1 DEF Knows, At, On
        <4>6. On(call'[c], "drop ref") =>
                 call'[c].live = {} /\ refs'[call'[c].tag] = call'[c].m
          BY <2>1, <4>1, <4>4, <4>5 DEF Carries
        <4> QED BY <4>4, <4>6 DEF Knows
      <3> QED BY <2>2, <3>1, <3>2
    <2>5. \A m : ~Minds(call[c], m)
      BY <1>1, <2>1, MindsNothing
    <2> QED BY <1>1, <2>1, <2>4, <2>5, MindedFrame
  <1>4. CASE DropRef(c)
    <2>1. At(c, "drop ref") /\ manifests' = manifests /\ replaced' = replaced
      BY <1>4 DEF DropRef, history
    <2> PICK u, n : u = call[c].tag /\ n = call[c].m
      OBVIOUS
    <2>2. refs' = [refs EXCEPT ![u] = None] /\ call' = Changed([call EXCEPT ![c] = Wrote(c, "ok")], u)
      BY <1>2, <1>4 DEF DropRef
    <2>3. u \in Tags /\ refs[u] \in {None, n}
      <3>1. u \in Tags
        BY <1>1, <2>1, AtFacts
      <3>2. refs[u] \in {None, n}
        BY <2>1 DEF Knows, On, At
      <3> QED BY <3>1, <3>2
    <2>4. call'[c].plan # <<>> /\ \A next : On(call'[c], next) =>
             next \in After("drop ref") /\ call'[c].m = n /\ call'[c].live = call[c].live
      BY <1>1, <2>1, <2>2, WroteTo
    <2>5. On(call'[c], "forget ref") /\ call'[c].m = n /\ call'[c].live = {}
          /\ \A next : On(call'[c], next) => next = "forget ref"
      <3>1. After("drop ref") = {"forget ref"}
        BY DEF After
      <3>2. call[c].live = {}
        BY <2>1 DEF Knows, On, At
      <3> QED BY <2>4, <3>1, <3>2 DEF On
    <2>6. Kept(n)'
      <3>1. Minds(call'[c], n)
        BY <2>5 DEF Minds
      <3> QED BY <3>1 DEF Kept
    <2>7. Knows(call[c])'
      BY <2>5 DEF Knows
    <2>8. ASSUME NEW d \in Clients \ {c}
          PROVE  Knows(call[d])'
      <3>1. On(call[d], "drop ref") => refs'[call[d].tag] \in {None, refs[call[d].tag]}
        <4>1. On(call[d], "drop ref") => call[d].tag \in Tags
          BY <1>1, AtFacts DEF On, At
        <4> QED BY <1>1, <2>2, <2>3, <4>1 DEF StoreTyped
      <3> QED BY <1>1, <3>1, KnowsFrame DEF Moved
    <2>9. ASSUME NEW m \in manifests
          PROVE  Kept(m)'
      <3>1. m # None
        BY <1>1, ManifestsAssumption DEF StoreTyped
      <3>2. ASSUME NEW t \in Tagged, refs[t] = m
            PROVE  Kept(m)'
        <4>1. CASE t # u
          <5>1. t \in Tagged' /\ refs'[t] = m
            BY <1>1, <2>2, <3>2, <4>1 DEF StoreTyped, Tagged
          <5> QED BY <5>1 DEF Kept
        <4>2. CASE t = u
          BY <2>3, <2>6, <3>1, <3>2, <4>2
        <4> QED BY <4>1, <4>2
      <3>3. Minds(call[c], m) => Kept(m)'
        BY <2>6 DEF Minds
      <3> QED BY <1>1, <2>1, <3>2, <3>3, KeptFrame DEF Moved
    <2> QED BY <2>1, <2>7, <2>8, <2>9
  <1>5. CASE ForgetRef(c)
    <2>1. At(c, "forget ref") /\ UNCHANGED <<refs, manifests, replaced>> /\ Goes(c, call[c])
      BY <1>5 DEF ForgetRef, stored
    <2>2. /\ Ready(call[c]) /\ Head(call[c].plan) = "forget ref" /\ "forget ref" \notin Final
          /\ After("forget ref") = {"list refs"}
      BY <1>1, <2>1, StillReady DEF At, After, Final
    <2>3. call[c].live = {}
      BY <2>1 DEF Knows, On, At
    <2> QED BY <1>1, <2>1, <2>2, <2>3, DeleteGoesOn
  <1>6. CASE ListRefs(c)
    <2> DEFINE r == [call[c] EXCEPT !.tags = Tagged]
    <2>1. At(c, "list refs") /\ UNCHANGED <<refs, manifests, replaced>> /\ Goes(c, r)
      BY <1>2, <1>6 DEF ListRefs, stored, history
    <2>2. /\ Ready(call[c]) /\ call[c] \in CallType /\ Head(call[c].plan) = "list refs"
          /\ "list refs" \notin Final /\ After("list refs") = {"read refs"}
      BY <1>1, <2>1, StillReady DEF At, After, Final
    <2>3. call[c].live = {}
      BY <2>1 DEF Knows, On, At
    <2>4. /\ r \in CallType /\ r.kind = call[c].kind /\ r.plan = call[c].plan
          /\ r.live = call[c].live /\ r.at = call[c].at /\ r.tag = call[c].tag
          /\ r.end = call[c].end /\ r.m = call[c].m /\ r.files = call[c].files
      BY <2>2 DEF CallType, Tagged
    <2> HIDE DEF r
    <2>5. Ready(r) /\ r.m = call[c].m /\ Goes(c, r)
      BY <2>1, <2>2, <2>4 DEF Ready
    <2>6. Head(r.plan) \notin Final /\ After(Head(r.plan)) = {"read refs"} /\ r.m \notin r.live
      <3>1. r.live = {}
        BY <2>3, <2>4
      <3> QED BY <2>2, <2>4, <3>1
    <2> QED BY <1>1, <2>1, <2>5, <2>6, DeleteGoesOn
  <1>7. CASE ReadRef(c)
    <2>1. At(c, "read refs") /\ UNCHANGED <<refs, manifests, replaced>>
      BY <1>7 DEF ReadRef, stored
    <2>2. PICK t \in call[c].tags : Stays(c, [call[c] EXCEPT
                !.tags = @ \ {t}, !.live = @ \cup ({refs[t]} \ {None})])
      BY <1>2, <1>7 DEF ReadRef
    <2> DEFINE r == [call[c] EXCEPT !.tags = @ \ {t}, !.live = @ \cup ({refs[t]} \ {None})]
    <2>3. call[c] \in CallType /\ call[c].plan # <<>> /\ Head(call[c].plan) = "read refs"
      BY <1>1, <2>1, AtFacts
    <2>4. /\ r.plan = call[c].plan /\ r.m = call[c].m
          /\ r.live = call[c].live \cup ({refs[t]} \ {None})
      BY <2>3 DEF CallType
    <2>5. call'[c] = r
      BY <1>1, <2>2 DEF Stays, CallsTyped
    <2> HIDE DEF r
    <2>6. \A step : On(call'[c], step) <=> step = "read refs"
      BY <2>3, <2>4, <2>5 DEF On
    <2>7. t \in Tags
      BY <2>3 DEF CallType
    <2>8. ASSUME NEW m \in manifests', Minds(call[c], m)
          PROVE  Kept(m)'
      <3>1. call[c].m = m /\ m \notin call[c].live
        BY <2>3, <2>8 DEF Minds, On
      <3>2. CASE m = refs[t]
        <4>1. t \in Tagged' /\ refs'[t] = m
          <5>1. m \in Manifests /\ m # None /\ refs' = refs
            BY <1>1, <2>1, <2>8, ManifestsAssumption DEF StoreTyped
          <5> QED BY <2>7, <3>2, <5>1 DEF Tagged
        <4> QED BY <4>1 DEF Kept
      <3>3. CASE m # refs[t]
        <4>1. Minds(call'[c], m)
          BY <2>4, <2>5, <2>6, <3>1, <3>3 DEF Minds
        <4> QED BY <4>1 DEF Kept
      <3> QED BY <3>2, <3>3
    <2>9. Knows(call[c])'
      BY <2>6 DEF Knows
    <2> QED BY <1>1, <2>1, <2>8, <2>9, MindedFrame
  <1>8. CASE RefsRead(c)
    <2>1. At(c, "read refs") /\ UNCHANGED <<refs, manifests, replaced>>
      BY <1>8 DEF RefsRead, stored, history
    <2>2. /\ Ready(call[c]) /\ Head(call[c].plan) = "read refs" /\ "read refs" \notin Final
          /\ After("read refs") = {"read orphan"}
      BY <1>1, <2>1, StillReady DEF At, After, Final
    <2>3. CASE call[c].m \in call[c].live
      <3>1. Ends(c, "kept")
        BY <1>8, <2>3 DEF RefsRead
      <3>2. Knows(call[c])'
        BY <1>1, <3>1, EndsTo, KnowsElsewhere
      <3>3. \A m : ~Minds(call[c], m)
        BY <2>2, <2>3 DEF Minds, On
      <3> QED BY <1>1, <2>1, <3>2, <3>3, MindedFrame
    <2>4. CASE call[c].m \notin call[c].live
      <3>1. Goes(c, call[c])
        BY <1>8, <2>4 DEF RefsRead
      <3> QED BY <1>1, <2>1, <2>2, <3>1, DeleteGoesOn
    <2> QED BY <2>3, <2>4
  <1>9. CASE ReadOrphan(c)
    <2>1. At(c, "read orphan") /\ UNCHANGED <<refs, manifests, replaced>>
      BY <1>9 DEF ReadOrphan, stored, history
    <2>2. PICK o \in {"ok", "lost"} :
          Goes(c, [call[c] EXCEPT
                !.files = IF o = "ok" /\ call[c].m \in manifests THEN FilesOf[call[c].m] ELSE {}])
      BY <1>9 DEF ReadOrphan
    <2> DEFINE r == [call[c] EXCEPT
                !.files = IF o = "ok" /\ call[c].m \in manifests THEN FilesOf[call[c].m] ELSE {}]
    <2>3. /\ Ready(call[c]) /\ call[c] \in CallType /\ call[c].m \in Manifests
          /\ Head(call[c].plan) = "read orphan" /\ After("read orphan") = {"read live"}
          /\ "read orphan" \notin Final
      BY <1>1, <2>1, StillReady, Resolved DEF Steps, At, After, Final
    <2>4. Goes(c, r)
      BY <2>2
    <2>5. FilesOf[call[c].m] \subseteq Files
      BY <2>3, ManifestsAssumption
    <2>6. /\ r \in CallType /\ r.kind = call[c].kind /\ r.plan = call[c].plan
          /\ r.live = call[c].live /\ r.at = call[c].at /\ r.tag = call[c].tag
          /\ r.end = call[c].end /\ r.m = call[c].m
      BY <2>3, <2>5 DEF CallType
    <2> HIDE DEF r
    <2>7. Ready(r)
      BY <2>3, <2>6 DEF Ready
    <2> QED BY <1>1, <2>1, <2>3, <2>4, <2>6, <2>7, DeleteGoesOn
  <1>10. CASE ReadLive(c)
    <2>1. At(c, "read live") /\ UNCHANGED <<refs, manifests, replaced>>
      BY <1>10 DEF ReadLive, stored
    <2>2. PICK n \in call[c].live, o \in {"ok", "lost"} :
          Stays(c, [call[c] EXCEPT
                !.live = @ \ {n},
                !.keep = IF o = "ok" /\ n \in manifests THEN @ \cup FilesOf[n] ELSE @])
      BY <1>10 DEF ReadLive
    <2> DEFINE r == [call[c] EXCEPT
                !.live = @ \ {n},
                !.keep = IF o = "ok" /\ n \in manifests THEN @ \cup FilesOf[n] ELSE @]
    <2>3. call[c] \in CallType /\ call[c].plan # <<>> /\ Head(call[c].plan) = "read live"
      BY <1>1, <2>1, AtFacts
    <2>4. r.plan = call[c].plan /\ r.m = call[c].m
      BY <2>3 DEF CallType
    <2>5. call'[c] = r
      BY <1>1, <2>2 DEF Stays, CallsTyped
    <2> HIDE DEF r
    <2>6. \A step : On(call'[c], step) <=> step = "read live"
      BY <2>3, <2>4, <2>5 DEF On
    <2>7. ASSUME NEW m \in manifests', Minds(call[c], m)
          PROVE  Kept(m)'
      <3>1. Minds(call'[c], m)
        BY <2>4, <2>5, <2>6, <2>7 DEF Minds
      <3> QED BY <3>1 DEF Kept
    <2>8. Knows(call[c])'
      BY <2>6 DEF Knows
    <2> QED BY <1>1, <2>1, <2>7, <2>8, MindedFrame
  <1>11. CASE LiveRead(c)
    <2>1. At(c, "read live") /\ UNCHANGED <<refs, manifests, replaced>> /\ Goes(c, call[c])
      BY <1>11 DEF LiveRead, stored, history
    <2>2. /\ Ready(call[c]) /\ Head(call[c].plan) = "read live" /\ "read live" \notin Final
          /\ After("read live") = {"drop blobs"}
      BY <1>1, <2>1, StillReady DEF At, After, Final
    <2> QED BY <1>1, <2>1, <2>2, DeleteGoesOn
  <1>12. CASE DropBlobs(c)
    <2>1. At(c, "drop blobs") /\ UNCHANGED <<refs, manifests, replaced>> /\ Goes(c, call[c])
      BY <1>2, <1>12 DEF DropBlobs, history, GoesIf
    <2>2. /\ Ready(call[c]) /\ Head(call[c].plan) = "drop blobs" /\ "drop blobs" \notin Final
          /\ After("drop blobs") = {"drop manifest"}
      BY <1>1, <2>1, StillReady DEF At, After, Final
    <2> QED BY <1>1, <2>1, <2>2, DeleteGoesOn
  <1>13. CASE DropManifest(c)
    <2>1. At(c, "drop manifest") /\ UNCHANGED <<refs, replaced>>
      BY <1>13 DEF DropManifest, history
    <2>2. manifests' = manifests \ {call[c].m} /\ Goes(c, call[c])
      BY <1>2, <1>13 DEF DropManifest, GoesIf
    <2>3. Ready(call[c]) /\ Head(call[c].plan) = "drop manifest" /\ After("drop manifest") = {}
      BY <1>1, <2>1, StillReady DEF At, After
    <2>4. \A step : ~On(call'[c], step)
      BY <1>1, <2>2, <2>3, GoesTo
    <2>5. Knows(call[c])'
      BY <2>4, KnowsElsewhere
    <2>6. \A m \in manifests' : ~Minds(call[c], m)
      BY <2>2 DEF Minds
    <2> QED BY <1>1, <2>1, <2>2, <2>5, <2>6, MindedFrame
  <1> QED BY <1>3, <1>4, <1>5, <1>6, <1>7, <1>8, <1>9, <1>10, <1>11, <1>12, <1>13 DEF Deleting

\* No step leaves a manifest without a tag that nobody will collect.
LEMMA NextMinds ==
    ASSUME Typed, Alone, Minded, [Next]_vars
    PROVE  Minded'
  <1> SUFFICES ASSUME ~raced', faults' = MaxFaults
               PROVE  (\A d \in Clients : Knows(call[d])') /\ \A m \in manifests' : Kept(m)'
    BY DEF Minded, Undisturbed
  <1>1. Typed' /\ ~raced
    BY NextTyped, Remembered
  <1>2. faults = MaxFaults /\ faults' = faults
    <2>1. faults \in 0..MaxFaults /\ faults' \in 0..MaxFaults /\ MaxFaults \in Nat
      BY <1>1, LimitsAssumption DEF Typed, StoreTyped
    <2>2. faults' <= faults
      BY NextCounts
    <2> QED BY <2>1, <2>2
  <1>3. (\A d \in Clients : Knows(call[d])) /\ \A m \in manifests : Kept(m)
    BY <1>1, <1>2 DEF Minded, Undisturbed
  <1>4. ASSUME NEW c \in Clients, Publishing(c)
        PROVE  (\A d \in Clients : Knows(call[d])') /\ \A m \in manifests' : Kept(m)'
    BY <1>1, <1>2, <1>3, <1>4, PublishingMinds
  <1>5. ASSUME NEW c \in Clients, Deleting(c)
        PROVE  (\A d \in Clients : Knows(call[d])') /\ \A m \in manifests' : Kept(m)'
    BY <1>1, <1>2, <1>3, <1>5, DeletingMinds
  <1>6. ASSUME NEW c \in Clients, Loading(c)
        PROVE  (\A d \in Clients : Knows(call[d])') /\ \A m \in manifests' : Kept(m)'
    <2>1. UNCHANGED <<refs, manifests, replaced>>
      BY <1>6, LoadingStores
    <2>2. Moved(c) /\ call[c].kind \notin {"publish", "delete"}
      BY <1>6, StepFrame, KindsOfSteps DEF Step
    <2>3. \A step : On(call'[c], step) => call'[c].kind \in Kinds /\ step \in StepsOf(call'[c].kind)
      <3>1. CallOK(call'[c]) /\ call'[c] \in CallType
        BY <1>1 DEF Typed, CallsTyped
      <3>2. call'[c].kind \in Kinds /\ Planned(call'[c].kind, call'[c].plan)
        BY <3>1 DEF CallOK, CallType
      <3> QED BY <3>2, PlannedTail DEF On
    <2>4. Knows(call[c])'
      BY <2>2, <2>3, KindOfStep, KnowsElsewhere DEF Moved
    <2>5. \A m : ~Minds(call[c], m)
      <3>1. PICK step \in {"resolve", "fill", "manifest", "entry", "hydrate", "scan", "info",
                           "describe"} : At(c, step)
        BY <1>6, StepsAt
      <3> QED BY <3>1, MindsNothing DEF Typed
    <2> QED BY <1>3, <2>1, <2>2, <2>4, <2>5, MindedFrame
  <1>7. ASSUME NEW c \in Clients, NEW kind \in Offered, NEW t \in Tags, NEW m \in Manifests,
               Start(c, kind, t, m)
        PROVE  (\A d \in Clients : Knows(call[d])') /\ \A n \in manifests' : Kept(n)'
    <2>1. UNCHANGED <<refs, manifests, replaced>> /\ call[c].plan = <<>>
      BY <1>7 DEF Start, stored
    <2>2. /\ \A d \in Clients \ {c} : Same(call'[d], call[d])
          /\ Head(call'[c].plan) \in {"find ref", "resolve", "scan", "put files"}
          /\ call'[c].live = {}
      BY <1>7, StartTyped
    <2>3. Knows(call[c])'
      BY <2>2 DEF Knows, On
    <2>4. ASSUME NEW d \in Clients \ {c}
          PROVE  Knows(call[d])'
      BY <1>3, <2>1, <2>2, KnowsFrame
    <2>5. ASSUME NEW n \in manifests'
          PROVE  Kept(n)'
      <3>1. (\E u \in Tagged : refs[u] = n) => Kept(n)'
        BY <2>1 DEF Kept, Tagged
      <3>2. ~Minds(call[c], n)
        BY <2>1 DEF Minds, On
      <3> QED BY <1>3, <2>1, <2>2, <3>1, <3>2, KeptFrame
    <2> QED BY <2>3, <2>4, <2>5
  <1>8. CASE UNCHANGED <<stored, call, replaced>>
    BY <1>3, <1>8 DEF stored, Knows, Kept, Tagged
  <1>9. ASSUME NEW i \in Instances, NEW t \in Tags, Expire(i, t)
        PROVE  UNCHANGED <<stored, call, replaced>>
    BY <1>9 DEF Expire, history
  <1>10. CASE UNCHANGED vars
    BY <1>8, <1>10 DEF vars, history
  <1> QED BY <1>4, <1>5, <1>6, <1>7, <1>8, <1>9, <1>10 DEF Next, Step

\* Deletes that run at once, however many, do not each leave to the other the
\* manifest they orphan: with nothing failing and no publish among them, when
\* all calls have ended every stored manifest has a tag, or has lost its tag to
\* a republish.
THEOREM OrphansCollected == Spec => []OrphansAreCollected
  <1>1. Init => Minded
    <2>1. ASSUME Init
          PROVE  (\A c \in Clients : Knows(call[c])) /\ \A m \in manifests : Kept(m)
      <3>1. \A c \in Clients : call[c].plan = <<>>
        BY <2>1 DEF Init, Idle
      <3>2. \A c \in Clients : Knows(call[c])
        BY <3>1 DEF Knows, On
      <3>3. \A m \in manifests : Kept(m)
        BY <2>1 DEF Init, Kept, Tagged
      <3> QED BY <3>2, <3>3
    <2> QED BY <2>1 DEF Minded
  <1>2. StoreInv /\ Minded /\ [Next]_vars => Minded'
    BY NextMinds DEF StoreInv
  <1>3. Minded => OrphansAreCollected
    <2>1. ASSUME Minded, Undisturbed, AllIdle, NEW m \in manifests
          PROVE  m \in {refs[t] : t \in Tagged} \cup replaced
      <3>1. Kept(m)
        BY <2>1 DEF Minded
      <3>2. \A c \in Clients : ~Minds(call[c], m)
        BY <2>1 DEF AllIdle, Minds, On
      <3> QED BY <3>1, <3>2 DEF Kept
    <2> QED BY <2>1 DEF OrphansAreCollected
  <1> QED BY <1>1, <1>2, <1>3, StoreInvHolds, PTL DEF Spec
=============================================================================
