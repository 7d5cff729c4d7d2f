----------------------------- MODULE References -----------------------------
(***************************************************************************)
(* Template references, [namespace/]name[:tag][@hash], and the storage keys *)
(* made of them and of jobs and dates.                                      *)
(*                                                                          *)
(* A text is a sequence of tokens: "s" and "h" are lower case words ("s"    *)
(* stands for sha256 and "h" for 64 hex digits where a hash is expected),   *)
(* "S" is s in upper case, "." any of . - _, and "$" any other character.   *)
(* A key is a sequence of its segments.                                     *)
(*                                                                          *)
(* Sources: reference.rs, address.rs, registry/templates.rs,                *)
(* render_storage/layout.rs.                                                *)
(***************************************************************************)
EXTENDS Inquiry

CONSTANTS MaxText,   \* bound: tokens of a reference to parse
          MaxPart,   \* bound: tokens of a name to publish
          LongName   \* the limit on names and tags, in tokens

ASSUME TextBoundsAssumption == MaxText \in Nat /\ MaxPart \in Nat /\ LongName \in Nat

Tokens == {"s", "h", "S", ".", "$", "/", ":", "@"}
Latest == <<"latest">>
Words == {"s", "h", "latest"}

Lower(text) == [i \in DOMAIN text |-> IF text[i] = "S" THEN "s" ELSE text[i]]
Positions(text, token) == {i \in DOMAIN text : text[i] = token}
\* rfind; 0 when there is none.
LastOf(text, token) ==
    LET at == Positions(text, token) IN
    IF at = {} THEN 0 ELSE CHOOSE i \in at : \A j \in at : j <= i
Before(text, i) == SubSeq(text, 1, i - 1)
After(text, i) == SubSeq(text, i + 1, Len(text))

-----------------------------------------------------------------------------
(* Reference                                                                 *)

ValidHash(hash) == hash = <<"s", ":", "h">>
ValidTag(tag) == Len(tag) \in 1..LongName /\ \A i \in DOMAIN tag : tag[i] \in Words \cup {"."}
\* validate_name, and validate_namespace alike.
ValidPart(part) ==
    /\ Len(part) \in 1..LongName
    /\ \A i \in DOMAIN part : part[i] \in Words \cup {"."}
    /\ part[1] # "." /\ part[Len(part)] # "."

Refused(why) == [ok |-> FALSE, why |-> why]
NoPart == <<>>

\* Reference::parse: hash, tag, namespace and name are split off in this order.
ParseFirstColon(text) == \* mutant
    LET colon == LastOf(Lower(text), ":")
        path == IF colon = 0 THEN Lower(text) ELSE Before(Lower(text), colon)
    IN IF text = <<>> \/ ~ValidPart(path) THEN Refused("format")
       ELSE [ok |-> TRUE, namespace |-> NoPart, name |-> path, hash |-> NoPart,
             tag |-> IF colon = 0 THEN Latest ELSE After(Lower(text), colon)]
Parse(text) ==
    LET low == Lower(text)
        at == LastOf(low, "@")
        main == IF at = 0 THEN low ELSE Before(low, at)
        hash == IF at = 0 THEN NoPart ELSE After(low, at)
        colon == LastOf(main, ":")
        path == IF colon = 0 THEN main ELSE Before(main, colon)
        tag == IF colon = 0 THEN Latest ELSE After(main, colon)
        slash == LastOf(path, "/")
        namespace == IF slash = 0 THEN NoPart ELSE Before(path, slash)
        name == After(path, slash)
    IN CASE text = <<>> \/ Head(low) = "@" -> Refused("format")
         [] at > 0 /\ ~ValidHash(hash) -> Refused("hash")
         [] ~ValidTag(tag) -> Refused("tag")
         [] slash > 0 /\ ~ValidPart(namespace) -> Refused("namespace")
         [] ~ValidPart(name) -> Refused("format")
         [] OTHER -> [ok |-> TRUE, namespace |-> namespace, name |-> name, tag |-> tag, hash |-> hash]

FullName(ref) == IF ref.namespace = NoPart THEN ref.name
                 ELSE ref.namespace \o <<"/">> \o ref.name
HashSuffix(ref) == IF ref.hash = NoPart THEN NoPart ELSE <<"@">> \o ref.hash
AsString(ref) == FullName(ref) \o <<":">> \o ref.tag \o HashSuffix(ref)

\* What publish accepts as a name and a tag.
ValidNameOnly(name, tag) == \* mutant
    ValidPart(After(name, LastOf(name, "/"))) /\ ValidTag(tag)
ValidRefParts(name, tag) ==
    LET slash == LastOf(name, "/") IN
    /\ slash > 0 => ValidPart(Before(name, slash))
    /\ ValidPart(After(name, slash))
    /\ ValidTag(tag)

-----------------------------------------------------------------------------
(* Keys                                                                      *)

Segments(text) ==
    LET cuts == Positions(text, "/")
        ends == cuts \cup {Len(text) + 1}
        Nth(n) == CHOOSE e \in ends : Cardinality({d \in ends : d <= e}) = n
        Start(n) == IF n = 1 THEN 1 ELSE Nth(n - 1) + 1
    IN [n \in 1..Cardinality(ends) |-> SubSeq(text, Start(n), Nth(n) - 1)]

RefKey(name, tag) == <<"refs">> \o Segments(name) \o Segments(tag)
\* The last segment is the tag, what is before it the path.
ParseRefKey(key) ==
    IF Len(key) < 3 \/ key[1] # "refs" THEN Refused("key")
    ELSE [ok |-> TRUE, path |-> SubSeq(key, 2, Len(key) - 1), tag |-> key[Len(key)]]

JobKey(job) == <<"jobs", job, "job.json">>
PendingKey(job, shard) == <<"jobs", "pending", job, shard>>
ShardKey(job, shard) == <<"jobs", job, "shards", shard, "shard.json">>
ShardInputsKey(job, shard) == <<"jobs", job, "shards", shard, "inputs.json">>
ShardResultsKey(job, shard) == <<"jobs", job, "shards", shard, "results.json">>
RawKey(date, seq) == <<"analytics", "raw", date, "instance", seq>>
ExpiryKey(date, seq) == <<"expiry", date, "instance", seq>>

HasPrefix(key, prefix) == Len(prefix) <= Len(key) /\ SubSeq(key, 1, Len(prefix)) = prefix
Shard(job, shard) == [ok |-> TRUE, job |-> job, shard |-> shard]

ParsePendingKey(key) ==
    IF HasPrefix(key, <<"jobs", "pending">>) /\ Len(key) = 4 THEN Shard(key[3], key[4])
    ELSE Refused("key")
ParseShardKeyLoosely(key) == \* mutant
    IF HasPrefix(key, <<"jobs">>) /\ Len(key) = 5 THEN Shard(key[2], key[4])
    ELSE Refused("key")
ParseShardKey(key) ==
    IF HasPrefix(key, <<"jobs">>) /\ Len(key) = 5 /\ key[3] = "shards" /\ key[5] = "shard.json"
    THEN Shard(key[2], key[4])
    ELSE Refused("key")
Dates == {"dt=2024-02-29", "dt=2024-03-01"}
ParseDt(key) ==
    LET dated == {i \in DOMAIN key : key[i] \in Dates} IN
    IF dated = {} THEN Refused("key")
    ELSE [ok |-> TRUE, date |-> key[CHOOSE i \in dated : \A j \in dated : i <= j]]

Jobs == {"j1", "j2"}
Shards == {"0", "10"}
Keys ==
    {JobKey(j) : j \in Jobs}
    \cup (UNION {{PendingKey(j, n), ShardKey(j, n), ShardInputsKey(j, n), ShardResultsKey(j, n)} :
                 j \in Jobs, n \in Shards})
    \cup (UNION {{RawKey(d, "0"), ExpiryKey(d, "0")} : d \in Dates})

-----------------------------------------------------------------------------
\* A hash, a broken one, one after a tag.
Endings == {<<"@", "s", ":", "h">>, <<"@", "s", ":">>, <<"@", "h">>, <<":", "S", "@", "s", ":", "h">>}

RefQuestions ==
    [kind : {"parse"}, text : UpTo(Tokens, MaxText) \cup {t \o e : t \in UpTo(Tokens, 3), e \in Endings}]
    \cup [kind : {"publishable"}, name : UpTo({"s", "S", ".", "/", ":"}, MaxPart),
          tag : UpTo({"s", "S", ".", "/"}, 2)]
    \cup [kind : {"key"}, key : Keys]

AnswerParse == Answer("parse", Parse(question.text))
AnswerPublishable == Answer("publishable", ValidRefParts(question.name, question.tag))
AnswerKey == Answer("key",
    [pending |-> ParsePendingKey(question.key), shard |-> ParseShardKey(question.key),
     dt |-> ParseDt(question.key)])
RefNext == AnswerParse \/ AnswerPublishable \/ AnswerKey

-----------------------------------------------------------------------------
\* A reference is accepted exactly if it can be read as valid parts around the
\* separators, and then it means those: no other reading of / : @ wins.
PartsOf(text) == {SubSeq(text, i, j) : i, j \in 1..Len(text)}
Readable(low) ==
    LET Valid == {p \in PartsOf(low) : ValidPart(p)} IN
    [ok : {TRUE}, namespace : Valid \cup {NoPart}, name : Valid,
     tag : {p \in PartsOf(low) : ValidTag(p)} \cup {Latest},
     hash : {p \in PartsOf(low) : ValidHash(p)} \cup {NoPart}]
Readings(low) ==
    {ref \in Readable(low) :
        low = AsString(ref) \/ (ref.tag = Latest /\ low = FullName(ref) \o HashSuffix(ref))}

ParsesAsWritten == Replied("parse") =>
    Readings(Lower(question.text)) = IF answer.ok THEN {answer} ELSE {}

\* "A tag that publishes is always resolvable": what publish accepts parses
\* back to the same name and tag, and so does the key it is stored under.
PublishedIsResolvable == (Replied("publishable") /\ answer) =>
    LET ref == Parse(question.name \o <<":">> \o question.tag)
        key == ParseRefKey(RefKey(question.name, question.tag))
    IN /\ ref.ok /\ FullName(ref) = question.name /\ ref.tag = question.tag
       /\ key.ok /\ key.path = Segments(question.name) /\ key.tag = question.tag

\* A listing of jobs/, expiry/ or analytics/raw/ never takes one kind of
\* object for another, and reads back what was written into the key.
KeysReadBack == Replied("key") =>
    /\ \A j \in Jobs, n \in Shards :
          /\ answer.pending = Shard(j, n) <=> question.key = PendingKey(j, n)
          /\ answer.shard = Shard(j, n) <=> question.key = ShardKey(j, n)
    /\ \A d \in Dates :
          answer.dt = [ok |-> TRUE, date |-> d] <=> question.key \in {RawKey(d, "0"), ExpiryKey(d, "0")}
=============================================================================
