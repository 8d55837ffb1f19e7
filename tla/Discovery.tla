------------------------------ MODULE Discovery ------------------------------
(***************************************************************************)
(* The discovery service (src/discovery/tp_discovery_service.c), which     *)
(* keeps soft state about streams from announcements and answers queries,  *)
(* and a discovery client (src/client/tp_discovery_client.c) that sends a  *)
(* request and polls for the answer with a timeout.                        *)
(*                                                                         *)
(* Streams, producers and layouts are abstract: the pools of an entry are  *)
(* known by the epoch of the announce they came with.  last_announce_ns is *)
(* an age that stops one tick past Expiry; Never stands for 0.             *)
(*                                                                         *)
(* The service decodes the variable-length parts of a request from a       *)
(* position before the group that precedes them on the wire, so a decoded  *)
(* request has the fixed fields that were sent and any channel, name and   *)
(* tags (see README).                                                      *)
(***************************************************************************)
EXTENDS Integers, Sequences, FiniteSets, FiniteSetsExt, Wire

CONSTANTS
    Streams,        \* stream ids
    Announces,      \* ShmPoolAnnounce messages
    Sources,        \* DataSourceAnnounce messages
    Taggings,       \* streams and sets of tags an operator may give them
    Filters,        \* the filters of a request as decoded
    MaxResults,     \* config.max_results
    BufferResults,  \* results the 4096 byte response buffer holds
    Expiry,         \* three announce periods, in ticks
    Timeout,        \* of a client's poll, in ticks; 0: none
    MaxId,          \* bound: requests a client sends
    MaxWire         \* bound: responses under way

Never == -1
NoPools == 0
Any == 0

ASSUME DiscoveryAssumption ==
    /\ Expiry \in Nat /\ Timeout \in Nat
    /\ MaxResults \in Nat /\ BufferResults \in Nat /\ MaxId \in Nat /\ MaxWire \in Nat
    /\ Announces \subseteq [stream : Streams, epoch : Nat, producer : Nat, shape : STRING]
    /\ Sources \subseteq [stream : Streams, epoch : Nat, producer : Nat, name : STRING]
    /\ Taggings \subseteq [stream : Streams, tags : SUBSET STRING]

VARIABLES
    entries,   \* the service's entries by stream
    wire,      \* responses on the client's response stream
    asked,     \* the request id last sent
    waiting,   \* tp_discovery_poll runs: the request id, else 0
    waited,    \* ticks since the poll took its deadline, or Never
    out,       \* tp_discovery_response_t the poll fills
    heard,     \* history: ticks since the service last took a message of a stream
    named      \* history: epoch of the last data source taken, by stream

vars == <<entries, wire, asked, waiting, waited, out, heard, named>>

Blank == [status |-> "NONE", id |-> 0, results |-> {}]

Older(age) == IF age > Expiry THEN age ELSE age + 1

(***************************************************************************)
(* Service                                                                 *)
(***************************************************************************)

\* tp_discovery_entry_reserve for a stream not known yet.
NewEntry ==
    [epoch |-> 0, producer |-> 0, slots |-> FALSE, pools |-> NoPools, name |-> "", tags |-> {}, age |-> Never]

\* tp_discovery_find_entry, tp_discovery_entry_reserve
Reserved(s) == IF s \in DOMAIN entries THEN entries[s] ELSE NewEntry

Put(s, e) == [t \in DOMAIN entries \cup {s} |-> IF t = s THEN e ELSE entries[t]]

\* A message of an epoch before the entry's is not for this life of the stream.
Outdated(e, epoch) == e.epoch # 0 /\ epoch < e.epoch

\* tp_discovery_service_apply_announce.  The announce is refused for its shape
\* before an entry is made, but a pool that has not as many slots as the header
\* ring is found when the entry was cleared and has the new epoch already.  Tags
\* go with every announce (tp_discovery_entry_clear).
ApplyAnnounce(a) ==
    LET e == Reserved(a.stream)
        cleared == [e EXCEPT !.epoch = a.epoch, !.producer = a.producer, !.slots = TRUE,
                             !.tags = {}, !.pools = NoPools]
    IN  /\ a.shape \in {"good", "nslots"}
        /\ IF Outdated(e, a.epoch)
           THEN UNCHANGED <<entries, heard>>
           ELSE IF a.shape = "nslots"
           THEN entries' = Put(a.stream, cleared) /\ UNCHANGED heard
           ELSE /\ entries' = Put(a.stream, [cleared EXCEPT !.pools = a.epoch, !.age = 0])
                /\ heard' = [heard EXCEPT ![a.stream] = 0]
        /\ UNCHANGED <<wire, asked, waiting, waited, out, named>>

\* Mutant: a data source of an earlier epoch is taken.
ApplyDataSourceAny(d) ==
    LET e == Reserved(d.stream)
    IN  /\ entries' = Put(d.stream, [e EXCEPT !.producer = d.producer, !.epoch = d.epoch,
                                               !.name = d.name, !.age = 0])
        /\ heard' = [heard EXCEPT ![d.stream] = 0]
        /\ named' = [named EXCEPT ![d.stream] = d.epoch]
        /\ UNCHANGED <<wire, asked, waiting, waited, out>>

\* tp_discovery_service_apply_data_source, as tp_discovery_on_metadata_fragment
\* calls it: the epoch moves on and the pools stay.
ApplyDataSource(d) ==
    LET e == Reserved(d.stream)
    IN  /\ ~Outdated(e, d.epoch)
        /\ entries' = Put(d.stream, [e EXCEPT !.producer = d.producer, !.epoch = d.epoch,
                                               !.name = d.name, !.age = 0])
        /\ heard' = [heard EXCEPT ![d.stream] = 0]
        /\ named' = [named EXCEPT ![d.stream] = d.epoch]
        /\ UNCHANGED <<wire, asked, waiting, waited, out>>

\* tp_discovery_service_set_tags, which counts as a sign of life of the stream.
SetTags(s, tags) ==
    /\ entries' = Put(s, [Reserved(s) EXCEPT !.tags = tags, !.age = 0])
    /\ heard' = [heard EXCEPT ![s] = 0]
    /\ UNCHANGED <<wire, asked, waiting, waited, out, named>>

\* Mutant: nothing expires.
ExpiredNever(e) == FALSE

\* The condition of tp_discovery_prune_expired and of both loops of the query.
Expired(e) == e.age > Expiry

\* tp_discovery_prune_expired; an entry that was never announced stays.
PruneExpired(es) == [s \in {t \in DOMAIN es : ~Expired(es[t])} |-> es[s]]

\* tp_discovery_entry_matches, tp_discovery_entry_has_tag.  No entry ever gets a
\* data source id, so that filter matches nothing.
Matches(s, e, f) ==
    /\ f.stream \in {Any, s} /\ f.producer \in {Any, e.producer}
    /\ f.source = Any
    /\ f.name \in {"", e.name}
    /\ f.tags \subseteq e.tags

\* tp_discovery_result_fill
Result(s, e) ==
    [stream |-> s, epoch |-> e.epoch, producer |-> e.producer, slots |-> e.slots,
     pools |-> e.pools, name |-> e.name, tags |-> e.tags]

\* tp_discovery_service_query, the entries being pruned already.
Query(id, f, es) ==
    LET listed == {s \in DOMAIN es : es[s].age # Never /\ ~Expired(es[s]) /\ Matches(s, es[s], f)}
    IN  IF Cardinality(listed) > MaxResults
        THEN [status |-> "ERROR", id |-> id, results |-> {}]
        ELSE [status |-> "OK", id |-> id, results |-> {Result(s, es[s]) : s \in listed}]

\* tp_discovery_encode_response: refuses what does not fit into the buffer.
Encodes(r) == Cardinality(r.results) <= BufferResults

\* tp_discovery_handle_request from the decoded request on.  Without a response
\* channel it is dropped, without a response stream tp_discovery_send_error
\* finds nobody to tell either.  tp_discovery_get_publication and the offer may
\* fail, and then there is no answer.
HandleRequest(id, f) ==
    LET es == PruneExpired(entries)
        r == Query(id, f, es)
    IN  /\ f.channel # "" /\ f.response_stream
        /\ entries' = es
        /\ \/ /\ Encodes(r) /\ f.channel = "mine" /\ Len(wire) < MaxWire
              /\ wire' = Append(wire, [frame |-> "good", template |-> "RESPONSE", body |-> r])
           \/ UNCHANGED wire
        /\ UNCHANGED <<asked, waiting, waited, out, heard, named>>

\* The end of tp_discovery_service_do_work.
Prune ==
    /\ entries' = PruneExpired(entries)
    /\ UNCHANGED <<wire, asked, waiting, waited, out, heard, named>>

(***************************************************************************)
(* Client                                                                  *)
(***************************************************************************)

\* tp_discovery_request, its checks passed and the offer accepted, then
\* tp_discovery_poll with an empty response.  The caller numbers its requests.
SendRequest ==
    /\ waiting = 0 /\ asked < MaxId
    /\ asked' = asked + 1
    /\ waiting' = asked + 1
    /\ waited' = Never
    /\ out' = Blank
    /\ UNCHANGED <<entries, wire, heard, named>>

\* tp_discovery_decode_response, its answers 0 ("ok"), 1 ("other") and -1.
DecodeResponse(msg, id) ==
    IF Decode(msg, "RESPONSE") # "ok" THEN Decode(msg, "RESPONSE")
    ELSE IF id # 0 /\ msg.body.id # id THEN "other" ELSE "ok"

\* Mutant: results without pools are taken.
ResultValidNoPools(r) == r.slots

\* What the decoder demands of every result.
ResultValid(r) == r.slots /\ r.pools # NoPools

\* The response a decoded message fills in: one bad result makes it an error.
Filled(body) ==
    IF body.status = "OK" /\ \E r \in body.results : ~ResultValid(r)
    THEN [body EXCEPT !.status = "ERROR"] ELSE body

\* The messages of this poll of the subscription that are decoded.
Decodes(n, id) == {i \in 1 .. n : DecodeResponse(wire[i], id) = "ok"}

\* tp_discovery_response_handler over a batch: a decoded answer and a frame that
\* fails to decode, whoever it was for, both end the wait.
DoneBy(n) == \E i \in 1 .. n : DecodeResponse(wire[i], waiting) # "other"

OutAfter(n) == IF Decodes(n, waiting) = {} THEN out ELSE Filled(wire[Max(Decodes(n, waiting))].body)

\* One turn of the loop of tp_discovery_poll: the deadline is taken on the first
\* turn, after the subscription was polled, and looked at after every poll.
ClientPoll ==
    \E n \in 0 .. Len(wire) :
        LET late == Timeout > 0 /\ waited > Timeout
        IN  /\ waiting # 0
            /\ out' = OutAfter(n)
            /\ wire' = SubSeq(wire, n + 1, Len(wire))
            /\ waiting' = IF DoneBy(n) \/ late THEN 0 ELSE waiting
            /\ waited' = IF DoneBy(n) \/ late THEN Never ELSE IF waited = Never THEN 0 ELSE waited
            /\ UNCHANGED <<entries, asked, heard, named>>

(***************************************************************************)
(* Behaviour                                                               *)
(***************************************************************************)

\* A frame of another version, from some other publication of the stream.
ForeignFrame ==
    /\ Len(wire) < MaxWire
    /\ wire' = Append(wire, [frame |-> "newer", template |-> "RESPONSE", body |-> Blank])
    /\ UNCHANGED <<entries, asked, waiting, waited, out, heard, named>>

Tick ==
    /\ entries' = [s \in DOMAIN entries |->
                    IF entries[s].age = Never THEN entries[s] ELSE [entries[s] EXCEPT !.age = Older(@)]]
    /\ heard' = [s \in Streams |-> Older(heard[s])]
    /\ waited' = IF waiting = 0 \/ waited = Never \/ waited > Timeout THEN waited ELSE waited + 1
    /\ UNCHANGED <<wire, asked, waiting, out, named>>

\* tp_discovery_service_init, tp_discovery_client_init
Init ==
    /\ entries = [s \in {} |-> NewEntry]
    /\ wire = <<>>
    /\ asked = 0 /\ waiting = 0 /\ waited = Never
    /\ out = Blank
    /\ heard = [s \in Streams |-> Expiry + 1]
    /\ named = [s \in Streams |-> 0]

Next ==
    \/ \E a \in Announces : ApplyAnnounce(a)
    \/ \E d \in Sources : ApplyDataSource(d)
    \/ \E t \in Taggings : SetTags(t.stream, t.tags)
    \/ \E id \in 1 .. asked, f \in Filters : HandleRequest(id, f)
    \/ Prune
    \/ SendRequest
    \/ ClientPoll
    \/ ForeignFrame
    \/ Tick

\* Time passes, the service's loop prunes and a client in its poll keeps polling.
Spec == Init /\ [][Next]_vars /\ WF_vars(Tick) /\ WF_vars(Prune) /\ WF_vars(ClientPoll)

(***************************************************************************)
(* Properties                                                              *)
(***************************************************************************)

\* Entries exist for known streams only; the poll's bookkeeping is consistent.
TypeOK ==
    /\ DOMAIN entries \subseteq Streams
    /\ \A s \in DOMAIN entries : entries[s].age \in Never .. Expiry + 1
    /\ waiting \in {0, asked}
    /\ Len(wire) <= MaxWire

NewResponses == {wire'[i].body : i \in {j \in DOMAIN wire' : j > Len(wire) /\ wire'[j].frame = "good"}}

\* Every result of an answer is of a stream heard of within the expiry time when
\* the answer was made: not of one that only ever sent a broken announce, and
\* not of one that fell silent, whether or not pruning got to it.
ListedWasHeard ==
    [][\A r \in NewResponses : \A x \in r.results : heard[x.stream] <= Expiry]_vars

\* Delayed announcements of an earlier life of a stream never take the registry
\* back to an earlier epoch, whichever of the two kinds of message they are.
EpochNeverRegresses ==
    [][\A s \in DOMAIN entries \cap DOMAIN entries' : entries'[s].epoch >= entries[s].epoch]_vars

\* The pools listed with an epoch were announced with it, unless a data source of
\* that epoch overtook the announce.
PoolsMatchEpoch ==
    \A s \in DOMAIN entries :
        entries[s].pools # NoPools => entries[s].pools = entries[s].epoch \/ named[s] = entries[s].epoch

\* What a poll returns as a success answers its own request, not a late answer to
\* an earlier one, and describes streams completely, although the service also
\* lists streams whose last announce it refused and streams only tags were set for.
AnswerIsUsable ==
    out.status = "OK" => out.id = asked /\ \A r \in out.results : r.pools # NoPools

\* A poll with a timeout ends whatever happens to the answer.
PollEnds == Timeout > 0 => [](waiting # 0 => <>(waiting = 0))

\* A stream nothing is heard of any more is forgotten, unless all that was ever
\* heard of it was a broken announce.
SilentStreamForgotten ==
    \A s \in Streams :
        <>[](heard[s] > Expiry) => <>[](s \in DOMAIN entries => entries[s].age = Never)

\* What the service lists and a client accepts describes one epoch of a stream and
\* answers the question that was asked.
AnswersSound == TypeOK /\ PoolsMatchEpoch /\ AnswerIsUsable

\* Late messages and late pruning show nobody the past: no entry goes back to an
\* earlier epoch and no answer lists a stream that fell silent.
AnswersCurrent == EpochNeverRegresses /\ ListedWasHeard

\* Nothing waits or is kept for ever: a poll ends and a silent stream is forgotten.
SoftStateEnds == PollEnds /\ SilentStreamForgotten

=============================================================================
