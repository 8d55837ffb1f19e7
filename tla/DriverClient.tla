---------------------------- MODULE DriverClient ----------------------------
(***************************************************************************)
(* The client side of a driver lease (src/client/tp_driver_client.c, the   *)
(* driver part of tp_client_do_work and the attach, revoke, re-attach and  *)
(* close paths of src/client/tp_producer.c) against the driver's lease     *)
(* table (src/driver/tp_driver.c, modelled in full in module Driver).      *)
(*                                                                         *)
(* One client, one stream and a rival: another process that attaches to    *)
(* the same stream, perhaps with the same client id.  Requests reach the   *)
(* driver in order; what the driver sends is heard by everybody, so the    *)
(* client finds the rival's answers and revocations in its inbox too.  The *)
(* inbox is ONE Aeron subscription, and whoever polls it first consumes    *)
(* the message: the attach call, the detach call or the control poller of  *)
(* the conductor.                                                          *)
(*                                                                         *)
(* Correlation ids, lease ids and epochs are drawn anew for every request  *)
(* and grant: a new one is any that nothing refers to any more.  A grant   *)
(* to a producer starts an epoch of its own, so the regions a producer     *)
(* maps are named by the lease.                                            *)
(***************************************************************************)
EXTENDS Integers, Sequences, SequencesExt, FiniteSets, Wire

CONSTANTS
    Ids,          \* client ids; OwnId is the configured one of a producer
    OwnId,
    Grace,        \* keepalive interval * grace intervals, in keepalive intervals
    MaxShift,     \* limit of the exponent of the re-attach backoff (5 in the code)
    MaxRequests,  \* bounds: messages under way to the driver,
    MaxInbox,     \*         messages waiting in the client's subscription,
    MaxFaults     \*         failed offers, damaged frames, crashes, SHM failures

ASSUME LeaseAssumption ==
    /\ OwnId \in Ids /\ Grace \in Nat \ {0} /\ MaxShift \in Nat
    /\ MaxRequests \in Nat /\ MaxInbox \in Nat /\ MaxFaults \in Nat

VARIABLES
    client,       \* tp_driver_client_t, the call in progress and the producer's flags
    requests,     \* on the way to the driver
    inbox,        \* the control subscription of the client
    leases,       \* tp_driver_t.leases, with the time left of each
    kind,         \* "producer", or "direct": a user of tp_driver_attach with client id 0
    faults,       \* how many faults happened
    unheard       \* (history) leases that ended without the control poller being told

vars == <<client, requests, inbox, leases, kind, faults, unheard>>

Rival == -1     \* lease id and correlation id of the rival
NoAnswer == [code |-> "none", lease |-> 0]
Role == IF kind = "producer" THEN "PRODUCER" ELSE "CONSUMER"

Message(template, frame, corr, code, lease, id, role) ==
    [template |-> template, frame |-> frame, corr |-> corr, code |-> code,
     lease |-> lease, id |-> id, role |-> role]
AttachResponse(corr, code, lease) == Message("ATTACH_RESPONSE", "good", corr, code, lease, 0, "none")
DetachResponse(corr) == Message("DETACH_RESPONSE", "good", corr, "ok", 0, 0, "none")
Revoked(l) == Message("LEASE_REVOKED", "good", 0, "none", l.lease, l.id, l.role)
Shutdown == Message("DRIVER_SHUTDOWN", "good", 0, "none", 0, 0, "none")
Garbled == Message("ATTACH_RESPONSE", "newer", 0, "none", 0, 0, "none")

Request(what, corr, lease, id) == [what |-> what, corr |-> corr, lease |-> lease, id |-> id]

\* tp_driver_next_correlation_id, tp_driver_next_lease_id
Unused(S) == CHOOSE n \in 1 .. Cardinality(S) + 1 : n \notin S
InUseBy(field(_)) == {field(inbox[i]) : i \in DOMAIN inbox} \cup {field(requests[i]) : i \in DOMAIN requests}
NextCorrelationId == Unused(InUseBy(LAMBDA m : m.corr) \cup {client.corr})
NextLeaseId == Unused(InUseBy(LAMBDA m : m.lease)
                      \cup {client.lease, client.mapped} \cup {l.lease : l \in leases})

\* The history: S is added, what the client can no longer come to use is dropped.
Missed(S) ==
    unheard' = (unheard \cup S) \cap
               ({client'.lease} \cup {inbox'[i].lease : i \in {j \in DOMAIN inbox' : inbox'[j].code = "ok"}})

\* Revocations a poll that looks for something else consumes.
Overheard == {inbox[i].lease : i \in {j \in DOMAIN inbox : inbox[j].template = "LEASE_REVOKED"}}

\* A client that has just been opened: tp_driver_client_init, tp_producer_init.
\* leaseId and left are kept only with a lease.  left and due are the local belief in the lease: time to its expiry, and
\* whether a keepalive interval has passed since the last keepalive.
Opened ==
    [call |-> "none", corr |-> 0, id |-> 0, sent |-> FALSE,
     lease |-> 0, leaseId |-> 0, left |-> 0, due |-> TRUE,
     attached |-> FALSE, mapped |-> 0, wait |-> -1, failures |-> 0]

Init ==
    /\ client = Opened
    /\ requests = <<>> /\ inbox = <<>>
    /\ leases = {}
    /\ kind \in {"producer", "direct"}
    /\ faults = 0
    /\ unheard = {}

(***************************************************************************)
(* Sending.  aeron_publication_offer fails while the publication is not    *)
(* connected or the receiver is behind.                                    *)
(***************************************************************************)
Fault == faults < MaxFaults /\ faults' = faults + 1

\* The request is on its way; the caller goes on.
Offered(r) == Len(requests) < MaxRequests /\ requests' = Append(requests, r) /\ UNCHANGED faults
NotOffered == Fault /\ UNCHANGED requests

(***************************************************************************)
(* Decoding answers                                                        *)
(***************************************************************************)

\* tp_driver_decode_attach_response: a frame of an unknown version is an error
\* whoever it was for; the correlation id is compared after that.
DecodeAttachResponse(m, corr) ==
    IF Decode(m, "ATTACH_RESPONSE") = "ok" /\ m.corr # corr THEN "other"
    ELSE Decode(m, "ATTACH_RESPONSE")

\* The messages of a poll that answer the call, and those that grant the lease.
Answers == {i \in DOMAIN inbox : DecodeAttachResponse(inbox[i], client.corr) = "ok"}
Grants == {i \in Answers : inbox[i].code = "ok"}
AnswerAt(i) == [code |-> inbox[i].code, lease |-> inbox[i].lease]

\* tp_driver_async_attach_handler, over the messages of a poll: an answer OK is never
\* replaced, any other one is by the next; damaged frames are passed over.
AsyncAttachHandler ==
    IF Grants # {} THEN AnswerAt(Min(Grants))
    ELSE IF Answers # {} THEN AnswerAt(Max(Answers))
    ELSE NoAnswer

\* tp_driver_response_handler: a damaged frame, too, ends the call with the code found
\* so far, INTERNAL_ERROR at first.
ResponseHandler ==
    IF Answers = {} /\ \E i \in DOMAIN inbox : DecodeAttachResponse(inbox[i], client.corr) = "error"
    THEN [code |-> "failed", lease |-> 0]
    ELSE AsyncAttachHandler

(***************************************************************************)
(* After the answer                                                        *)
(***************************************************************************)
\* tp_producer_clear_reattach
ClearReattach(c) == [c EXCEPT !.wait = -1, !.failures = 0]

\* tp_driver_client_update_lease: the time of the last keepalive stays.
UpdateLease(c, answer) ==
    [c EXCEPT !.lease = answer.lease, !.leaseId = c.id, !.left = Grace]

\* tp_producer_attach_config with what happens to the flags around it: mapped;
\* refused before anything was mapped; or cleaned up after the trace link entries
\* were made, which is where the pending re-attach is forgotten.
AttachConfig(c) ==
    {[ClearReattach(c) EXCEPT !.attached = TRUE, !.mapped = c.lease],
     [c EXCEPT !.attached = FALSE, !.mapped = 0],
     [ClearReattach(c) EXCEPT !.attached = FALSE, !.mapped = 0]}

\* The client after a finished attach: tp_driver_attach or tp_driver_attach_poll
\* returned, and tp_producer_attach_driver(_poll) dealt with the result.  A failed
\* mapping keeps the lease active.
AfterAnswer(answer) ==
    LET done == [client EXCEPT !.call = "none", !.corr = 0, !.id = 0, !.sent = FALSE]
        leased == [UpdateLease(client, answer) EXCEPT !.call = "none", !.corr = 0, !.id = 0, !.sent = FALSE]
    IN  IF answer.code # "ok" THEN {done}
        ELSE IF kind = "direct" THEN {leased}
        ELSE AttachConfig(leased)

\* An id that was drawn and is taken is replaced by another.
DrawAgain(answer) == answer.code = "in use" /\ kind = "direct"

\* tp_driver_normalize_attach_request, tp_producer_fill_driver_request
RequestIds == IF kind = "producer" THEN {OwnId} ELSE Ids

\* The application asks again when it holds nothing, and not before the backoff
\* is over (tp_producer_reattach_due).
MayAttach ==
    /\ client.call = "none"
    /\ client.lease = 0
    /\ client.wait <= 0

(***************************************************************************)
(* tp_driver_attach: blocks until an answer or the deadline.               *)
(***************************************************************************)
Attach ==
    /\ MayAttach
    /\ \E id \in RequestIds :
          /\ client' = [client EXCEPT !.call = "sync", !.corr = NextCorrelationId, !.id = id]
          /\ \/ Offered(Request("ATTACH", NextCorrelationId, 0, id))
             \/ NotOffered
    /\ UNCHANGED <<inbox, leases, kind, unheard>>

\* One turn of the loop with an answer among the messages of the poll.
AttachAnswered ==
    /\ client.call = "sync"
    /\ LET answer == ResponseHandler
       IN  /\ answer # NoAnswer
           /\ \/ /\ ~ DrawAgain(answer)
                 /\ client' \in AfterAnswer(answer)
                 /\ UNCHANGED <<requests, faults>>
              \/ /\ DrawAgain(answer)
                 /\ \E id \in Ids :
                       /\ client' = [client EXCEPT !.corr = NextCorrelationId, !.id = id]
                       /\ \/ Offered(Request("ATTACH", NextCorrelationId, 0, id))
                          \/ NotOffered
    /\ inbox' = <<>>
    /\ Missed(Overheard)
    /\ UNCHANGED <<leases, kind>>

\* Mutant: the deadline is looked at only when something was received.
AttachTimeoutIfPolled ==
    /\ client.call = "sync" /\ inbox # <<>>
    /\ client' = [client EXCEPT !.call = "none", !.corr = 0, !.id = 0]
    /\ inbox' = <<>>
    /\ Missed(Overheard)
    /\ UNCHANGED <<requests, leases, kind, faults>>

\* The deadline is looked at before the answer: a turn that found both fails.
\* The driver reads a request before the deadline, but for a fault.
AttachTimeout ==
    /\ client.call = "sync"
    /\ IF \E i \in DOMAIN requests : requests[i].corr = client.corr THEN Fault ELSE UNCHANGED faults
    /\ client' = [client EXCEPT !.call = "none", !.corr = 0, !.id = 0]
    /\ inbox' = <<>>
    /\ Missed(Overheard)
    /\ UNCHANGED <<requests, leases, kind>>

\* No answer yet: other messages are consumed, and after 200 ms the same request
\* is sent again.
AttachRetry ==
    /\ client.call = "sync"
    /\ ResponseHandler = NoAnswer
    /\ \/ Offered(Request("ATTACH", client.corr, 0, client.id))
       \/ inbox # <<>> /\ UNCHANGED <<requests, faults>>
    /\ inbox' = <<>>
    /\ UNCHANGED <<client, leases, kind>> /\ Missed(Overheard)

(***************************************************************************)
(* tp_driver_attach_async and tp_driver_attach_poll, tp_driver_detach_async*)
(* and tp_driver_detach_poll: the application polls.  Once sent, a request *)
(* is not sent again, and nothing ends the wait but an answer.             *)
(***************************************************************************)
AttachAsync ==
    /\ MayAttach
    /\ \E id \in RequestIds :
          client' = [client EXCEPT !.call = "async", !.corr = NextCorrelationId, !.id = id]
    /\ UNCHANGED <<requests, inbox, leases, kind, faults, unheard>>

\* A request that could not be offered is tried again by a later poll.
AttachPollSend ==
    /\ client.call = "async" /\ ~ client.sent
    /\ Offered(Request("ATTACH", client.corr, 0, client.id))
    /\ client' = [client EXCEPT !.sent = TRUE]
    /\ UNCHANGED <<inbox, leases, kind, unheard>>

AttachPoll ==
    /\ client.call = "async" /\ client.sent /\ inbox # <<>>
    /\ LET answer == AsyncAttachHandler
       IN  \/ answer = NoAnswer /\ UNCHANGED client
           \/ /\ answer # NoAnswer /\ ~ DrawAgain(answer)
              /\ client' \in AfterAnswer(answer)
           \/ /\ DrawAgain(answer)
              /\ \E id \in Ids :
                    client' = [client EXCEPT !.corr = NextCorrelationId, !.id = id, !.sent = FALSE]
    /\ inbox' = <<>>
    /\ Missed(Overheard)
    /\ UNCHANGED <<requests, leases, kind, faults>>

\* tp_driver_detach: what the driver client remembers of its lease.  Nobody looks
\* at the correlation id it draws.
DetachRequest == Request("DETACH", 0, client.lease, client.leaseId)

DetachAsync ==
    /\ client.call = "none" /\ client.lease # 0
    /\ \/ /\ Offered(DetachRequest)
          /\ client' = [client EXCEPT !.call = "detach", !.sent = TRUE]
       \/ NotOffered /\ UNCHANGED client
    /\ UNCHANGED <<inbox, leases, kind, unheard>>

\* Any detach response ends the wait: the correlation id is not compared.
DetachPoll ==
    /\ client.call = "detach" /\ inbox # <<>>
    /\ client' = IF \E i \in DOMAIN inbox : Decode(inbox[i], "DETACH_RESPONSE") = "ok"
                 THEN [client EXCEPT !.call = "none", !.sent = FALSE] ELSE client
    /\ inbox' = <<>>
    /\ Missed(Overheard)
    /\ UNCHANGED <<requests, leases, kind, faults>>

\* tp_driver_detach_active: sends and forgets.
DetachActive ==
    /\ client.call = "none" /\ client.lease # 0
    /\ Offered(DetachRequest)
    /\ UNCHANGED <<client, inbox, leases, kind, unheard>>

(***************************************************************************)
(* The conductor's poller: tp_producer_control_handler, or the handlers of *)
(* tp_driver_event_poll, which leave the lease to the application.         *)
(***************************************************************************)

\* tp_producer_next_backoff_ns, in units of its base
Backoff(failures) == 2 ^ (IF failures > MaxShift THEN MaxShift ELSE failures)

\* tp_producer_schedule_reattach; the count is capped where it no longer matters.
ScheduleReattach(c) ==
    [c EXCEPT !.wait = Backoff(c.failures),
              !.failures = IF @ > MaxShift THEN @ ELSE @ + 1]

\* Mutant: the revocation of any client is taken as one's own.
ConcernsAnyone(m) == kind = "producer"

\* Matched by client id and role, not by lease.
Concerns(m) == kind = "producer" /\ m.id = OwnId /\ m.role = "PRODUCER"

\* Mutant: the lease stays active.
DropLeaseKept(c) == ScheduleReattach([c EXCEPT !.attached = FALSE, !.mapped = 0])

\* tp_producer_unmap_regions and the rest of the reaction to a revocation.
DropLease(c) == ScheduleReattach([c EXCEPT !.attached = FALSE, !.mapped = 0,
                                             !.lease = 0, !.leaseId = 0, !.left = 0])

ControlPoll ==
    /\ inbox # <<>>
    /\ client' = IF Decode(Head(inbox), "LEASE_REVOKED") = "ok" /\ Concerns(Head(inbox))
                 THEN DropLease(client) ELSE client
    /\ inbox' = Tail(inbox)
    /\ Missed(IF kind = "direct" /\ Head(inbox).template = "LEASE_REVOKED" THEN {Head(inbox).lease} ELSE {})
    /\ UNCHANGED <<requests, leases, kind, faults>>

(***************************************************************************)
(* The driver part of tp_client_do_work, run by the application's thread   *)
(* between its calls.                                                      *)
(***************************************************************************)
\* tp_driver_client_lease_expired: only the lease id is forgotten.
LeaseExpired ==
    /\ client.call # "sync" /\ client.lease # 0 /\ client.left <= 0
    /\ client' = [client EXCEPT !.lease = 0, !.leaseId = 0]
    /\ UNCHANGED <<requests, inbox, leases, kind, faults>> /\ Missed({})

\* tp_driver_keepalive and tp_driver_client_record_keepalive: a keepalive that was
\* offered extends the local belief at once.
Keepalive ==
    /\ client.call # "sync" /\ client.lease # 0 /\ client.left > 0 /\ client.due
    /\ \/ /\ Offered(Request("KEEPALIVE", 0, client.lease, client.leaseId))
          /\ client' = [client EXCEPT !.due = FALSE, !.left = Grace]
       \/ NotOffered /\ UNCHANGED client
    /\ UNCHANGED <<inbox, leases, kind, unheard>>

\* tp_producer_close (the detach is sent once, if at all), or the process dies.
Close ==
    /\ client.call = "none" /\ client # Opened
    /\ \/ client.attached /\ Offered(DetachRequest)
       \/ client.attached /\ NotOffered
       \/ ~ client.attached /\ UNCHANGED <<requests, faults>>
    /\ client' = Opened
    /\ UNCHANGED <<inbox, leases, kind>> /\ Missed({})

Crash ==
    /\ client # Opened /\ Fault
    /\ client' = Opened
    /\ inbox' = <<>>
    /\ UNCHANGED <<requests, leases, kind>> /\ Missed({})

(***************************************************************************)
(* The driver: tp_driver_handle_attach, _detach, _keepalive and            *)
(* tp_driver_handle_expired_leases for one stream; announces are left out. *)
(* A failed offer of a message is not repeated.                            *)
(***************************************************************************)
Room(k) == Len(inbox) + k <= MaxInbox

Broadcast(msgs) ==
    \/ /\ Room(Len(msgs)) /\ inbox' = inbox \o msgs
       /\ UNCHANGED faults /\ Missed({})
    \/ /\ Fault /\ Room(Len(msgs) - 1)
       /\ \E i \in DOMAIN msgs :
             /\ inbox' = inbox \o RemoveAt(msgs, i)
             /\ Missed(IF msgs[i].template = "LEASE_REVOKED" THEN {msgs[i].lease} ELSE {})

Refusal(r) ==
    IF \E l \in leases : l.id = r.id THEN "in use"
    ELSE IF Role = "PRODUCER" /\ \E l \in leases : l.role = "PRODUCER" THEN "rejected"
    ELSE "none"

HandleAttach(r) ==
    \/ /\ Refusal(r) # "none"
       /\ Broadcast(<<AttachResponse(r.corr, Refusal(r), 0)>>)
       /\ UNCHANGED leases
    \/ /\ Refusal(r) = "none"
       /\ leases' = leases \cup {[lease |-> NextLeaseId, id |-> r.id, role |-> Role, left |-> Grace]}
       /\ Broadcast(<<AttachResponse(r.corr, "ok", NextLeaseId)>>)
    \/ /\ Refusal(r) = "none"         \* SHM or node id could not be had
       /\ Fault /\ Room(1)
       /\ inbox' = Append(inbox, AttachResponse(r.corr, "failed", 0))
       /\ UNCHANGED leases /\ Missed({})

HandleDetach(r) ==
    LET found == {l \in leases : l.lease = r.lease /\ l.id = r.id /\ l.role = Role}
    IN  /\ leases' = leases \ found
        /\ \/ found = {} /\ Broadcast(<<DetachResponse(r.corr)>>)
           \/ \E l \in found : Broadcast(<<Revoked(l), DetachResponse(r.corr)>>)

Renews(l, r) == l.lease = r.lease /\ l.id = r.id /\ l.role = Role

HandleKeepalive(r) ==
    /\ leases' = {IF Renews(l, r) THEN [l EXCEPT !.left = Grace] ELSE l : l \in leases}
    /\ UNCHANGED <<inbox, faults, unheard>>

DriverHandle ==
    /\ requests # <<>> /\ UNCHANGED <<client, kind>>
    /\ LET r == Head(requests)
       IN  \/ r.what = "ATTACH" /\ HandleAttach(r)
           \/ r.what = "DETACH" /\ HandleDetach(r)
           \/ r.what = "KEEPALIVE" /\ HandleKeepalive(r)
    /\ requests' = Tail(requests)

IsExpired(l) == l.left < 0

HandleExpiredLeases ==
    LET expired == {l \in leases : IsExpired(l)}
    IN  /\ expired # {}
        /\ UNCHANGED <<client, requests, kind>>
        /\ leases' = leases \ expired
        /\ Broadcast(SetToSeq({Revoked(l) : l \in expired}))

\* The driver stops, perhaps with a word about it, and starts again without leases.
DriverRestart ==
    /\ Fault /\ Room(1) /\ UNCHANGED <<client, kind>>
    /\ leases' = {} /\ requests' = <<>>
    /\ inbox' \in {inbox, Append(inbox, Shutdown)}
    /\ Missed({l.lease : l \in leases})

(***************************************************************************)
(* Surroundings: the rival, damaged frames, time.                          *)
(***************************************************************************)
RivalAttach ==
    /\ Fault /\ Room(1)
    /\ \E id \in Ids, role \in {"PRODUCER", "CONSUMER"} :
          /\ \A l \in leases : l.id # id /\ ~ (l.role = "PRODUCER" /\ role = "PRODUCER")
          /\ leases' = leases \cup {[lease |-> Rival, id |-> id, role |-> role, left |-> Grace]}
    /\ inbox' = Append(inbox, AttachResponse(Rival, "ok", Rival))
    /\ UNCHANGED <<client, requests, kind, unheard>>

RivalDetach ==
    /\ Room(2)
    /\ \E l \in leases :
          /\ l.lease = Rival
          /\ leases' = leases \ {l}
          /\ inbox' = inbox \o <<Revoked(l), DetachResponse(0)>>
    /\ UNCHANGED <<client, requests, kind, faults, unheard>>

DamagedFrame ==
    /\ Fault /\ Room(1)
    /\ inbox' = Append(inbox, Garbled)
    /\ UNCHANGED <<client, requests, leases, kind, unheard>>

Older(n) == IF n < 0 THEN n ELSE n - 1

Tick ==
    /\ leases' = {[l EXCEPT !.left = Older(@)] : l \in leases}
    /\ client' = [client EXCEPT !.left = IF @ > 0 THEN @ - 1 ELSE @, !.due = TRUE,
                                !.wait = IF @ > 0 THEN @ - 1 ELSE @]
    /\ UNCHANGED <<requests, inbox, kind, faults, unheard>>

Next ==
    \/ Attach \/ AttachAnswered \/ AttachTimeout \/ AttachRetry
    \/ AttachAsync \/ AttachPollSend \/ AttachPoll
    \/ DetachAsync \/ DetachPoll \/ DetachActive
    \/ ControlPoll \/ LeaseExpired \/ Keepalive \/ Close \/ Crash
    \/ DriverHandle \/ HandleExpiredLeases \/ DriverRestart
    \/ RivalAttach \/ RivalDetach \/ DamagedFrame \/ Tick

\* An answer OK is read while the driver still has the lease.
AnsweredInTime == AttachAnswered /\ \E l \in leases : l.lease = client'.lease

(***************************************************************************)
(* The driver's and the conductor's threads keep running and time passes;  *)
(* the application goes on attaching, working and ending its calls.  The   *)
(* race of an answer against the deadline, the control poller and the end  *)
(* of the lease is not lost for ever.  The driver's fairness is strong     *)
(* only because the bound on the inbox disables it now and then.           *)
(***************************************************************************)
Fairness ==
    /\ SF_vars(DriverHandle) /\ SF_vars(HandleExpiredLeases) /\ WF_vars(RivalDetach)
    /\ WF_vars(ControlPoll) /\ WF_vars(Tick)
    /\ WF_vars(Attach \/ AttachAsync) /\ WF_vars(AttachTimeout) /\ WF_vars(LeaseExpired)
    /\ SF_vars(AnsweredInTime)

Spec == Init /\ [][Next]_vars /\ Fairness

(***************************************************************************)
(* Properties                                                              *)
(***************************************************************************)
Held(n) == \E l \in leases : l.lease = n

\* Types; a call in progress has a correlation id and a client id.
TypeOK ==
    /\ client.call \in {"none", "sync", "async", "detach"}
    /\ client.call \in {"sync", "async"} <=> client.corr > 0 /\ client.id \in Ids
    /\ client.left \in 0 .. Grace
    /\ client.wait \in -1 .. 2 ^ MaxShift /\ client.failures \in 0 .. MaxShift + 1
    /\ Len(requests) <= MaxRequests /\ Len(inbox) <= MaxInbox
    /\ \A l \in leases : l.id \in Ids /\ l.left \in -1 .. Grace
    /\ faults \in 0 .. MaxFaults

\* Whatever is lost, late, repeated or meant for somebody else, the client never
\* takes over the lease, or maps the regions, that were granted to the rival, and
\* an attached producer has mapped the regions of its own active lease.
OwnLeaseOnly ==
    /\ client.lease # Rival /\ client.mapped # Rival
    /\ client.attached => client.mapped # 0 /\ client.lease \in {0, client.mapped}

\* A client believes in a lease the driver has ended only while the revocation
\* waits in its inbox, or when its control poller was never shown it: the message
\* was lost, another poll of the same subscription consumed it, or the driver was
\* restarted.
BeliefBacked ==
    client.lease # 0 =>
        \/ Held(client.lease) \/ client.lease \in unheard
        \/ \E i \in DOMAIN inbox : inbox[i].template = "LEASE_REVOKED" /\ inbox[i].lease = client.lease

\* Keepalives name the lease the client uses: one that it does not use, because
\* the answer was lost, came too late or the client went away, is not kept alive
\* and ends, however often the client asks again under the same id.
AbandonedLeaseEnds ==
    \A id \in Ids :
        []<>(\A l \in leases : l.id = id => l.lease \in {Rival, client.lease})

\* A blocking attach returns.
AttachReturns == (client.call = "sync") ~> (client.call # "sync")

\* A lost answer, a refusal because of the client's own abandoned lease, a late
\* revocation or a crash keeps the client from its lease only for a while: again
\* and again it has a lease the driver knows of, unless it was never told that its
\* lease ended, or waits in an asynchronous call, which nothing but an answer ends.
LeasedAgain ==
    []<>(\/ client.lease # 0 /\ Held(client.lease)
         \/ client.lease # 0 /\ client.lease \in unheard
         \/ client.call \in {"async", "detach"})

\* A mapped producer loses its regions only when a revocation naming its client id
\* was sent, when its application closes it, or when the process dies.
Drops == client.mapped # 0 /\ client'.mapped = 0
DroppedOnlyIfRevoked ==
    [][Drops /\ client' # Opened =>
          \/ /\ inbox # <<>> /\ Head(inbox).template = "LEASE_REVOKED"
             /\ Head(inbox).id = OwnId /\ Head(inbox).role = "PRODUCER"
          \/ client.call # "none"]_vars

\* What the client believes of its lease is its own and is backed by the driver, as
\* far as anybody told it.
BeliefSound == TypeOK /\ OwnLeaseOnly /\ BeliefBacked

\* Attaching goes on: calls return, leases nobody uses end, and the client comes to
\* a lease again and again.
LeaseProgress == AttachReturns /\ AbandonedLeaseEnds /\ LeasedAgain

=============================================================================
