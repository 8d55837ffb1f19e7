--------------------------- MODULE ClientConductor ---------------------------
(***************************************************************************)
(* The client conductor (src/client/tp_client_conductor.c, the life cycle  *)
(* in src/client/tp_client.c): application threads enqueue asynchronous    *)
(* adds of publications and subscriptions and poll their handles; whoever  *)
(* runs do_work drains the queue, asks Aeron about what is pending and     *)
(* walks the list of pollers.  A poller may call back into the client,     *)
(* do_work included, so do_work is a stack of frames.                      *)
(*                                                                         *)
(* The queue is the one of module MpscQueue, taken as its abstraction.     *)
(* Apart says that callers have a thread of their own (the conductor's     *)
(* agent runs do_work); otherwise one thread does everything (the agent    *)
(* invoker).  Applications do not unregister a poller while it runs, and   *)
(* neither close the client in a callback nor poll a handle after closing. *)
(***************************************************************************)
EXTENDS Integers, Sequences, FiniteSets, SequencesExt

CONSTANTS
    Handles,        \* asynchronous adds
    IsPublication,  \* IsPublication[h]: which of the two pending lists
    SharedSubs,     \* sequence of the handles tp_client_start adds
    Pollers,        \* tp_client_poller_t with its clientd
    Capacity,       \* TP_CLIENT_COMMAND_QUEUE_CAPACITY
    Apart,          \* callers are on a thread of their own
    MaxDepth        \* bound: do_work calls inside each other

ASSUME ConductorAssumption ==
    /\ Capacity \in Nat \ {0} /\ MaxDepth \in Nat \ {0} /\ Apart \in BOOLEAN
    /\ IsPublication \in [Handles -> BOOLEAN]
    /\ \A i \in DOMAIN SharedSubs : SharedSubs[i] \in Handles /\ ~ IsPublication[SharedSubs[i]]

VARIABLES
    client,    \* phase of the client
    handle,    \* tp_async_add_*_t: memory, and status
    queue,     \* command_queue
    pending,   \* pending_publications and pending_subscriptions
    subs,      \* shared subscriptions set
    pollers,   \* the list of entries
    depth,     \* do_work_depth
    stack,     \* do_work calls in progress, the innermost last
    failed     \* history: the last walk ended with a poller's error

vars == <<client, handle, queue, pending, subs, pollers, depth, stack, failed>>

Lists == {"pubs", "subs"}
ListOf(h) == IF IsPublication[h] THEN "pubs" ELSE "subs"
Frame(pc) == [pc |-> pc, list |-> "pubs", at |-> 1, entry |-> "none"]
Top == stack[Len(stack)]
Goto(f) == stack' = [stack EXCEPT ![Len(stack)] = f]
Return == stack' = Front(stack)
At(pc) == stack # <<>> /\ Top.pc = pc

\* Application code runs: between calls of do_work or in a poller's callback.
AppRuns == Apart \/ stack = <<>> \/ At("callback")

(***************************************************************************)
(* Asynchronous adds: the caller's side                                    *)
(***************************************************************************)

\* tp_client_start adds the shared subscriptions one after the other.
Due(h) == (h \in ToSet(SharedSubs)) => client = "starting" /\ h = SharedSubs[Cardinality(subs) + 1]

\* tp_client_conductor_async_add_publication, _subscription; a full queue refuses
\* and the caller may try again.
AsyncAdd(h) ==
    /\ AppRuns /\ client # "closed"
    /\ Due(h) /\ handle[h].memory = "none"
    /\ Len(queue) < Capacity
    /\ handle' = [handle EXCEPT ![h] = [memory |-> "live", status |-> "pending"]]
    /\ queue' = Append(queue, h)
    /\ UNCHANGED <<client, pending, subs, pollers, depth, stack, failed>>

\* tp_client_conductor_async_add_*_poll once the handle is resolved; for a shared
\* subscription then tp_client_conductor_set_subscription and the next one, or the
\* way out of tp_client_start, which stops the agent.
AsyncPoll(h) ==
    LET ok == handle[h].status = "complete"
        shared == h \in ToSet(SharedSubs)
    IN  /\ AppRuns /\ client # "closed"
        /\ handle[h].memory = "live" /\ handle[h].status # "pending"
        /\ (shared => client = "starting") /\ (Apart /\ shared /\ ~ ok => stack = <<>>)
        /\ handle' = [handle EXCEPT ![h].memory = "freed"]
        /\ subs' = IF shared /\ ok THEN subs \cup {h} ELSE subs
        /\ client' = IF shared /\ ~ ok THEN "failed"
                     ELSE IF Cardinality(subs') = Len(SharedSubs) THEN "open" ELSE client
        /\ UNCHANGED <<queue, pending, pollers, depth, stack, failed>>

(***************************************************************************)
(* tp_client_conductor_do_work                                             *)
(***************************************************************************)

\* Called by the loop that runs the conductor, or by application code inside a
\* callback.
DoWork ==
    /\ client # "closed"
    /\ \/ stack = <<>> /\ ~ (Apart /\ client = "failed")
       \/ At("callback") /\ Len(stack) < MaxDepth
    /\ stack' = Append(stack, Frame("commands"))
    /\ failed' = (failed /\ stack # <<>>)
    /\ UNCHANGED <<client, handle, queue, pending, subs, pollers, depth>>

\* tp_client_conductor_process_commands, one command: Aeron refuses the add, or the
\* handle becomes the head of its list.
ProcessCommand ==
    /\ At("commands") /\ queue # <<>>
    /\ LET h == Head(queue)
       IN  /\ queue' = Tail(queue)
           /\ \/ /\ handle' = [handle EXCEPT ![h].status = "error"]
                 /\ UNCHANGED pending
              \/ /\ pending' = [pending EXCEPT ![ListOf(h)] = <<h>> \o @]
                 /\ UNCHANGED handle
    /\ UNCHANGED <<client, subs, pollers, depth, stack, failed>>

CommandsDone ==
    /\ At("commands") /\ queue = <<>>
    /\ Goto(Frame("pending"))
    /\ UNCHANGED <<client, handle, queue, pending, subs, pollers, depth, failed>>

Cursor == pending[Top.list][Top.at]
AtPending == At("pending") /\ Top.at <= Len(pending[Top.list])

\* tp_client_conductor_poll_pending, one handle: Aeron has no answer yet ...
StillPending ==
    /\ AtPending
    /\ Goto([Top EXCEPT !.at = @ + 1])
    /\ UNCHANGED <<client, handle, queue, pending, subs, pollers, depth, failed>>

\* Mutant: a failed add is never reported.
ResolveOnlySuccess ==
    /\ AtPending
    /\ \E s \in {"complete", "pending"} : handle' = [handle EXCEPT ![Cursor].status = s]
    /\ Goto([Top EXCEPT !.pc = "unlink"])
    /\ UNCHANGED <<client, queue, pending, subs, pollers, depth, failed>>

\* ... or the add succeeded or failed (at Aeron or in tp_publication_wrap): the
\* status is stored ...
Resolve ==
    /\ AtPending
    /\ \E s \in {"complete", "error"} : handle' = [handle EXCEPT ![Cursor].status = s]
    /\ Goto([Top EXCEPT !.pc = "unlink"])
    /\ UNCHANGED <<client, queue, pending, subs, pollers, depth, failed>>

\* Mutant: the handle stays on the list.
UnlinkNothing ==
    /\ At("unlink")
    /\ Goto([Top EXCEPT !.pc = "pending", !.at = @ + 1])
    /\ UNCHANGED <<client, handle, queue, pending, subs, pollers, depth, failed>>

\* ... and then async->next is read and cleared to take the handle off the list.
Unlink ==
    /\ At("unlink")
    /\ pending' = [pending EXCEPT ![Top.list] = RemoveAt(@, Top.at)]
    /\ Goto([Top EXCEPT !.pc = "pending"])
    /\ UNCHANGED <<client, handle, queue, subs, pollers, depth, failed>>

PendingDone ==
    /\ At("pending") /\ Top.at > Len(pending[Top.list])
    /\ Goto(IF Top.list = "pubs" THEN [Top EXCEPT !.list = "subs", !.at = 1] ELSE Frame("walk"))
    /\ UNCHANGED <<client, handle, queue, pending, subs, pollers, depth, failed>>

\* The callback of an entry, none at the end of the list.
Call(entry) == [Frame("callback") EXCEPT !.entry = entry]
PlaceOf(entry) == CHOOSE j \in DOMAIN pollers : pollers[j] = entry
EntryAt(i) == IF i <= Len(pollers) THEN pollers[i] ELSE "none"

\* The rest of do_work: only the outermost call, at depth 1, walks the list.
Walk ==
    /\ At("walk")
    /\ IF depth + 1 = 1 /\ EntryAt(1) # "none"
       THEN depth' = depth + 1 /\ Goto(Call(EntryAt(1)))
       ELSE Return /\ UNCHANGED depth
    /\ UNCHANGED <<client, handle, queue, pending, subs, pollers, failed>>

\* tp_client_conductor_poll_pollers: a callback returns, entry->next is read.
CallbackReturns ==
    /\ At("callback")
    /\ LET next == EntryAt(PlaceOf(Top.entry) + 1)
       IN  IF next # "none" THEN Goto(Call(next)) /\ UNCHANGED depth
           ELSE Return /\ depth' = depth - 1
    /\ UNCHANGED <<client, handle, queue, pending, subs, pollers, failed>>

\* Mutant: the error return forgets the depth.
CallbackFailsInside ==
    /\ At("callback")
    /\ Return /\ failed' = TRUE
    /\ UNCHANGED <<client, handle, queue, pending, subs, pollers, depth>>

\* The callback reports an error, which ends the walk and do_work.
CallbackFails ==
    /\ At("callback")
    /\ Return /\ depth' = depth - 1 /\ failed' = TRUE
    /\ UNCHANGED <<client, handle, queue, pending, subs, pollers>>

(***************************************************************************)
(* Pollers and the end                                                     *)
(***************************************************************************)
Running == {stack[i].entry : i \in {j \in DOMAIN stack : stack[j].pc = "callback"}}
PollersMayChange == client # "closed" /\ (stack = <<>> \/ At("callback"))

\* tp_client_conductor_register_poller: the entry becomes the head of the list.
RegisterPoller(p) ==
    /\ PollersMayChange /\ p \notin ToSet(pollers)
    /\ pollers' = <<p>> \o pollers
    /\ UNCHANGED <<client, handle, queue, pending, subs, depth, stack, failed>>

\* tp_client_conductor_unregister_poller
UnregisterPoller(p) ==
    /\ PollersMayChange /\ p \in ToSet(pollers)
    /\ (At("callback") => p # Top.entry)
    /\ pollers' = RemoveAt(pollers, PlaceOf(p))
    /\ UNCHANGED <<client, handle, queue, pending, subs, depth, stack, failed>>

\* tp_client_close with tp_client_conductor_state_close: what is pending is freed,
\* what is queued or waits for its caller is not.
Close ==
    /\ stack = <<>> /\ client # "closed"
    /\ client' = "closed"
    /\ handle' = [h \in Handles |-> IF \E l \in Lists : h \in ToSet(pending[l])
                                    THEN [handle[h] EXCEPT !.memory = "freed"] ELSE handle[h]]
    /\ queue' = <<>> /\ pending' = [l \in Lists |-> <<>>]
    /\ subs' = {} /\ pollers' = <<>>
    /\ UNCHANGED <<depth, stack, failed>>

\* tp_client_init, the call of tp_client_start
Init ==
    /\ client = "starting"
    /\ handle = [h \in Handles |-> [memory |-> "none", status |-> "pending"]]
    /\ queue = <<>> /\ pending = [l \in Lists |-> <<>>]
    /\ subs = {} /\ pollers = <<>> /\ depth = 0 /\ stack = <<>> /\ failed = FALSE

Work == \/ DoWork \/ ProcessCommand \/ CommandsDone \/ StillPending \/ Resolve \/ Unlink
        \/ PendingDone \/ Walk \/ CallbackReturns \/ CallbackFails

Next ==
    \/ Work
    \/ \E h \in Handles : AsyncAdd(h) \/ AsyncPoll(h)
    \/ \E p \in Pollers : RegisterPoller(p) \/ UnregisterPoller(p)
    \/ Close

\* The conductor's loop goes on and its steps end; a callback returns in the end,
\* well or not; and Aeron answers an add in the end.
Fairness ==
    /\ WF_vars(DoWork /\ stack = <<>>)
    /\ WF_vars(ProcessCommand) /\ WF_vars(CommandsDone) /\ WF_vars(StillPending)
    /\ WF_vars(Unlink) /\ WF_vars(PendingDone) /\ WF_vars(Walk)
    /\ SF_vars(Resolve)
    /\ SF_vars(CallbackReturns \/ CallbackFails)

Spec == Init /\ [][Next]_vars /\ Fairness

(***************************************************************************)
(* Properties                                                              *)
(***************************************************************************)

\* The conductor's state is of its type; the work depth is that of the frames in
\* callbacks, so that no path out of do_work leaves it behind.
TypeOK ==
    /\ client \in {"starting", "open", "failed", "closed"}
    /\ handle \in [Handles -> [memory : {"none", "live", "freed"}, status : {"pending", "complete", "error"}]]
    /\ Len(queue) <= Capacity /\ Len(stack) <= MaxDepth
    /\ depth = Cardinality({i \in DOMAIN stack : stack[i].pc = "callback"})

Unlinking == IF At("unlink") THEN {Cursor} ELSE {}
Places(h) ==
    (IF h \in ToSet(queue) THEN {"queue"} ELSE {})
    \cup {l \in Lists : h \in ToSet(pending[l]) /\ h \notin Unlinking}

\* A handle waits in exactly one place, the queue or the pending list of its kind,
\* as long as it is pending, and in none once its caller may free it, whatever
\* Aeron answers and however calls of do_work nest.
HandleInOnePlace ==
    client # "closed" =>
        \A h \in Handles :
            /\ Cardinality(Places(h)) = (IF handle[h].memory = "live" /\ handle[h].status = "pending" THEN 1 ELSE 0)
            /\ "pubs" \in Places(h) => IsPublication[h]
            /\ "subs" \in Places(h) => ~ IsPublication[h]
    /\ IsInjective(queue) /\ \A l \in Lists : IsInjective(pending[l])

\* do_work never reads a handle its caller has freed (docs/IMPLEMENTATION_GUIDE.md 3:
\* "Enqueue from application threads; dequeue in tp_client_do_work. Async handles
\* polled by callers").
ReadsLiveHandles == \A l \in Lists : \A i \in DOMAIN pending[l] : handle[pending[l][i]].memory = "live"

\* One callback runs at a time, that of an entry still on the list, although
\* callbacks call do_work, register pollers and unregister others.
RunsRegisteredPoller == Cardinality(Running) <= 1 /\ Running \subseteq ToSet(pollers)

\* An add that was accepted is resolved in the end, unless the client is closed
\* or, its start having failed, nobody runs the conductor any more.
AddsResolved ==
    \A h \in Handles :
        (handle[h].memory = "live" /\ handle[h].status = "pending")
            ~> (handle[h].status # "pending" \/ client \in {"closed", "failed"})

\* A registered poller is called again and again, unless walks keep ending with the
\* error of one.
PollersServed ==
    \A p \in Pollers :
        []<>(p \notin ToSet(pollers) \/ p \in Running \/ failed \/ client = "closed")

\* do_work touches only what lives, and every handle, frame and poller is accounted
\* for, however callbacks and callers come in between.
ConductorSound == TypeOK /\ HandleInOnePlace /\ ReadsLiveHandles /\ RunsRegisteredPoller

=============================================================================
