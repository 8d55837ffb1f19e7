--------------------------- MODULE MCDirectories ---------------------------
(* Who is there: the registries of consumers and the directory of streams.  *)
(* They do not touch each other, so a behaviour is of one of them and the   *)
(* other rests.                                                             *)
EXTENDS ConsumerDirectory, Discovery

VARIABLE part

allVars == <<part, directoryVars, vars>>

OfConsumers(A) == part = "consumers" /\ A /\ UNCHANGED <<part, vars>>
OfStreams(A) == part = "streams" /\ A /\ UNCHANGED <<part, directoryVars>>

DirectoriesInit == part \in {"consumers", "streams"} /\ DirectoryInit /\ Init

DirectoriesNext == OfConsumers(DirectoryNext) \/ OfStreams(Next)

DirectoriesSpec ==
    /\ DirectoriesInit /\ [][DirectoriesNext]_allVars
    /\ WF_allVars(OfConsumers(DirectoryTick)) /\ WF_allVars(OfConsumers(ManagerSweep))
    /\ WF_allVars(OfConsumers(SupervisorSweep))
    /\ WF_allVars(OfStreams(Tick)) /\ WF_allVars(OfStreams(Prune)) /\ WF_allVars(OfStreams(ClientPoll))

Hello(id, progress, interval, desc, ctrl) ==
    [id |-> id, progress |-> progress, asks |-> [interval |-> interval], desc |-> desc, ctrl |-> ctrl]

TwoConsumers ==
    {Hello(1, TRUE, 3, "d1", "none"), Hello(1, FALSE, 1, "none", "none"), Hello(1, TRUE, 3, "d2", "none"),
     Hello(2, TRUE, 7, "d1", "d2"), Hello(2, TRUE, Null, "long", "none"),
     Hello(2, TRUE, 2, "half", "none")}

Interval == {"interval"}
DefaultInterval == [interval |-> 5]

Announce(s, epoch, shape) == [stream |-> s, epoch |-> epoch, producer |-> 1, shape |-> shape]

TwoEpochs == {Announce(1, 1, "good"), Announce(1, 2, "good"), Announce(2, 1, "nslots")}

Renames == {[stream |-> 1, epoch |-> e, producer |-> 1, name |-> "cam"] : e \in 1 .. 2}

Tags == {[stream |-> 2, tags |-> {"t"}]}

Filter(s, producer, name, tags, channel, rs) ==
    [stream |-> s, producer |-> producer, source |-> Any, name |-> name, tags |-> tags,
     channel |-> channel, response_stream |-> rs]

Decoded ==
    {Filter(Any, 1, "", {}, "mine", TRUE), Filter(2, Any, "", {"t"}, "mine", TRUE),
     Filter(Any, Any, "", {}, "other", TRUE), Filter(Any, Any, "", {}, "", TRUE),
     Filter(Any, Any, "", {}, "mine", FALSE)}
=============================================================================
