--------------------------- MODULE MCSideChannels ---------------------------
(* What accompanies frames: trace links, metadata blobs, progress reports   *)
(* and tensor headers.  They do not touch each other, so a behaviour is of  *)
(* one of them and the others rest.                                         *)
EXTENDS TraceLinks, MetadataBlobs, ProgressPoller, TensorLayout

VARIABLE part

Parts == {"trace", "blob", "progress", "tensor"}

RestingHeader ==
    [ndims |-> 1, dtype |-> "INT16", order |-> "ROW", dims |-> <<2>>, strides |-> <<0>>, unit |-> "NONE", step |-> 0]

Init ==
    /\ TraceInit /\ BlobInit
    /\ \/ part = "tensor" /\ TensorInit
       \/ part \in Parts \ {"tensor"} /\ header = RestingHeader /\ verdict = "open"
    /\ ProgressInit /\ (part # "progress" => tracker.validates)

Next ==
    /\ UNCHANGED part
    /\ \/ part = "trace" /\ TraceNext /\ UNCHANGED <<blobVars, progressVars, tensorVars>>
       \/ part = "blob" /\ BlobNext /\ UNCHANGED <<traceVars, progressVars, tensorVars>>
       \/ part = "progress" /\ ProgressNext /\ UNCHANGED <<traceVars, blobVars, tensorVars>>
       \/ part = "tensor" /\ Validate /\ UNCHANGED <<traceVars, blobVars, progressVars>>

Spec == Init /\ [][Next]_<<part, traceVars, blobVars, progressVars, tensorVars>>

SharedGenerator == [p \in Producers |-> IF p = "p3" THEN "g2" ELSE "g1"]
Nodes == [g \in Generators |-> IF g = "g1" THEN 0 ELSE 1]
LastFrame == [p \in Producers |-> IF p = "p1" THEN 1 ELSE 0]
ParentLists == {<<9>>, <<8, 9>>, <<9, 9>>, <<7, 8, 9>>}
Blob(stream, version, total) == [stream |-> stream, version |-> version, total |-> total, checksum |-> stream + version]
TwoStreams == {Blob(1, 1, 2), Blob(1, 2, 1), Blob(2, 1, 2)}
OtherVersion == {[BlobMessage(Blob(1, 1, 2), 1) EXCEPT !.frame = f] : f \in {"newer", "short"}}

\* The second epoch has a longer ring: the tracker is resized with entries in place.
RingSizes == <<1, 2>>

TensorHeader(n, t, o, d, s, u, step) ==
    [ndims |-> n, dtype |-> t, order |-> o, dims |-> d, strides |-> s, unit |-> u, step |-> step]
TensorHeaders ==
    {TensorHeader(n, "INT16", o, d, s, p[1], p[2]) :
        n \in 1 .. 3, o \in {"ROW", "COLUMN"}, d \in [1 .. 3 -> {0, 2, 3}], s \in [1 .. 3 -> {0, 1, 4, 6, 40}],
        p \in {<<"NONE", 0>>, <<"ROWS", 12>>, <<"ROWS", 0>>, <<"COLUMNS", 4>>}}
    \cup {TensorHeader(n, t, o, <<2, 2>>, s, "NONE", 0) :
        n \in 0 .. 2, t \in {"UINT8", "FLOAT32", "FLOAT64", "UNKNOWN"}, o \in {"ROW", "COLUMN", "UNKNOWN"},
        s \in {<<0, 0>>, <<-1, 0>>, <<16, 8>>}}
=============================================================================
