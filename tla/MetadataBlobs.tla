---------------------------- MODULE MetadataBlobs ----------------------------
(***************************************************************************)
(* Metadata blobs: producers send a blob as an announce, chunks and a      *)
(* completion on the metadata stream (src/client/tp_control.c); a metadata *)
(* poller (src/client/tp_metadata_poller.c) follows one blob at a time and *)
(* hands the application what passes its checks.  Any message may be lost  *)
(* and the messages of several producers interleave.                       *)
(*                                                                         *)
(* A blob has a length and a checksum; its chunks have one unit of length. *)
(***************************************************************************)
EXTENDS Integers, Sequences, Wire

CONSTANTS
    Blobs,     \* blobs producers send: stream, version, total, checksum
    Damaged    \* frames of the templates used here that do not decode

Templates == {"BLOB_ANNOUNCE", "BLOB_CHUNK", "BLOB_COMPLETE"}

ASSUME BlobAssumption ==
    /\ \A b \in Blobs : b.total \in Nat
    /\ \A m \in Damaged : \A t \in Templates : Decode(m, t) # "ok"

VARIABLES
    sending,   \* number of the next message of each blob
    poller,    \* tp_metadata_poller_t: the blob being followed
    app        \* what the application was given since the last announce callback

blobVars == <<sending, poller, app>>

NoBlob == [active |-> FALSE, stream |-> 0, version |-> 0, total |-> 0, checksum |-> 0, next |-> 0]
Nothing == [stream |-> 0, version |-> 0, bytes |-> <<>>, whole |-> FALSE]

\* tp_producer_send_meta_blob_announce, _chunk, _complete: message k of a blob.
BlobMessage(b, k) ==
    [frame |-> "good",
     template |-> IF k = 0 THEN "BLOB_ANNOUNCE" ELSE IF k <= b.total THEN "BLOB_CHUNK" ELSE "BLOB_COMPLETE",
     stream |-> b.stream, version |-> b.version, total |-> b.total, checksum |-> b.checksum,
     offset |-> k - 1, length |-> 1]

\* Mutant: chunks of another blob are taken.
ChunkAnyBlob(p, m) ==
    /\ p.active /\ m.length # 0 /\ m.offset = p.next /\ m.length <= p.total - m.offset

\* tp_metadata_blob_validate_chunk
ChunkValid(p, m) ==
    /\ p.active
    /\ m.stream = p.stream /\ m.version = p.version
    /\ m.length # 0
    /\ m.offset = p.next
    /\ m.offset <= p.total
    /\ m.length <= p.total - m.offset

\* tp_metadata_blob_validate_complete
CompleteValid(p, m) ==
    /\ p.active
    /\ m.stream = p.stream /\ m.version = p.version
    /\ m.checksum = p.checksum
    /\ p.next = p.total

\* The poller after a chunk: moved on, or reset by the check that failed.
AfterChunk(p, m) == IF ChunkValid(p, m) THEN [p EXCEPT !.next = m.offset + m.length] ELSE NoBlob

\* tp_metadata_poller_handler: the decoders are tried in this order; a frame none
\* of them takes changes nothing.
Handle(m) ==
    \/ /\ Decode(m, "BLOB_ANNOUNCE") = "ok"
       /\ poller' = [active |-> TRUE, stream |-> m.stream, version |-> m.version,
                     total |-> m.total, checksum |-> m.checksum, next |-> 0]
       /\ app' = [Nothing EXCEPT !.stream = m.stream, !.version = m.version]
    \/ /\ Decode(m, "BLOB_CHUNK") = "ok"
       /\ poller' = AfterChunk(poller, m)
       /\ app' = IF ChunkValid(poller, m)
                 THEN [app EXCEPT !.bytes = Append(@, <<m.stream, m.version, m.offset>>)] ELSE app
    \/ /\ Decode(m, "BLOB_COMPLETE") = "ok"
       /\ poller' = NoBlob
       /\ app' = IF CompleteValid(poller, m) THEN [app EXCEPT !.whole = TRUE] ELSE app
    \/ /\ \A t \in Templates : Decode(m, t) # "ok"
       /\ UNCHANGED <<poller, app>>

\* A producer sends the next message of a blob, and begins again after the last;
\* or it gives up on the blob and begins again.
SendBlob(b) ==
    /\ sending' = [sending EXCEPT ![b] = IF @ > b.total THEN 0 ELSE @ + 1]
    /\ \/ Handle(BlobMessage(b, sending[b]))
       \/ UNCHANGED <<poller, app>>

Restart(b) ==
    /\ sending' = [sending EXCEPT ![b] = 0]
    /\ UNCHANGED <<poller, app>>

BlobInit ==
    /\ sending = [b \in Blobs |-> 0]
    /\ poller = NoBlob
    /\ app = Nothing

BlobNext ==
    \/ \E b \in Blobs : SendBlob(b) \/ Restart(b)
    \/ \E m \in Damaged : Handle(m) /\ UNCHANGED sending

(***************************************************************************)
(* Properties                                                              *)
(***************************************************************************)

\* Whatever is lost and however producers interleave, the application is told
\* that a blob is complete only when it was given every chunk of it, in order and
\* of no other blob, since the announce of that blob.
CompleteIsWhole ==
    app.whole => \E b \in Blobs :
        /\ b.stream = app.stream /\ b.version = app.version
        /\ app.bytes = [i \in 1 .. b.total |-> <<b.stream, b.version, i - 1>>]

\* What the application holds is at any time a prefix of the announced blob, and
\* as long as the poller follows it, exactly as much as the poller counted.
ChunksArePrefix ==
    /\ \A i \in DOMAIN app.bytes : app.bytes[i] = <<app.stream, app.version, i - 1>>
    /\ poller.active => /\ poller.stream = app.stream /\ poller.version = app.version
                        /\ poller.next = Len(app.bytes) /\ poller.next <= poller.total

\* What the application is handed of a blob is a prefix of it, and all of it when
\* it is said to be complete.
BlobsSound == CompleteIsWhole /\ ChunksArePrefix

=============================================================================
