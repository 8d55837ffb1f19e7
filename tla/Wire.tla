-------------------------------- MODULE Wire --------------------------------
(***************************************************************************)
(* What a decoder of the repository does with a buffer before it looks at  *)
(* the fields.  A message carries, besides its fields, the template it was *)
(* encoded with and the shape of its SBE frame:                            *)
(*   "good"      a complete frame of the schema version in use             *)
(*   "short"     fewer bytes than a message header                         *)
(*   "newer"     a schema version above the one compiled in                *)
(*   "block"     another block length                                      *)
(* A decoder answers "ok" (0), "other" (1: some other message, not an      *)
(* error) or "error" (-1).  Handlers that hand one buffer to several       *)
(* decoders go on to the next one on "other" and on "error" alike.         *)
(***************************************************************************)

Frames == {"good", "short", "newer", "block"}

\* The header checks every decoder of control, driver, merge and trace
\* messages starts with, in their order.  The decoders differ in the fields they read
\* after these checks, which each module abstracts; the lines mapped are one of them.
Decode(msg, template) ==
    IF msg.frame = "short" THEN "error"
    ELSE IF msg.template # template THEN "other"
    ELSE IF msg.frame \in {"newer", "block"} THEN "error"
    ELSE "ok"

=============================================================================
