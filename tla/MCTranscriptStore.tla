-------------------------- MODULE MCTranscriptStore --------------------------
(* Small instances of TranscriptStore.  The first message has two          *)
(* recipients, so their receipts race; the second has one.                 *)
EXTENDS TranscriptStore, TLC

CONSTANTS i1, i2, a1, a2

MCRecipients == (i1 :> {a1, a2}) @@ (i2 :> {a2})
=============================================================================
