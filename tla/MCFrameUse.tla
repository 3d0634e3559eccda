----------------------------- MODULE MCFrameUse -----------------------------
(* Instances of FrameUse for TLC. *)
EXTENDS FrameUse

CONSTANT a          \* the only page body: contents play no part here
OneBody == {a}
=============================================================================
