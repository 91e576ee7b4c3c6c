---------------------------- MODULE MCJsonIndex ----------------------------
(* Small instances of JsonIndex: one or two scenes, two writers, readers.  *)
EXTENDS JsonIndex, TLC

CONSTANTS v0, v1

TwoValues == {v0, v1}
Saves == {"scene", "annotations"}
AllKinds == {"scene", "annotations", "batch", "delete"}
=============================================================================
