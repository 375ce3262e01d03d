---------------------------- MODULE MCFrameFlow ----------------------------
(* The reference camera and one other.                                     *)
EXTENDS FrameFlow

CONSTANTS front, side

MCCameras == {front, side}
=============================================================================
