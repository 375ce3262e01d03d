-------------------------- MODULE MCSessionQuality --------------------------
(* Two cameras whose incidents share a poll, or one counted source.        *)
EXTENDS SessionQuality, TLC

CONSTANTS front, side

MCCameras == {front, side}
MCSources == {"sync", "processing", "evidence", "audit"}
Symmetry == Permutations(MCCameras)
MCConfigurations == {MCCameras} \cup {{s} : s \in MCSources}
=============================================================================
