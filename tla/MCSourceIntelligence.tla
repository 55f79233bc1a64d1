------------------------ MODULE MCSourceIntelligence ------------------------
(***************************************************************************)
(* Instances of SourceIntelligence for TLC.                                 *)
(***************************************************************************)
EXTENDS SourceIntelligence, TLC

CONSTANTS p1, p2
=============================================================================
