--------------------------- MODULE MCProviderAsk ---------------------------
(***************************************************************************)
(* Instances of ProviderAsk for TLC.                                        *)
(***************************************************************************)
EXTENDS ProviderAsk, TLC
=============================================================================
