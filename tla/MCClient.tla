------------------------------ MODULE MCClient ------------------------------
(***************************************************************************)
(* Instances of Client for TLC: two people, the shop's build or one with   *)
(* no merchant; only the data of one of them changes.                      *)
(***************************************************************************)
EXTENDS Client

CONSTANTS Ann, Bob, Shop

MCAccount == {Ann, Bob}
MCAddr == {Ann, Bob, Shop}
MCEnvs == {Shop, NoAddr}
MCPublishing == {Ann}

=============================================================================
