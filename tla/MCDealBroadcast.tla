-------------------------- MODULE MCDealBroadcast --------------------------
(***************************************************************************)
(* DealBroadcast with one run and two users in batches of one, so that a run   *)
(* takes several batches.                                                  *)
(***************************************************************************)
EXTENDS DealBroadcast

CONSTANT r1

MCOneRun == {r1}
MCUsers == 1..2
MCAdminStays == {TRUE}
MCAdminMayLeave == BOOLEAN
=============================================================================
