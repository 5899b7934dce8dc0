-------------------------- MODULE MCSubscription --------------------------
(***************************************************************************)
(* Instances of Subscription for TLC.                                      *)
(***************************************************************************)
EXTENDS Subscription, TLC

CONSTANTS r1, r2, a1, a2

MCReceiver == {r1, r2}
MCOneAccount == {a1}
MCAccount == {a1, a2}

=============================================================================
