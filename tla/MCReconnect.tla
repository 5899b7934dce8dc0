---------------------------- MODULE MCReconnect ----------------------------
(* The three strategies, and the one examples/reconnect.rs uses.           *)
EXTENDS Reconnect, TLC

MCStrategy == {"Simple", "Retry", "AlternateWithRetry"}
MCRetry == {"Retry"}

=============================================================================
