--------------------------- MODULE MCPingMonitor ---------------------------
(***************************************************************************)
(* PingMonitor for TLC.  As in the code (60 s, 50 s, 10 s) one write is as *)
(* long as the time between a ping's deadline and the next tick.           *)
(***************************************************************************)
EXTENDS PingMonitor

MCInterval == 6
MCTimeout == 4
MCWriteLimit == 2
MCSlack == 3
=============================================================================
