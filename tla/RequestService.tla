--------------------------- MODULE RequestService ---------------------------
(***************************************************************************)
(* What a plant promises the callers of its handle methods, whatever       *)
(* happens to the connection: a call gets at most one outcome and keeps    *)
(* it; when the plant goes down every call still waiting is told at once   *)
(* (ConnectionClosed), and nobody can start to wait on a plant that is     *)
(* down.  RequestHandler and PlantActor implement it.                      *)
(***************************************************************************)
CONSTANT Call

VARIABLES
  outcome,   \* call -> where it stands
  closed     \* the plant is down

svars == <<outcome, closed>>

Init ==
  /\ outcome = [c \in Call |-> "idle"]
  /\ closed = FALSE

Becomes(c, o) == outcome' = [outcome EXCEPT ![c] = o] /\ UNCHANGED closed

Accept(c) == ~closed /\ outcome[c] = "idle" /\ Becomes(c, "waiting")

Fail(c) ==
  /\ ~closed
  /\ outcome[c] \in {"idle", "waiting"}
  /\ Becomes(c, "SendFailed")

Answer(c) == ~closed /\ outcome[c] = "waiting" /\ Becomes(c, "Ok")

GiveUp(c) == outcome[c] = "waiting" /\ Becomes(c, "dropped")

Refuse(c) == closed /\ outcome[c] = "idle" /\ Becomes(c, "ConnectionClosed")

Close ==
  /\ ~closed
  /\ closed' = TRUE
  /\ outcome' = [c \in Call |->
       IF outcome[c] = "waiting" THEN "ConnectionClosed" ELSE outcome[c]]

Next ==
  \/ \E c \in Call : \/ Accept(c) \/ Fail(c) \/ Answer(c)
                     \/ GiveUp(c) \/ Refuse(c)
  \/ Close

Spec == Init /\ [][Next]_svars

=============================================================================
