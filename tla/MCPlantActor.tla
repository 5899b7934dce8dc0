--------------------------- MODULE MCPlantActor ---------------------------
(***************************************************************************)
(* Instances of PlantActor for TLC: a login, a logout and plain requests.  *)
(***************************************************************************)
EXTENDS PlantActor, TLC

CONSTANTS login, logout, request

MCSession == {login, logout}
MCRequest == {request}
MCLogin == {login}
MCLogout == {logout}
MCNone == {}

=============================================================================
