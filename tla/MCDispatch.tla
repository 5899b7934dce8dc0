----------------------------- MODULE MCDispatch -----------------------------
(* A call of every method of every plant, beside a second call that turns  *)
(* one of the plant's feeds on or off or asks for an answer in parts, for  *)
(* the same account or another.                                            *)
EXTENDS Dispatch, TLC

CONSTANTS c1, c2, a1, a2

MCCall == {c1, c2}
MCAccount == {a1, a2}

Beside ==
  {"subscribe", "unsubscribe", "subscribe_account_rms_updates", "load_ticks",
   "unsubscribe_pnl_updates"}

MCRepertoire ==
  c1 :> UNION {Methods[p] : p \in Plant} @@ c2 :> Beside

symmetry == Permutations(MCAccount)

=============================================================================
