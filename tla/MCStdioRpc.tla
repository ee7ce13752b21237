----------------------------- MODULE MCStdioRpc -----------------------------
(* Instances of StdioRpc for TLC. *)
EXTENDS StdioRpc, TLC

CONSTANTS echo, unknown, overflow

MCCall == {echo, unknown, overflow}
MCEffect == echo :> "ok" @@ unknown :> "error" @@ overflow :> "raise"
MCRawPlan == {<<>>, <<echo, echo>>, <<echo, unknown>>, <<overflow, echo>>}
MCTask == {echo, unknown, None}

=============================================================================
