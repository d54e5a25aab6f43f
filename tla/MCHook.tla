------------------------------- MODULE MCHook -------------------------------
(* Small instances of Hook for TLC.                                        *)
EXTENDS Hook, TLC

CONSTANTS client, owner

\* One fiber reads, the other sets a timeout and closes.
CloseRoles == client :> {"read"} @@ owner :> {"option", "close"}
=============================================================================
