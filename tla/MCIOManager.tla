---------------------------- MODULE MCIOManager ----------------------------
(* Small instances of IOManager for TLC.                                   *)
EXTENDS IOManager, TLC

CONSTANTS j1, j2

\* A reader and a writer of one descriptor beyond the initial table.
Duplex == j1 :> <<2, "READ">> @@ j2 :> <<2, "WRITE">>

\* Readers of two descriptors beyond the initial table.
Readers == j1 :> <<2, "READ">> @@ j2 :> <<4, "READ">>
=============================================================================
