----------------------------- MODULE FlatBuffer -----------------------------
(***************************************************************************)
(* What a ByteArray promises: one run of bytes with a position, at which   *)
(* bytes are written and read.  That they lie in a list of blocks does not *)
(* show.                                                                   *)
(***************************************************************************)
EXTENDS Integers, SequencesExt

VARIABLES text,  \* the bytes
          at,    \* the position
          last   \* the last operation, with the bytes it wrote or returned

flatVars == <<text, at, last>>

Op(name, bytes) == [name |-> name, bytes |-> bytes]

FlatInit == text = <<>> /\ at = 0 /\ last = Op("clear", <<>>)

Rest == SubSeq(text, at + 1, Len(text))

\* bytes replace what stands at the position and may extend the text.
FlatWrite(bytes) ==
    /\ last' = Op("write", bytes)
    /\ text' = SubSeq(text, 1, at) \o bytes \o SubSeq(text, at + Len(bytes) + 1, Len(text))
    /\ at' = at + Len(bytes)

FlatRead(bytes) ==
    /\ \E name \in {"read", "number", "torn"} : last' = Op(name, bytes)
    /\ IsPrefix(bytes, Rest) /\ at' = at + Len(bytes)
    /\ UNCHANGED text

\* Beyond the end the text is extended by bytes nobody has set.
FlatSeek ==
    /\ last' = Op("seek", <<>>)
    /\ IsPrefix(text, text') /\ at' \in 0 .. Len(text')
    /\ Len(text') = Len(text) \/ Len(text') = at'

\* All the rest is shown, or put into a file; the position stays.
FlatShow == last' = Op("show", Rest) /\ UNCHANGED <<text, at>>

FlatClear == text' = <<>> /\ at' = 0 /\ last' = Op("clear", <<>>)

\* out_of_range is thrown, and nothing has happened.
FlatThrow == last' = Op("throw", <<>>) /\ UNCHANGED <<text, at>>

FlatNext ==
    FlatWrite(last'.bytes) \/ FlatRead(last'.bytes) \/ FlatSeek \/ FlatShow \/ FlatClear \/ FlatThrow

FlatSpec == FlatInit /\ [][FlatNext]_flatVars
=============================================================================
