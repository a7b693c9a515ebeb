------------------------- MODULE MCReliableTransfer -------------------------
(***************************************************************************)
(* Small instances of ReliableTransfer.                                    *)
(***************************************************************************)
EXTENDS ReliableTransfer

\* A file of three chunks, one cut short while the server waited, and an empty
\* one: the window (2) opens twice.
MCData == {"a", "b", "c"}
MCFiles == {<<"a", "b", "c">>, <<"a", "b">>, <<>>}
SafetyFiles == {<<"a", "b", "c">>, <<"a", "b">>}
OneFile == {<<"a", "b", "c">>}
NoIds == {}
FirstId == {0}
LastId == {2}
NoFaults == {}
KillOnly == {"kill"}
=============================================================================
