---------------------------- MODULE MCUdpSession ----------------------------
(***************************************************************************)
(* Small instances of UdpSession.                                          *)
(***************************************************************************)
EXTENDS UdpSession

MCData == {"a", "b"}
MCFiles == {<<"a", "b">>, <<"a">>}
MCPasswords == {"secret", "wrong"}
MCSecret == "secret"

\* Each kind of fault occurs, alone or with those that make it worse.  Duplicates
\* and strays do not occur together: a stray packet duplicated for ever would
\* keep the server waiting for ever.
MCFaultSets ==
  {{}, {"loss", "reorder"}, {"duplicate", "reorder"}, {"stray", "delay"},
   {"stop", "loss"}, {"stop", "kill", "io"}}
DuplicatesOnly == {{"duplicate"}}
=============================================================================
