--------------------------- MODULE ReceiveTimeout ---------------------------
(***************************************************************************)
(* recv_packet_timeout of protocol.c, which both UDP programs block in:    *)
(* select() with a timeout, retried when a signal interrupts it, and then  *)
(* recvfrom(), retried too.  Time passes in whole ticks.                   *)
(***************************************************************************)
EXTENDS Naturals

CONSTANTS Timeout,     \* timeout_ms, in ticks
          MaxSignals   \* how many signals the process gets

VARIABLES
  phase,      \* "select", "recv", or the outcome: "packet" or "timeout"
  remaining,  \* what is left of the timeout select() was called with
  elapsed,    \* the ticks since recv_packet_timeout was called
  queued,     \* whether a datagram waits in the socket
  signals     \* how many signals have been handled

vars == <<phase, remaining, elapsed, queued, signals>>

Init ==
  /\ phase = "select"
  /\ remaining = Timeout
  /\ elapsed = 0
  /\ queued \in BOOLEAN
  /\ signals = 0

\* A tick passes while select() blocks.
Wait ==
  /\ phase = "select" /\ ~queued
  /\ remaining > 0
  /\ remaining' = remaining - 1
  /\ elapsed' = elapsed + 1
  /\ UNCHANGED <<phase, queued, signals>>

\* A signal: handle_signal() returns, select() fails with EINTR, and the loop sets
\* the whole timeout again.
Interrupt ==
  /\ phase = "select"
  /\ signals < MaxSignals
  /\ signals' = signals + 1
  /\ remaining' = Timeout
  /\ UNCHANGED <<phase, elapsed, queued>>

Arrive ==
  /\ phase = "select" /\ ~queued
  /\ queued' = TRUE
  /\ UNCHANGED <<phase, remaining, elapsed, signals>>

\* select() says the socket is readable, and recvfrom() reads it.
Readable ==
  /\ phase = "select" /\ queued
  /\ phase' = "recv"
  /\ UNCHANGED <<remaining, elapsed, queued, signals>>

Receive ==
  /\ phase = "recv" /\ queued
  /\ phase' = "packet"
  /\ queued' = FALSE
  /\ UNCHANGED <<remaining, elapsed, signals>>

Expire ==
  /\ phase = "select" /\ ~queued
  /\ remaining = 0
  /\ phase' = "timeout"
  /\ UNCHANGED <<remaining, elapsed, queued, signals>>

Returned == phase \in {"packet", "timeout"} /\ UNCHANGED vars

Next == Wait \/ Interrupt \/ Arrive \/ Readable \/ Receive \/ Expire \/ Returned

Spec == Init /\ [][Next]_vars

\* protocol.c:270-272: "The deadline is recomputed each loop so total wall-clock
\* stays within timeout_ms even under repeated signals."
TotalWithinTimeout == elapsed <= Timeout
=============================================================================
