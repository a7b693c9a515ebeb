---------------------------- MODULE FileDelivery ----------------------------
(***************************************************************************)
(* What the reliable transfer promises, without packets: a sender hands    *)
(* over the chunks of one file in order, learns how many of them have      *)
(* arrived, and says OK only when all of them have; a receiver keeps an    *)
(* in-order prefix and publishes the file once, and only when it is the    *)
(* file whose digest the sender took at its start.                         *)
(***************************************************************************)
EXTENDS Integers, Sequences

CONSTANTS Data,     \* what one chunk can contain
          Files     \* the contents the input file can have

VARIABLES promised,   \* the contents the sender took the digest of
          source,     \* the contents the sender hands over
          confirmed,  \* how many chunks the sender knows to have arrived
          sender,     \* "running", "ok" or "failed"
          received,   \* what the receiver has written so far
          receiver,   \* "running", "ok" or "failed"
          published   \* the contents published at the output path, in order

vars == <<promised, source, confirmed, sender, received, receiver, published>>

Init == /\ promised \in Files
        /\ source \in Files
        /\ confirmed = 0
        /\ sender = "running"
        /\ received = <<>>
        /\ receiver = "running"
        /\ published = <<>>

\* The receiver writes the chunks up to number n.
Receive(n) ==
  /\ receiver = "running"
  /\ Len(received) < n /\ n <= Len(source)
  /\ received' = SubSeq(source, 1, n)
  /\ UNCHANGED <<promised, source, confirmed, sender, receiver, published>>

\* The sender learns that the first n chunks have been written.
Confirm(n) ==
  /\ sender = "running"
  /\ confirmed < n /\ n <= Len(received)
  /\ confirmed' = n
  /\ UNCHANGED <<promised, source, sender, received, receiver, published>>

SenderDone ==
  /\ sender = "running"
  /\ confirmed = Len(source)
  /\ sender' = "ok"
  /\ UNCHANGED <<promised, source, confirmed, received, receiver, published>>

Publish ==
  /\ receiver = "running"
  /\ received = promised
  /\ receiver' = "ok"
  /\ published' = Append(published, received)
  /\ UNCHANGED <<promised, source, confirmed, sender, received>>

SenderFails ==
  /\ sender = "running"
  /\ sender' = "failed"
  /\ UNCHANGED <<promised, source, confirmed, received, receiver, published>>

ReceiverFails ==
  /\ receiver = "running"
  /\ receiver' = "failed"
  /\ UNCHANGED <<promised, source, confirmed, sender, received, published>>

Next == \/ \E n \in 1..Len(source) : Receive(n) \/ Confirm(n)
        \/ SenderDone \/ Publish \/ SenderFails \/ ReceiverFails

Spec == Init /\ [][Next]_vars
=============================================================================
