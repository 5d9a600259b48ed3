----------------------------- MODULE RamChannel -----------------------------
(***************************************************************************)
(* What the RAM-sync transport promises one direction of its users: a      *)
(* queue a message may still be pushed to the front of, then a line on     *)
(* which messages neither overtake, repeat nor change, nor get lost unless *)
(* the link is reset.                                                      *)
(***************************************************************************)
EXTENDS Naturals, Sequences

CONSTANTS
  Msg,        \* messages
  QueueLen,   \* messages that fit in the queue
  LineLen     \* messages that fit on the line

VARIABLES
  queue,      \* accepted, order not yet final
  line,       \* on their way, in order
  arrived     \* taken by the receiving application, in order

vars == <<queue, line, arrived>>

Init == queue = <<>> /\ line = <<>> /\ arrived = <<>>

Push ==
  /\ Len(queue) < QueueLen
  /\ \E m \in Msg : queue' \in {Append(queue, m), <<m>> \o queue}
  /\ UNCHANGED <<line, arrived>>

Commit ==
  /\ queue # <<>>
  /\ Len(line) < LineLen
  /\ line' = Append(line, Head(queue))
  /\ queue' = Tail(queue)
  /\ UNCHANGED arrived

Arrive ==
  /\ line # <<>>
  /\ arrived' = Append(arrived, Head(line))
  /\ line' = Tail(line)
  /\ UNCHANGED queue

(* A reset loses the messages that had not reached the other side. *)
Reset ==
  /\ \E n \in 0 .. Len(line) : line' = SubSeq(line, 1, n)
  /\ UNCHANGED <<queue, arrived>>

Next == Push \/ Commit \/ Arrive \/ Reset

Spec == Init /\ [][Next]_vars

=============================================================================
