------------------------------ MODULE MCBloop -------------------------------
(* Instances of Bloop for TLC. *)
EXTENDS Bloop, TLC

Leds == {"l1", "l2"}
OneAndTwo == [m \in Leds |-> IF m = "l1" THEN 1 ELSE 2]
Bits == {"TRIGGER", "WAITING", "DUMP"}

=============================================================================
