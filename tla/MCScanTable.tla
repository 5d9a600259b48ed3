---------------------------- MODULE MCScanTable -----------------------------
(* Instances of ScanTable for TLC. *)
EXTENDS ScanTable

(* Two access points of one network, one of another, one hidden. *)
Names == [a \in Ap |-> IF a \in {"a1", "a2"} THEN "home" ELSE IF a = "b" THEN "cafe" ELSE ""]

(* Weak and strong, in dBm: an empty slot's zero is above both. *)
Signals == {-80, -40}

=============================================================================
