----------------------------- MODULE MCWifiMgmr -----------------------------
(* Instances of WifiMgmr for TLC. *)
EXTENDS WifiMgmr

(* Two networks with different hints, one of them without DHCP. *)
Home == [net |-> "home", dhcp |-> TRUE, ttl |-> 2]
Cafe == [net |-> "cafe", dhcp |-> TRUE, ttl |-> 0]
Fixed == [net |-> "fixed", dhcp |-> FALSE, ttl |-> -1]

StaProfiles == {Home, Fixed}
HintProfiles == {Home, Cafe}
OneProfile == {Home}

=============================================================================
