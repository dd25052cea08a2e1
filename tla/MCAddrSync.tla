----------------------------- MODULE MCAddrSync -----------------------------
(***************************************************************************)
(* TLC instances of AddrSync: one station, two VLANs, two FIDs, two ports.   *)
(***************************************************************************)
EXTENDS AddrSync

\* Each VLAN has an FID and a port of its own.
FidApart == [v \in Vids |-> IF v = 1 THEN 0 ELSE 1]
PortApart == [v \in Vids |-> IF v = 1 THEN {"p"} ELSE {"q"}]
=============================================================================
