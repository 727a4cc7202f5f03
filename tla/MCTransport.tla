------------------------------ MODULE MCTransport ------------------------------
(***************************************************************************)
(* Packets for Transport: one of each kind the receiver tells apart.       *)
(***************************************************************************)
EXTENDS Transport

SomePackets == {"numbered", "hello", "damaged", "elsewhere"}
ForUs == SomePackets \ {"elsewhere"}
Undamaged == SomePackets \ {"damaged"}
Numbers == [p \in SomePackets |-> IF p = "numbered" THEN 1 ELSE 0]
=============================================================================
