---------------------------- MODULE MCConnection ----------------------------
(* Values for the constants of RsvpConnection.                             *)
EXTENDS RsvpConnection

Client == {"list"}             \* who constructs the connection
Anyone == {"list", "recv"}

\* What the router may send.
AllTypes == MTypes
Acting   == MTypes \ {"RESVCONF", "OTHER"}
Outgoing == {"PATH", "RESV", "PATHERR", "RESVTEAR"}
Crossing == {"PATH", "RESV"}

NoFlags    == {"none"}
Reflect    == {"none", "RD"}
AllFlags   == {"none", "RD", "D"}
NoUpstream == {0}
AnUpstream == {0, 5}
ALabel     == {7}
Nothing    == {}
AllObjects == {"hop", "sender", "label"}
TwoKeys    == {1, 2}
=============================================================================
