---------------------------- MODULE PathLifecycle ----------------------------
(***************************************************************************)
(* What a connection of the agent promises about its path, seen from       *)
(* outside: who asked for it (role) and how far it is (phase).             *)
(*                                                                         *)
(* An outgoing path is set up once and ended once.  The router's side is   *)
(* weaker: an incoming path that has ended may come back when the client's *)
(* confirmation is late, and falls back to set-up when the router starts a *)
(* deletion.  A client's request on the same tunnel takes a path over,     *)
(* whatever it was.                                                        *)
(***************************************************************************)
VARIABLES role, phase

TypeInv == role \in {"none", "in", "out"} /\ phase \in {"idle", "setup", "up", "gone"}

Init == role = "none" /\ phase = "idle"

\* The client asks for the path.
Open == role # "out" /\ role' = "out" /\ phase' = "setup"

\* The router offers, refreshes or withdraws an incoming path.
Offer ==
  /\ role # "out" /\ role' = "in"
  /\ \/ phase' \in {"up", "gone"}
     \/ phase # "gone" /\ phase' = "setup"

\* The router reserves an outgoing path.
Establish == role = "out" /\ phase = "setup" /\ phase' = "up" /\ UNCHANGED role

\* Torn down by either side, refused, or given up.
End == phase # "idle" /\ phase' = "gone" /\ UNCHANGED role

Next == Open \/ Offer \/ Establish \/ End

Spec == Init /\ [][Next]_<<role, phase>>

\* An outgoing path does not stay in set-up.
Decide == role = "out" /\ phase = "setup" /\ (Establish \/ End)

Decides == WF_<<role, phase>>(Decide)

FairSpec == Spec /\ Decides
=============================================================================
