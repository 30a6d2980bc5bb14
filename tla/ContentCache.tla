---------------------------- MODULE ContentCache ----------------------------
(***************************************************************************)
(* What the package store promises the projects that share it, with every   *)
(* checkout one indivisible step: a package is given whole or refused, and  *)
(* it is given only to a project entitled to it.                            *)
(***************************************************************************)
CONSTANTS
  Proc, Pkg, Digest,
  Checksum,   \* Checksum[k]: the digest that names k's tree
  Entitled,   \* Entitled[p][k]: p may build k, as far as signatures go
  Forgets     \* whether trees may be deleted by hand

VARIABLES
  available,  \* digests whose whole tree is in the store
  answer      \* answer[p][k]: the last answer to p about k

vars == <<available, answer>>

Init ==
  /\ available = {}
  /\ answer = [p \in Proc |-> [k \in Pkg |-> "none"]]

(* The tree is in the store, whole, when the answer is given. *)
Give(p, k) ==
  /\ Entitled[p][k]
  /\ available' = available \cup {Checksum[k]}
  /\ answer' = [answer EXCEPT ![p][k] = "ok"]

Refuse(p, k) ==
  /\ answer' = [answer EXCEPT ![p][k] = "refused"]
  /\ UNCHANGED available

Forget ==
  /\ Forgets
  /\ available' \in SUBSET available
  /\ UNCHANGED answer

Next ==
  \/ \E p \in Proc, k \in Pkg : Give(p, k) \/ Refuse(p, k)
  \/ Forget

Spec == Init /\ [][Next]_vars
=============================================================================
