--------------------------- MODULE MCPackageStore ---------------------------
(***************************************************************************)
(* TLC instances of PackageStore: two projects on one machine, and packages *)
(* of which two hold the same bytes under two registries.                   *)
(***************************************************************************)
EXTENDS PackageStore

CONSTANTS p1, p2, d1, d2, k1, k2

(* "a" and "b" publish the same archive d1; "g" is a git package and
   "t" one of the toolchain's own, both with the bytes d2. *)
MCChecksum == [k \in Pkg |-> IF k \in {"g", "t"} THEN d2 ELSE d1]
MCKind     == [k \in Pkg |-> IF k = "g" THEN "git" ELSE IF k = "t" THEN "toolchain" ELSE "registry"]
MCFiles    == [d \in Digest |-> 2]
MCModes    == [p \in Proc |-> {"online", "offline"}]
MCOnline   == [p \in Proc |-> {"online"}]

MCWantsToolchain == [p \in Proc |-> IF p = p1 THEN {"a", "t"} ELSE {"a"}]
MCWantsTwins == [p \in Proc |-> IF p = p1 THEN {"a", "b"} ELSE {"b", "g"}]

(* p1 lists k1 for every package; p2 lists nobody. *)
MCTrustOne  == [p \in Proc |-> [k \in Pkg |-> IF p = p1 THEN {k1} ELSE {}]]

(* p1 lists k1 for the registry of "a" alone; p2 lists nobody. *)
MCTrustRegistry == [p \in Proc |-> [k \in Pkg |-> IF p = p1 /\ k = "a" THEN {k1} ELSE {}]]

(* Sources that answer well, and a registry that may answer anything. *)
MCHonest == [k \in Pkg |-> {MCChecksum[k]}]
MCBad    == [k \in Pkg |-> {MCChecksum[k]} \cup IF k = "a" THEN {Other, Unavailable} ELSE {}]

MCSameKey  == [k \in Pkg |-> {[key |-> k1, of |-> MCChecksum[k]]}]
MCUnsigned == [k \in Pkg |-> {Unsigned, [key |-> k2, of |-> d1], [key |-> k1, of |-> d2]}]
=============================================================================
