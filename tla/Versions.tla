------------------------------ MODULE Versions ------------------------------
(***************************************************************************)
(* Versions and the requirements on them (version.rs).                      *)
(*                                                                          *)
(* A version is its three numbers and its pre-release identifiers, <<>> for *)
(* a release.  An identifier is <<0, n>>, a number, or <<1, n>>, the n-th   *)
(* of the names in use.  Build metadata is never compared and is left out.  *)
(***************************************************************************)
EXTENDS Naturals, Sequences

Version(core, pre) == [core |-> core, pre |-> pre]

IsVersion(v) == v \in [core : [1 .. 3 -> Nat], pre : Seq({0, 1} \X Nat)]

CoreBelow(x, y) == \E i \in 1 .. 3 : x[i] < y[i] /\ \A j \in 1 .. i - 1 : x[j] = y[j]

IdentifierBelow(x, y) == x[1] < y[1] \/ (x[1] = y[1] /\ x[2] < y[2])

(* compare_prerelease: identifier by identifier, numbers before names, and
   what goes on is above what has ended. *)
PrereleaseBelow(x, y) ==
  \E i \in 1 .. Len(y) :
    /\ \A j \in 1 .. i - 1 : j <= Len(x) /\ x[j] = y[j]
    /\ i > Len(x) \/ IdentifierBelow(x[i], y[i])

(* Mutant: a release comes before its pre-releases, as the shorter text. *)
MutantBelow(v, w) ==
  CoreBelow(v.core, w.core) \/ (v.core = w.core /\ PrereleaseBelow(v.pre, w.pre))

(* Ord for Version *)
Below(v, w) ==
  \/ CoreBelow(v.core, w.core)
  \/ /\ v.core = w.core /\ v.pre # <<>>
     /\ w.pre = <<>> \/ PrereleaseBelow(v.pre, w.pre)

Comparator(op, version, fields) == [op |-> op, version |-> version, fields |-> fields]

(* VersionReq::parse and parse_partial: a bare version is a caret requirement,
   and what was not written of one is zero. *)
Parsed(op, numbers, pre) ==
  Comparator(IF op = "" THEN "^" ELSE op,
             Version([i \in 1 .. 3 |-> IF i <= Len(numbers) THEN numbers[i] ELSE 0], pre),
             Len(numbers))

IsComparator(c) ==
  /\ c.op \in {"^", "~", "=", ">", ">=", "<", "<="}
  /\ IsVersion(c.version) /\ c.fields \in 1 .. 3
  /\ \A i \in 1 .. 3 : i > c.fields => c.version.core[i] = 0

(* VersionReq::any *)
AnyRelease == <<>>

(* Mutant: the minor version may move below 1.0. *)
MutantHeldByCaret(c) == 1

(* How many fields of its bound a caret holds: up to the leftmost that is not
   zero, as far as they are written. *)
HeldByCaret(c) ==
  CASE c.version.core[1] > 0 \/ c.fields = 1 -> 1
    [] c.version.core[1] = 0 /\ (c.version.core[2] > 0 \/ c.fields = 2) /\ c.fields # 1 -> 2
    [] OTHER -> 3

(* Comparator::matches *)
ComparatorMatches(c, v) ==
  LET holds(n) == \A i \in 1 .. n : v.core[i] = c.version.core[i]
  IN CASE c.op = "="  -> IF c.fields < 3 THEN holds(c.fields) ELSE v = c.version
       [] c.op = ">"  -> Below(c.version, v)
       [] c.op = ">=" -> ~Below(v, c.version)
       [] c.op = "<"  -> Below(v, c.version)
       [] c.op = "<=" -> ~Below(c.version, v)
       [] c.op = "^"  -> ~Below(v, c.version) /\ holds(HeldByCaret(c))
       [] c.op = "~"  -> ~Below(v, c.version) /\ holds(IF c.fields = 1 THEN 1 ELSE 2)

(* Mutant: pre-releases are offered like releases. *)
MutantMatches(requirement, v) ==
  \A i \in DOMAIN requirement : ComparatorMatches(requirement[i], v)

(* VersionReq::matches: all of them, and a pre-release only where one of its
   version is named. *)
Matches(requirement, v) ==
  /\ \A i \in DOMAIN requirement : ComparatorMatches(requirement[i], v)
  /\ v.pre # <<>> =>
       \E i \in DOMAIN requirement :
         requirement[i].version.pre # <<>> /\ requirement[i].version.core = v.core

=============================================================================
