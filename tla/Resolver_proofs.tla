---------------------------- MODULE Resolver_proofs ----------------------------
(***************************************************************************)
(* What Resolver comes to is proved to be an answer, for every world that   *)
(* there may be (ProblemAssumption): every need of the member and of what   *)
(* is chosen is met or still pending, on the branch that is searched and on *)
(* every branch that is left to be tried.                                   *)
(***************************************************************************)
EXTENDS ResolverCheck, WellFoundedInduction, TLAPS

-----------------------------------------------------------------------------
(* The invariant *)

URLs(P) == DOMAIN P.repositories

IsNeed(need, urls) ==
  /\ need = Need(need.name, need.requirement, need.want)
  /\ \A i \in DOMAIN need.requirement : IsComparator(need.requirement[i])
  /\ IsSource(need.want) /\ need.want.rev = None
  /\ need.want.kind = "toolchain" => need.want = Toolchain
  /\ need.want.kind = "git" => need.want.place \in urls
  /\ need.want.kind = "registry" => need.want = Source("registry", need.want.place, None, None)

AreNeeds(needs, urls) ==
  needs \in Seq(Range(needs)) /\ \A need \in Range(needs) : IsNeed(need, urls)

(* What is published of a version and not yanked, or the lock's. *)
IsAllowed(P, n, p) ==
  p.source.kind = "registry" =>
    \/ IsLocked(P, n, p.source, p.version)
    \/ /\ p.source.place \in DOMAIN P.registries /\ n \in DOMAIN P.registries[p.source.place]
       /\ \E e \in P.registries[p.source.place][n] : ~e.yanked /\ e.version = p.version

IsChosen(P, n, p) ==
  /\ p = Package(p.name, p.version, p.source, p.content, p.needs, p.indexed)
  /\ IsVersion(p.version) /\ IsSource(p.source) /\ p.indexed \in BOOLEAN
  /\ p.source.kind # "git" => p.source.rev = None
  /\ AreNeeds(p.needs, URLs(P)) /\ IsContent(p.content, URLs(P))
  /\ IsAllowed(P, n, p)

(* Until its archive is looked into, a package is what the index says it is. *)
IsAsTold(p) ==
  p.indexed =>
    /\ p.source = Source("registry", p.source.place, None, None)
    /\ \A need \in Range(p.needs), d \in Range(p.content.dependencies) :
         need.name = d.name /\ need.requirement = d.requirement
           => need.want = IF d.source.kind = "toolchain" THEN Toolchain ELSE p.source

Met(need, packages) ==
  /\ need.name \in DOMAIN packages
  /\ Matches(need.requirement, packages[need.name].version)
  /\ WantMatches(need.want, packages[need.name].source)

(* What needs there are: a member's own and those of the packages. *)
AllNeeds(own, packages) ==
  Range(own) \cup UNION {Range(packages[n].needs) : n \in DOMAIN packages}

Covered(own, packages, todo) ==
  \A need \in AllNeeds(own, packages) : Met(need, packages) \/ need \in todo

Own == MemberNeeds(problem, at)

Branch(P, packages) ==
  \A n \in DOMAIN packages : IsChosen(P, n, packages[n]) /\ IsAsTold(packages[n])

(* A candidate for what is needed. *)
IsCandidate(P, need, c) ==
  /\ IsChosen(P, need.name, c) /\ IsAsTold(c)
  /\ Matches(need.requirement, c.version) /\ WantMatches(need.want, c.source)

IsFrame(P, own, f) ==
  /\ f = [need |-> f.need, left |-> f.left, pin |-> f.pin, pending |-> f.pending, chosen |-> f.chosen]
  /\ IsNeed(f.need, URLs(P)) /\ AreNeeds(f.pending, URLs(P))
  /\ Branch(P, f.chosen) /\ f.need.name \notin DOMAIN f.chosen
  /\ Covered(own, f.chosen, Range(f.pending) \cup {f.need})
  /\ \A c \in f.left : IsCandidate(P, f.need, c)

IsTrail(P, own, frames) ==
  frames \in Seq(Range(frames)) /\ \A f \in Range(frames) : IsFrame(P, own, f)

TrailInv == IsTrail(problem, Own, trail)

SearchInv ==
  /\ AreNeeds(pending, URLs(problem)) /\ Branch(problem, chosen)
  /\ status # "error" => AreNeeds(Own, URLs(problem))
  /\ status = "search" => Covered(Own, chosen, Range(pending))

(* git was run for commits that are the repository's. *)
AreCommits(P, found) ==
  \A f \in found : f.url \in URLs(P) /\ f.rev \in DOMAIN P.repositories[f.url].commits

FetchedInv == AreCommits(problem, fetched)

MergedInv ==
  /\ \A n \in DOMAIN merged : IsChosen(problem, n, merged[n])
  /\ \A n \in DOMAIN merged : \A need \in Range(merged[n].needs) : Met(need, merged)
  /\ \A i \in DOMAIN problem.members : i < at \/ status = "solved" =>
       \A need \in Range(MemberNeeds(problem, i)) : IsNeed(need, URLs(problem)) /\ Met(need, merged)
  /\ ~Cyclic(merged)

ResolverInv ==
  /\ IsWorld(problem) /\ at \in DOMAIN problem.members
  /\ SearchInv /\ TrailInv /\ FetchedInv /\ MergedInv
-----------------------------------------------------------------------------
(* Versions *)

(* A set of numbers has a least. *)
LEMMA Least ==
  ASSUME NEW T \in SUBSET Nat, T # {}
  PROVE  \E x \in T : \A y \in T : x <= y
<1>. DEFINE R == OpToRel(<, Nat)
<1>1. IsWellFoundedOn(R, Nat)
  BY NatLessThanWellFounded
<1>2. \A x, y \in Nat : x < y => <<x, y>> \in R
  BY DEF OpToRel
<1>. HIDE DEF R
<1>3. PICK x \in T : \A y \in T : ~(<<y, x>> \in R)
  BY <1>1, WFMin
<1>4. ASSUME NEW y \in T PROVE x <= y
  <2>1. x \in Nat /\ y \in Nat
    OBVIOUS
  <2>2. ~(y < x)
    BY <1>2, <1>3, <2>1
  <2>. QED BY <2>1, <2>2
<1>. QED BY <1>4

(* One sequence behind another. *)
LEMMA Joined ==
  ASSUME NEW S, NEW s \in Seq(S), NEW t \in Seq(S)
  PROVE  /\ s \o t \in Seq(S) /\ Len(s \o t) = Len(s) + Len(t)
         /\ \A i \in 1 .. Len(s) : (s \o t)[i] = s[i]
         /\ \A i \in 1 .. Len(t) : (s \o t)[Len(s) + i] = t[i]
OBVIOUS

(* The numbers of two versions are the same if they are one by one. *)
LEMMA SameCore ==
  ASSUME NEW x \in [1 .. 3 -> Nat], NEW y \in [1 .. 3 -> Nat], \A i \in 1 .. 3 : x[i] = y[i]
  PROVE  x = y
OBVIOUS

Identifiers == {0, 1} \X Nat
Fields == {0, 1, 2} \X Nat

(* The fields a version is compared by. *)
LEMMA KeyIs ==
  ASSUME NEW v, IsVersion(v)
  PROVE  /\ Key(v) \in Seq(Fields)
         /\ \A i \in 1 .. 3 : Key(v)[i] = <<0, v.core[i]>>
         /\ v.pre = <<>> => Len(Key(v)) = 4 /\ Key(v)[4] = <<2, 0>>
         /\ v.pre # <<>> => /\ Len(Key(v)) = Len(v.pre) + 3 /\ Len(v.pre) \in Nat \ {0}
                            /\ \A i \in 1 .. Len(v.pre) : Key(v)[i + 3] = v.pre[i]
<1>1. v.core \in [1 .. 3 -> Nat] /\ v.pre \in Seq(Identifiers)
  BY DEF IsVersion, Identifiers
<1>2. 1 \in 1 .. 3 /\ 2 \in 1 .. 3 /\ 3 \in 1 .. 3
  OBVIOUS
<1>3. v.core[1] \in Nat /\ v.core[2] \in Nat /\ v.core[3] \in Nat
  BY <1>1, <1>2
<1>. DEFINE front == <<<<0, v.core[1]>>, <<0, v.core[2]>>, <<0, v.core[3]>>>>
            back == IF v.pre = <<>> THEN <<<<2, 0>>>> ELSE v.pre
<1>4. front \in Seq(Fields) /\ Len(front) = 3
  BY <1>3 DEF Fields
<1>5. front[1] = <<0, v.core[1]>> /\ front[2] = <<0, v.core[2]>> /\ front[3] = <<0, v.core[3]>>
  OBVIOUS
<1>6. \A i \in 1 .. 3 : front[i] = <<0, v.core[i]>>
  <2>1. \A i \in 1 .. 3 : i = 1 \/ i = 2 \/ i = 3
    OBVIOUS
  <2>. QED BY <1>5, <2>1
<1>7. back \in Seq(Fields) /\ (v.pre = <<>> => Len(back) = 1 /\ back[1] = <<2, 0>>)
  <2>1. <<<<2, 0>>>> \in Seq(Fields) /\ Len(<<<<2, 0>>>>) = 1 /\ <<<<2, 0>>>>[1] = <<2, 0>>
    BY DEF Fields
  <2>2. Identifiers \subseteq Fields
    BY DEF Identifiers, Fields
  <2>3. v.pre \in Seq(Fields)
    BY <1>1, <2>2
  <2>. QED BY <2>1, <2>3
<1>8. v.pre # <<>> => Len(v.pre) \in Nat \ {0} /\ back = v.pre
  BY <1>1
<1>9. Key(v) = front \o back
  BY DEF Key
<1>. HIDE DEF front, back
<1>10. /\ Key(v) \in Seq(Fields) /\ Len(Key(v)) = 3 + Len(back)
       /\ \A i \in 1 .. 3 : Key(v)[i] = front[i]
       /\ \A i \in 1 .. Len(back) : Key(v)[3 + i] = back[i]
  <2>1. /\ front \o back \in Seq(Fields) /\ Len(front \o back) = Len(front) + Len(back)
        /\ \A i \in 1 .. Len(front) : (front \o back)[i] = front[i]
        /\ \A i \in 1 .. Len(back) : (front \o back)[Len(front) + i] = back[i]
    <3>1. front \in Seq(Fields) /\ back \in Seq(Fields)
      BY <1>4, <1>7
    <3>. QED BY <3>1, Joined
  <2>. QED BY <1>4, <1>9, <2>1, Zenon
<1>11. Len(back) \in Nat /\ (Len(back) = 1 => 1 \in 1 .. Len(back))
  BY <1>7
<1>12. Len(back) = 1 => Key(v)[4] = back[1]
  <2>. SUFFICES ASSUME Len(back) = 1 PROVE Key(v)[4] = back[1]
    OBVIOUS
  <2>1. Key(v)[3 + 1] = back[1]
    BY <1>10, <1>11
  <2>. QED BY <2>1
<1>. QED BY <1>6, <1>7, <1>8, <1>10, <1>12

(* Comparing field by field is the order of versions. *)
LEMMA PrecedesIsBelow ==
  ASSUME NEW v, NEW w, IsVersion(v), IsVersion(w)
  PROVE  Precedes(v, w) <=> Below(v, w)
<1>. DEFINE x == Key(v)
            y == Key(w)
            Less(i) == /\ \A j \in 1 .. i - 1 : j <= Len(x) /\ x[j] = y[j]
                       /\ i <= Len(x) => x[i][1] < y[i][1] \/ (x[i][1] = y[i][1] /\ x[i][2] < y[i][2])
<1>1. Precedes(v, w) <=> \E i \in 1 .. Len(y) : Less(i)
  BY DEF Precedes
<1>2. /\ v.core \in [1 .. 3 -> Nat] /\ v.pre \in Seq(Identifiers)
      /\ w.core \in [1 .. 3 -> Nat] /\ w.pre \in Seq(Identifiers)
      /\ v = [core |-> v.core, pre |-> v.pre] /\ w = [core |-> w.core, pre |-> w.pre]
  BY DEF IsVersion, Identifiers
<1>3. /\ Len(x) \in Nat /\ Len(y) \in Nat /\ Len(x) >= 4 /\ Len(y) >= 4
      /\ \A i \in 1 .. 3 : x[i] = <<0, v.core[i]>> /\ y[i] = <<0, w.core[i]>>
  BY KeyIs
<1>4. \A i \in 1 .. 3 : x[i][1] = 0 /\ y[i][1] = 0 /\ x[i][2] = v.core[i] /\ y[i][2] = w.core[i]
  BY <1>3
<1>5. \A i \in 1 .. 3 : x[i] = y[i] <=> v.core[i] = w.core[i]
  BY <1>3
<1>6. \A i \in 1 .. 3 : Less(i) <=> v.core[i] < w.core[i] /\ \A j \in 1 .. i - 1 : v.core[j] = w.core[j]
  <2>. SUFFICES ASSUME NEW i \in 1 .. 3
                PROVE  Less(i) <=> v.core[i] < w.core[i] /\ \A j \in 1 .. i - 1 : v.core[j] = w.core[j]
    OBVIOUS
  <2>1. \A j \in 1 .. i - 1 : j \in 1 .. 3 /\ j <= Len(x)
    BY <1>3
  <2>2. i <= Len(x)
    BY <1>3
  <2>. QED BY <1>4, <1>5, <2>1, <2>2
<1>7. CoreBelow(v.core, w.core) <=> \E i \in 1 .. 3 : Less(i)
  BY <1>6, Zenon DEF CoreBelow
<1>8. \A i \in 1 .. Len(y) : i \in 1 .. 3 \/ i \in 4 .. Len(y)
  BY <1>3
<1>9. \A i \in 1 .. 3 : i \in 1 .. Len(y)
  BY <1>3
<1>10. \A i \in 4 .. Len(y) : Less(i) => v.core = w.core
  <2>. SUFFICES ASSUME NEW i \in 4 .. Len(y), Less(i) PROVE v.core = w.core
    OBVIOUS
  <2>1. \A j \in 1 .. 3 : j \in 1 .. i - 1
    BY <1>3
  <2>2. \A j \in 1 .. 3 : v.core[j] = w.core[j]
    BY <1>5, <2>1
  <2>. QED BY <1>2, <2>2, SameCore
<1>. DEFINE PreBelow == v.pre # <<>> /\ (w.pre = <<>> \/ PrereleaseBelow(v.pre, w.pre))
<1>11. ASSUME v.core = w.core, NEW i \in 4 .. Len(y), Less(i) PROVE PreBelow
  <2>. HIDE DEF x, y
  <2>1. i \in Nat /\ i <= Len(y)
    BY <1>3
  <2>2. i > 4 => x[4] = y[4]
    <3>. SUFFICES ASSUME i > 4 PROVE x[4] = y[4]
      OBVIOUS
    <3>1. 4 \in 1 .. i - 1
      BY <2>1
    <3>. QED BY <1>11, <3>1
  <2>3. i = 4 => x[4][1] < y[4][1] \/ (x[4][1] = y[4][1] /\ x[4][2] < y[4][2])
    BY <1>3, <1>11
  <2>4. y[4] \in Fields
    <3>1. y \in Seq(Fields) /\ 4 \in 1 .. Len(y)
      BY <1>3, KeyIs DEF y
    <3>. QED BY <3>1
  <2>5. y[4] = <<y[4][1], y[4][2]>> /\ y[4][1] \in 0 .. 2 /\ y[4][2] \in Nat
    BY <2>4 DEF Fields
  <2>6. w.pre # <<>> => /\ Len(y) = Len(w.pre) + 3 /\ Len(w.pre) \in Nat \ {0}
                        /\ \A k \in 1 .. Len(w.pre) : y[k + 3] = w.pre[k]
    BY KeyIs DEF y
  <2>7. w.pre # <<>> => y[4][1] \in {0, 1}
    <3>. SUFFICES ASSUME w.pre # <<>> PROVE y[4][1] \in {0, 1}
      OBVIOUS
    <3>1. 1 \in 1 .. Len(w.pre)
      BY <2>6
    <3>2. y[1 + 3] = w.pre[1]
      BY <2>6, <3>1
    <3>3. w.pre[1] \in Identifiers
      BY <1>2, <3>1
    <3>. QED BY <3>2, <3>3 DEF Identifiers
  <2>8. w.pre = <<>> => Len(y) = 4
    BY KeyIs DEF y
  <2>9. v.pre # <<>>
    <3>. SUFFICES ASSUME v.pre = <<>> PROVE FALSE
      OBVIOUS
    <3>1. x[4] = <<2, 0>> /\ x[4][1] = 2 /\ x[4][2] = 0
      BY KeyIs DEF x
    <3>2. CASE i = 4
      <4>1. y[4][1] = 2 /\ 0 < y[4][2]
        BY <2>3, <2>5, <3>1, <3>2
      <4>2. w.pre = <<>>
        BY <2>7, <4>1
      <4>3. y[4] = <<2, 0>>
        BY <4>2, KeyIs DEF y
      <4>. QED BY <4>1, <4>3
    <3>3. CASE i > 4
      <4>1. y[4][1] = 2
        BY <2>2, <3>1, <3>3
      <4>2. w.pre = <<>>
        BY <2>7, <4>1
      <4>3. i <= 4
        BY <2>1, <2>8, <4>2
      <4>. QED BY <2>1, <3>3, <4>3
    <3>. QED BY <2>1, <3>2, <3>3
  <2>10. ASSUME w.pre # <<>> PROVE PrereleaseBelow(v.pre, w.pre)
    <3>1. /\ Len(x) = Len(v.pre) + 3 /\ Len(v.pre) \in Nat \ {0}
          /\ \A k \in 1 .. Len(v.pre) : x[k + 3] = v.pre[k]
      BY <2>9, KeyIs DEF x
    <3>. DEFINE n == i - 3
    <3>2. n \in 1 .. Len(w.pre) /\ i = n + 3
      BY <2>1, <2>6, <2>10
    <3>. HIDE DEF n
    <3>3. ASSUME NEW j \in 1 .. n - 1 PROVE j <= Len(v.pre) /\ v.pre[j] = w.pre[j]
      <4>1. j + 3 \in 1 .. i - 1
        BY <3>2
      <4>2. j + 3 <= Len(x) /\ x[j + 3] = y[j + 3]
        BY <1>11, <4>1
      <4>3. j \in 1 .. Len(v.pre) /\ j \in 1 .. Len(w.pre)
        BY <3>1, <3>2, <4>2
      <4>. QED BY <2>6, <2>10, <3>1, <4>2, <4>3
    <3>4. ASSUME ~(n > Len(v.pre)) PROVE IdentifierBelow(v.pre[n], w.pre[n])
      <4>1. n \in 1 .. Len(v.pre) /\ i <= Len(x)
        BY <3>1, <3>2, <3>4
      <4>2. x[i] = v.pre[n] /\ y[i] = w.pre[n]
        BY <2>6, <2>10, <3>1, <3>2, <4>1
      <4>3. x[i][1] < y[i][1] \/ (x[i][1] = y[i][1] /\ x[i][2] < y[i][2])
        BY <1>11, <4>1
      <4>. QED BY <4>2, <4>3 DEF IdentifierBelow
    <3>. QED BY <3>2, <3>3, <3>4 DEF PrereleaseBelow
  <2>. QED BY <2>9, <2>10
<1>12. ASSUME v.core = w.core, PreBelow PROVE \E i \in 4 .. Len(y) : Less(i)
  <2>. HIDE DEF x, y
  <2>1. /\ Len(x) = Len(v.pre) + 3 /\ Len(v.pre) \in Nat \ {0}
        /\ \A k \in 1 .. Len(v.pre) : x[k + 3] = v.pre[k]
    BY <1>12, KeyIs DEF x
  <2>2. \A j \in 1 .. 3 : x[j] = y[j]
    BY <1>3, <1>12
  <2>3. CASE w.pre = <<>>
    <3>1. y[4] = <<2, 0>> /\ Len(y) = 4
      BY <2>3, KeyIs DEF y
    <3>2. x[1 + 3] = v.pre[1] /\ v.pre[1] \in Identifiers
      <4>1. 1 \in 1 .. Len(v.pre)
        BY <2>1
      <4>. QED BY <1>2, <2>1, <4>1
    <3>3. x[4][1] < y[4][1]
      BY <3>1, <3>2 DEF Identifiers
    <3>4. \A j \in 1 .. 4 - 1 : j <= Len(x) /\ x[j] = y[j]
      BY <1>3, <2>2
    <3>5. Less(4) /\ 4 \in 4 .. Len(y)
      BY <3>1, <3>3, <3>4
    <3>. QED BY <3>5
  <2>4. CASE w.pre # <<>>
    <3>1. /\ Len(y) = Len(w.pre) + 3 /\ Len(w.pre) \in Nat \ {0}
          /\ \A k \in 1 .. Len(w.pre) : y[k + 3] = w.pre[k]
      BY <2>4, KeyIs DEF y
    <3>2. PICK n \in 1 .. Len(w.pre) :
            /\ \A j \in 1 .. n - 1 : j <= Len(v.pre) /\ v.pre[j] = w.pre[j]
            /\ n > Len(v.pre) \/ IdentifierBelow(v.pre[n], w.pre[n])
      BY <1>12, <2>4 DEF PrereleaseBelow
    <3>. DEFINE i == n + 3
    <3>3. i \in 4 .. Len(y)
      BY <3>1
    <3>4. ASSUME NEW j \in 1 .. i - 1 PROVE j <= Len(x) /\ x[j] = y[j]
      <4>1. CASE j \in 1 .. 3
        BY <1>3, <2>2, <4>1
      <4>2. CASE j \notin 1 .. 3
        <5>. DEFINE k == j - 3
        <5>1. k \in 1 .. n - 1 /\ j = k + 3
          BY <4>2
        <5>. HIDE DEF k
        <5>2. k <= Len(v.pre) /\ v.pre[k] = w.pre[k]
          BY <3>2, <5>1
        <5>3. k \in 1 .. Len(v.pre) /\ k \in 1 .. Len(w.pre)
          BY <2>1, <3>1, <5>1, <5>2
        <5>. QED BY <2>1, <3>1, <5>1, <5>2, <5>3
      <4>. QED BY <4>1, <4>2
    <3>5. ASSUME i <= Len(x) PROVE x[i][1] < y[i][1] \/ (x[i][1] = y[i][1] /\ x[i][2] < y[i][2])
      <4>1. n \in 1 .. Len(v.pre)
        BY <2>1, <3>5
      <4>2. x[i] = v.pre[n] /\ y[i] = w.pre[n]
        BY <2>1, <3>1, <4>1
      <4>3. IdentifierBelow(v.pre[n], w.pre[n])
        BY <2>1, <3>2, <4>1
      <4>. QED BY <4>2, <4>3 DEF IdentifierBelow
    <3>6. Less(i)
      BY <3>4, <3>5
    <3>. QED BY <3>3, <3>6
  <2>. QED BY <2>3, <2>4
<1>. HIDE DEF Less, x, y
<1>13. Below(v, w) <=> CoreBelow(v.core, w.core) \/ (v.core = w.core /\ PreBelow)
  BY DEF Below
<1>. HIDE DEF PreBelow
<1>14. 4 .. Len(y) \subseteq 1 .. Len(y)
  BY <1>3
<1>. QED BY <1>1, <1>7, <1>8, <1>9, <1>10, <1>11, <1>12, <1>13, <1>14

(* A version that comes neither before nor after another is that one. *)
LEMMA OneComesFirst ==
  ASSUME NEW v, NEW w, IsVersion(v), IsVersion(w), ~Below(v, w)
  PROVE  Precedes(w, v) \/ v = w
<1>. DEFINE x == Key(v)
            y == Key(w)
            T == {i \in Nat : /\ i \in 1 .. Len(x) \/ i \in 1 .. Len(y)
                              /\ ~(i <= Len(x) /\ i <= Len(y) /\ x[i] = y[i])}
<1>1. x \in Seq(Fields) /\ y \in Seq(Fields) /\ Len(x) \in Nat /\ Len(y) \in Nat
  BY KeyIs
<1>2. /\ v.core \in [1 .. 3 -> Nat] /\ v.pre \in Seq(Identifiers)
      /\ w.core \in [1 .. 3 -> Nat] /\ w.pre \in Seq(Identifiers)
      /\ v = [core |-> v.core, pre |-> v.pre] /\ w = [core |-> w.core, pre |-> w.pre]
  BY DEF IsVersion, Identifiers
<1>3. ~Precedes(v, w)
  BY PrecedesIsBelow
<1>4. CASE T # {}
  <2>1. PICK i \in T : \A j \in T : i <= j
    BY <1>4, Least
  <2>2. i \in Nat \ {0} /\ (i \in 1 .. Len(x) \/ i \in 1 .. Len(y))
        /\ ~(i <= Len(x) /\ i <= Len(y) /\ x[i] = y[i])
    BY <1>1
  <2>3. \A j \in 1 .. i - 1 : j <= Len(x) /\ j <= Len(y) /\ x[j] = y[j]
    <3>. SUFFICES ASSUME NEW j \in 1 .. i - 1 PROVE j <= Len(x) /\ j <= Len(y) /\ x[j] = y[j]
      OBVIOUS
    <3>1. j \notin T /\ j \in Nat /\ j < i
      BY <2>1, <2>2
    <3>2. j \in 1 .. Len(x) \/ j \in 1 .. Len(y)
      BY <1>1, <2>2, <3>1
    <3>. QED BY <3>1, <3>2
  <2>. HIDE DEF T
  <2>4. CASE i > Len(x)
    <3>1. i \in 1 .. Len(y) /\ ~(i <= Len(x))
      BY <1>1, <2>2, <2>4
    <3>2. Precedes(v, w)
      BY <2>3, <3>1 DEF Precedes
    <3>. QED BY <1>3, <3>2
  <2>5. CASE i > Len(y)
    <3>1. i \in 1 .. Len(x) /\ ~(i <= Len(y))
      BY <1>1, <2>2, <2>5
    <3>2. Precedes(w, v)
      BY <2>3, <3>1 DEF Precedes
    <3>. QED BY <3>2
  <2>6. CASE i <= Len(x) /\ i <= Len(y)
    <3>1. x[i] \in Fields /\ y[i] \in Fields /\ x[i] # y[i] /\ i \in 1 .. Len(x) /\ i \in 1 .. Len(y)
      BY <1>1, <2>2, <2>6
    <3>2. /\ x[i] = <<x[i][1], x[i][2]>> /\ x[i][1] \in Nat /\ x[i][2] \in Nat
          /\ y[i] = <<y[i][1], y[i][2]>> /\ y[i][1] \in Nat /\ y[i][2] \in Nat
      BY <3>1 DEF Fields
    <3>. HIDE DEF x, y
    <3>3. \/ x[i][1] < y[i][1] \/ (x[i][1] = y[i][1] /\ x[i][2] < y[i][2])
          \/ y[i][1] < x[i][1] \/ (y[i][1] = x[i][1] /\ y[i][2] < x[i][2])
      BY <3>1, <3>2
    <3>. USE DEF x, y
    <3>4. Precedes(v, w) \/ Precedes(w, v)
      BY <2>3, <3>1, <3>3 DEF Precedes
    <3>. QED BY <1>3, <3>4
  <2>. QED BY <1>1, <2>2, <2>4, <2>5, <2>6
<1>5. CASE T = {}
  <2>1. \A i \in Nat : i \in 1 .. Len(x) \/ i \in 1 .. Len(y) => i <= Len(x) /\ i <= Len(y) /\ x[i] = y[i]
    BY <1>5
  <2>. HIDE DEF T
  <2>2. Len(x) = Len(y)
    <3>1. Len(x) > 0 /\ Len(y) > 0
      <4>1. /\ v.pre = <<>> => Len(x) = 4
            /\ v.pre # <<>> => Len(x) = Len(v.pre) + 3 /\ Len(v.pre) \in Nat
            /\ w.pre = <<>> => Len(y) = 4
            /\ w.pre # <<>> => Len(y) = Len(w.pre) + 3 /\ Len(w.pre) \in Nat
        BY KeyIs
      <4>. QED BY <4>1
    <3>2. Len(x) \in 1 .. Len(x) /\ Len(y) \in 1 .. Len(y)
      BY <1>1, <3>1
    <3>3. Len(x) <= Len(y) /\ Len(y) <= Len(x)
      BY <1>1, <2>1, <3>2
    <3>. QED BY <1>1, <3>3
  <2>3. \A i \in 1 .. Len(x) : x[i] = y[i]
    BY <1>1, <2>1
  <2>4. v.core = w.core
    <3>1. \A i \in 1 .. 3 : i \in 1 .. Len(x) /\ x[i] = <<0, v.core[i]>> /\ y[i] = <<0, w.core[i]>>
      <4>1. /\ v.pre = <<>> => Len(x) = 4
            /\ v.pre # <<>> => Len(x) = Len(v.pre) + 3 /\ Len(v.pre) \in Nat
        BY KeyIs
      <4>2. \A i \in 1 .. 3 : i \in 1 .. Len(x)
        <5>. HIDE DEF x
        <5>1. Len(x) = 4 \/ \E n \in Nat : Len(x) = n + 3
          BY <4>1
        <5>. QED BY <5>1
      <4>. QED BY <4>2, KeyIs
    <3>2. \A i \in 1 .. 3 : v.core[i] = w.core[i]
      BY <2>3, <3>1
    <3>. QED BY <1>2, <3>2, SameCore
  <2>5. v.pre = w.pre
    <3>1. /\ v.pre = <<>> => x[4] = <<2, 0>> /\ Len(x) = 4
          /\ w.pre = <<>> => y[4] = <<2, 0>> /\ Len(y) = 4
          /\ v.pre # <<>> => /\ Len(x) = Len(v.pre) + 3 /\ Len(v.pre) \in Nat \ {0}
                             /\ \A i \in 1 .. Len(v.pre) : x[i + 3] = v.pre[i]
          /\ w.pre # <<>> => /\ Len(y) = Len(w.pre) + 3 /\ Len(w.pre) \in Nat \ {0}
                             /\ \A i \in 1 .. Len(w.pre) : y[i + 3] = w.pre[i]
      BY KeyIs
    <3>. HIDE DEF x, y
    <3>2. 4 \in 1 .. Len(x) /\ x[4] = y[4]
      <4>1. 4 \in 1 .. Len(x)
        BY <1>1, <3>1
      <4>. QED BY <2>3, <4>1
    <3>3. v.pre # <<>> => x[4] # <<2, 0>>
      <4>. SUFFICES ASSUME v.pre # <<>> PROVE x[4] # <<2, 0>>
        OBVIOUS
      <4>1. 1 \in 1 .. Len(v.pre)
        BY <3>1
      <4>2. x[1 + 3] = v.pre[1]
        BY <3>1, <4>1
      <4>3. v.pre[1] \in Identifiers
        <5>1. v.pre \in Seq(Identifiers)
          BY <1>2
        <5>. QED BY <4>1, <5>1
      <4>4. x[4] \in Identifiers
        BY <4>2, <4>3
      <4>. QED BY <4>4 DEF Identifiers
    <3>4. w.pre # <<>> => y[4] # <<2, 0>>
      <4>. SUFFICES ASSUME w.pre # <<>> PROVE y[4] # <<2, 0>>
        OBVIOUS
      <4>1. 1 \in 1 .. Len(w.pre)
        BY <3>1
      <4>2. y[1 + 3] = w.pre[1]
        BY <3>1, <4>1
      <4>3. w.pre[1] \in Identifiers
        <5>1. w.pre \in Seq(Identifiers)
          BY <1>2
        <5>. QED BY <4>1, <5>1
      <4>4. y[4] \in Identifiers
        BY <4>2, <4>3
      <4>. QED BY <4>4 DEF Identifiers
    <3>5. CASE v.pre = <<>> \/ w.pre = <<>>
      BY <3>1, <3>2, <3>3, <3>4, <3>5
    <3>6. CASE v.pre # <<>> /\ w.pre # <<>>
      <4>1. Len(v.pre) = Len(w.pre) /\ Len(v.pre) \in Nat
        BY <2>2, <3>1, <3>6
      <4>2. ASSUME NEW i \in 1 .. Len(v.pre) PROVE v.pre[i] = w.pre[i]
        <5>1. i + 3 \in 1 .. Len(x)
          BY <3>1, <3>6, <4>1
        <5>. QED BY <2>3, <3>1, <3>6, <4>1, <5>1
      <4>. QED BY <1>2, <4>1, <4>2
    <3>. QED BY <3>5, <3>6
  <2>. QED BY <1>2, <2>4, <2>5
<1>. QED BY <1>4, <1>5

(* What agrees on the fields that are held is below the next that does not. *)
LEMMA HeldIsBelow ==
  ASSUME NEW x \in [1 .. 3 -> Nat], NEW y \in [1 .. 3 -> Nat], NEW n \in 1 .. 3,
         \A i \in 1 .. n : x[i] = y[i]
  PROVE  CoreBelow(x, Bump(y, n))
<1>1. n \in 1 .. 3 /\ n \in 1 .. n /\ \A j \in 1 .. n - 1 : j \in 1 .. 3 /\ j \in 1 .. n /\ j < n
  OBVIOUS
<1>2. Bump(y, n)[n] = y[n] + 1 /\ \A j \in 1 .. n - 1 : Bump(y, n)[j] = y[j]
  BY <1>1 DEF Bump
<1>3. x[n] < Bump(y, n)[n]
  BY <1>1, <1>2
<1>4. \A j \in 1 .. n - 1 : x[j] = Bump(y, n)[j]
  BY <1>1, <1>2
<1>. QED BY <1>1, <1>3, <1>4 DEF CoreBelow

(* The leftmost field that is not zero, or else the last that is written, is the last
   that a caret holds. *)
LEMMA LeadingIsHeld ==
  ASSUME NEW c, IsComparator(c)
  PROVE  HeldByCaret(c) \in 1 .. 3 /\ Leading(c) = HeldByCaret(c)
<1>. DEFINE core == c.version.core
            written == {i \in 1 .. c.fields : core[i] # 0}
<1>1. core[1] \in Nat /\ core[2] \in Nat /\ core[3] \in Nat
  BY DEF IsComparator, IsVersion
<1>3. c.fields = 1 \/ c.fields = 2 \/ c.fields = 3
  <2>1. \A i \in 1 .. 3 : i = 1 \/ i = 2 \/ i = 3
    OBVIOUS
  <2>. QED BY <2>1 DEF IsComparator
<1>4. Leading(c) = IF written = {} THEN c.fields
                   ELSE CHOOSE i \in written : \A j \in written : i <= j
  BY DEF Leading
<1>5. \A i : i \in written <=> /\ i = 1 \/ (i = 2 /\ c.fields # 1) \/ (i = 3 /\ c.fields = 3)
                               /\ core[i] # 0
  BY <1>3
<1>. HIDE DEF written, core
<1>6. ASSUME NEW k \in 1 .. 3, k \in written, \A j \in written : k <= j
      PROVE  Leading(c) = k
  <2>1. \A i \in written : i \in 1 .. 3
    BY <1>5
  <2>2. \A i \in written : (\A j \in written : i <= j) => i = k
    BY <1>6, <2>1
  <2>. QED BY <1>4, <1>6, <2>2
<1>7. CASE core[1] > 0
  <2>1. HeldByCaret(c) = 1
    BY <1>7 DEF HeldByCaret, core
  <2>2. 1 \in written /\ \A j \in written : 1 <= j
    BY <1>5, <1>7
  <2>3. Leading(c) = 1
    BY <1>6, <2>2
  <2>. QED BY <2>1, <2>3
<1>8. CASE core[1] = 0 /\ c.fields = 1
  <2>1. HeldByCaret(c) = 1
    BY <1>8 DEF HeldByCaret, core
  <2>2. written = {}
    BY <1>5, <1>8
  <2>. QED BY <1>4, <1>8, <2>1, <2>2
<1>9. CASE core[1] = 0 /\ c.fields # 1 /\ core[2] > 0
  <2>1. HeldByCaret(c) = 2
    BY <1>9 DEF HeldByCaret, core
  <2>2. 2 \in written /\ \A j \in written : 2 <= j
    BY <1>5, <1>9
  <2>3. Leading(c) = 2
    BY <1>6, <2>2
  <2>. QED BY <2>1, <2>3
<1>10. CASE core[1] = 0 /\ core[2] = 0 /\ c.fields = 2
  <2>1. HeldByCaret(c) = 2
    BY <1>10 DEF HeldByCaret, core
  <2>2. written = {}
    BY <1>5, <1>10
  <2>. QED BY <1>4, <1>10, <2>1, <2>2
<1>11. CASE core[1] = 0 /\ core[2] = 0 /\ c.fields = 3
  <2>1. HeldByCaret(c) = 3
    BY <1>11 DEF HeldByCaret, core
  <2>2. CASE core[3] = 0
    <3>1. written = {}
      BY <1>5, <1>11, <2>2
    <3>. QED BY <1>4, <1>11, <2>1, <3>1
  <2>3. CASE core[3] # 0
    <3>1. 3 \in written /\ \A j \in written : 3 <= j
      BY <1>5, <1>11, <2>3
    <3>2. Leading(c) = 3
      BY <1>6, <3>1
    <3>. QED BY <2>1, <3>2
  <2>. QED BY <2>2, <2>3
<1>. QED BY <1>1, <1>3, <1>7, <1>8, <1>9, <1>10, <1>11

(* A comparator matches what lies in its range. *)
LEMMA ComparatorIsInRange ==
  ASSUME NEW c, NEW v, IsComparator(c), IsVersion(v), ComparatorMatches(c, v)
  PROVE  InRange(c, v)
<1>1. /\ c.op \in {"^", "~", "=", ">", ">=", "<", "<="} /\ c.fields \in 1 .. 3
      /\ IsVersion(c.version) /\ \A i \in 1 .. 3 : i > c.fields => c.version.core[i] = 0
  BY DEF IsComparator
<1>2. v.core \in [1 .. 3 -> Nat] /\ c.version.core \in [1 .. 3 -> Nat]
  BY <1>1 DEF IsVersion
<1>. DEFINE core == c.version.core
            From(n) == ~Precedes(v, c.version) /\ CoreBelow(v.core, Bump(core, n))
<1>3. ASSUME NEW n \in 1 .. 3, ~Below(v, c.version), \A i \in 1 .. n : v.core[i] = core[i]
      PROVE  From(n)
  BY <1>1, <1>2, <1>3, PrecedesIsBelow, HeldIsBelow
<1>4. CASE c.op = "^"
  <2>1. ~Below(v, c.version) /\ \A i \in 1 .. HeldByCaret(c) : v.core[i] = core[i]
    BY <1>4 DEF ComparatorMatches
  <2>2. HeldByCaret(c) \in 1 .. 3 /\ Leading(c) = HeldByCaret(c)
    BY LeadingIsHeld
  <2>3. From(Leading(c))
    BY <1>3, <2>1, <2>2
  <2>. QED BY <1>4, <2>3 DEF InRange
<1>5. CASE c.op = "~"
  <2>. DEFINE n == IF c.fields = 1 THEN 1 ELSE 2
  <2>1. ~Below(v, c.version) /\ \A i \in 1 .. n : v.core[i] = core[i]
    BY <1>5 DEF ComparatorMatches
  <2>2. n \in 1 .. 3
    OBVIOUS
  <2>3. From(n)
    BY <1>3, <2>1, <2>2
  <2>. QED BY <1>5, <2>3 DEF InRange
<1>6. CASE c.op = "="
  <2>1. CASE c.fields = 3
    BY <1>6, <2>1 DEF ComparatorMatches, InRange
  <2>2. CASE c.fields # 3
    <3>1. c.fields \in 1 .. 3 /\ c.fields < 3
      BY <1>1, <2>2
    <3>2. \A i \in 1 .. c.fields : v.core[i] = core[i]
      BY <1>6, <3>1 DEF ComparatorMatches
    <3>3. CoreBelow(v.core, Bump(core, c.fields))
      BY <1>2, <3>1, <3>2, HeldIsBelow
    <3>4. ~CoreBelow(v.core, core)
      <4>. SUFFICES ASSUME NEW i \in 1 .. 3, v.core[i] < core[i] PROVE FALSE
        BY DEF CoreBelow
      <4>1. v.core[i] \in Nat /\ core[i] \in Nat
        BY <1>2
      <4>2. CASE i > c.fields
        BY <1>1, <4>1, <4>2
      <4>3. CASE ~(i > c.fields)
        <5>1. i \in 1 .. c.fields
          BY <3>1, <4>3
        <5>. QED BY <3>2, <4>1, <5>1
      <4>. QED BY <4>2, <4>3
    <3>. QED BY <1>6, <2>2, <3>3, <3>4 DEF InRange
  <2>. QED BY <2>1, <2>2
<1>7. CASE c.op = ">" \/ c.op = "<"
  BY <1>1, <1>7, PrecedesIsBelow DEF ComparatorMatches, InRange
<1>8. CASE c.op = ">="
  <2>1. ~Below(v, c.version)
    BY <1>8 DEF ComparatorMatches
  <2>2. Precedes(c.version, v) \/ v = c.version
    BY <1>1, <2>1, OneComesFirst
  <2>. QED BY <1>8, <2>2 DEF InRange
<1>9. CASE c.op = "<="
  <2>1. ~Below(c.version, v)
    BY <1>9 DEF ComparatorMatches
  <2>2. Precedes(v, c.version) \/ v = c.version
    BY <1>1, <2>1, OneComesFirst
  <2>. QED BY <1>9, <2>2 DEF InRange
<1>. QED BY <1>1, <1>4, <1>5, <1>6, <1>7, <1>8, <1>9

(* What the search takes for a match is one by the ranges that are meant. *)
LEMMA MatchesAreAccepted ==
  ASSUME NEW r, NEW v, IsVersion(v), \A i \in DOMAIN r : IsComparator(r[i]), Matches(r, v)
  PROVE  Accepts(r, v)
<1>1. \A i \in DOMAIN r : InRange(r[i], v)
  BY ComparatorIsInRange DEF Matches
<1>. QED BY <1>1 DEF Matches, Accepts

(* Of two versions only one comes before the other. *)
LEMMA NotBothFirst ==
  ASSUME NEW v, NEW w, IsVersion(v), IsVersion(w), Precedes(v, w)
  PROVE  ~Precedes(w, v)
<1>. DEFINE x == Key(v)
            y == Key(w)
            Less(s, t, i) == s[i][1] < t[i][1] \/ (s[i][1] = t[i][1] /\ s[i][2] < t[i][2])
<1>1. x \in Seq(Fields) /\ y \in Seq(Fields) /\ Len(x) \in Nat /\ Len(y) \in Nat
  BY KeyIs
<1>2. PICK i \in 1 .. Len(y) : /\ \A j \in 1 .. i - 1 : j <= Len(x) /\ x[j] = y[j]
                               /\ i <= Len(x) => Less(x, y, i)
  BY DEF Precedes
<1>. SUFFICES ASSUME Precedes(w, v) PROVE FALSE
  OBVIOUS
<1>3. PICK k \in 1 .. Len(x) : /\ \A j \in 1 .. k - 1 : j <= Len(y) /\ y[j] = x[j]
                               /\ k <= Len(y) => Less(y, x, k)
  BY DEF Precedes
<1>4. \A j \in 1 .. Len(x) : x[j] \in Fields
  BY <1>1
<1>5. \A j \in 1 .. Len(x) : x[j][1] \in Nat /\ x[j][2] \in Nat
  BY <1>4 DEF Fields
<1>6. \A j \in 1 .. Len(y) : y[j] \in Fields
  BY <1>1
<1>7. \A j \in 1 .. Len(y) : y[j][1] \in Nat /\ y[j][2] \in Nat
  BY <1>6 DEF Fields
<1>. HIDE DEF x, y
<1>8. CASE i < k
  <2>1. i \in 1 .. k - 1 /\ i \in 1 .. Len(x)
    BY <1>1, <1>8
  <2>2. x[i] = y[i] /\ i <= Len(x)
    BY <1>1, <1>3, <2>1
  <2>. QED BY <1>2, <1>5, <2>1, <2>2
<1>9. CASE k < i
  <2>1. k \in 1 .. i - 1 /\ k \in 1 .. Len(y)
    BY <1>1, <1>9
  <2>2. y[k] = x[k] /\ k <= Len(y)
    BY <1>1, <1>2, <2>1
  <2>. QED BY <1>3, <1>7, <2>1, <2>2
<1>10. CASE i = k
  <2>1. i \in 1 .. Len(x) /\ i \in 1 .. Len(y) /\ Less(x, y, i) /\ Less(y, x, i)
    BY <1>1, <1>2, <1>3, <1>10
  <2>. QED BY <1>5, <1>7, <2>1
<1>. QED BY <1>1, <1>8, <1>9, <1>10

(* What is not below a bound, and below the next that changes a field, holds that
   field and those before it. *)
LEMMA BelowIsHeld ==
  ASSUME NEW x \in [1 .. 3 -> Nat], NEW y \in [1 .. 3 -> Nat], NEW n \in 1 .. 3,
         ~CoreBelow(x, y), CoreBelow(x, Bump(y, n))
  PROVE  \A i \in 1 .. n : x[i] = y[i]
<1>1. PICK i \in 1 .. 3 : x[i] < Bump(y, n)[i] /\ \A j \in 1 .. i - 1 : x[j] = Bump(y, n)[j]
  BY DEF CoreBelow
<1>2. \A j \in 1 .. 3 : Bump(y, n)[j] = IF j < n THEN y[j] ELSE IF j = n THEN y[n] + 1 ELSE 0
  <2>. SUFFICES ASSUME NEW j \in 1 .. 3
                PROVE  Bump(y, n)[j] = IF j < n THEN y[j] ELSE IF j = n THEN y[n] + 1 ELSE 0
    OBVIOUS
  <2>1. Bump(y, n)[j] = CASE j < n -> y[j] [] j = n -> y[j] + 1 [] j > n -> 0
    BY Zenon DEF Bump
  <2>2. j < n \/ j = n \/ j > n
    OBVIOUS
  <2>. QED BY <2>1, <2>2
<1>3. \A j \in 1 .. 3 : x[j] \in Nat /\ y[j] \in Nat
  OBVIOUS
<1>4. \A j \in 1 .. i - 1 : j \in 1 .. 3 /\ j < i
  OBVIOUS
<1>5. i <= n
  BY <1>1, <1>2, <1>3
<1>6. \A j \in 1 .. i - 1 : x[j] = y[j]
  BY <1>1, <1>2, <1>4, <1>5
<1>7. ~(x[i] < y[i])
  BY <1>6 DEF CoreBelow
<1>8. i = n
  BY <1>1, <1>2, <1>3, <1>5, <1>7
<1>9. x[n] = y[n]
  BY <1>1, <1>2, <1>3, <1>7, <1>8
<1>10. \A j \in 1 .. n : j = n \/ j \in 1 .. n - 1
  OBVIOUS
<1>. QED BY <1>6, <1>8, <1>9, <1>10

(* A comparator matches all that lies in its range. *)
LEMMA InRangeIsMatched ==
  ASSUME NEW c, NEW v, IsComparator(c), IsVersion(v), InRange(c, v)
  PROVE  ComparatorMatches(c, v)
<1>1. /\ c.op \in {"^", "~", "=", ">", ">=", "<", "<="} /\ c.fields \in 1 .. 3 /\ IsVersion(c.version)
  BY DEF IsComparator
<1>2. v.core \in [1 .. 3 -> Nat] /\ c.version.core \in [1 .. 3 -> Nat]
  BY <1>1 DEF IsVersion
<1>. DEFINE core == c.version.core
            From(n) == ~Precedes(v, c.version) /\ CoreBelow(v.core, Bump(core, n))
<1>3. ASSUME NEW n \in 1 .. 3, From(n)
      PROVE  ~Below(v, c.version) /\ \A i \in 1 .. n : v.core[i] = core[i]
  <2>1. ~Below(v, c.version)
    BY <1>1, <1>3, PrecedesIsBelow
  <2>2. ~CoreBelow(v.core, core)
    BY <2>1 DEF Below
  <2>. QED BY <1>2, <1>3, <2>1, <2>2, BelowIsHeld
<1>4. CASE c.op = "^"
  <2>1. HeldByCaret(c) \in 1 .. 3 /\ Leading(c) = HeldByCaret(c)
    BY LeadingIsHeld
  <2>2. From(HeldByCaret(c))
    BY <1>4, <2>1 DEF InRange
  <2>. HIDE DEF From
  <2>3. ~Below(v, c.version) /\ \A i \in 1 .. HeldByCaret(c) : v.core[i] = core[i]
    BY <1>3, <2>1, <2>2
  <2>. QED BY <1>4, <2>3 DEF ComparatorMatches
<1>5. CASE c.op = "~"
  <2>. DEFINE n == IF c.fields = 1 THEN 1 ELSE 2
  <2>1. n \in 1 .. 3 /\ From(n)
    BY <1>5 DEF InRange
  <2>. HIDE DEF From, n
  <2>2. ~Below(v, c.version) /\ \A i \in 1 .. n : v.core[i] = core[i]
    BY <1>3, <2>1
  <2>. QED BY <1>5, <2>2 DEF ComparatorMatches, n
<1>6. CASE c.op = "="
  <2>1. CASE c.fields = 3
    BY <1>6, <2>1 DEF ComparatorMatches, InRange
  <2>2. CASE c.fields # 3
    <3>1. ~CoreBelow(v.core, core) /\ CoreBelow(v.core, Bump(core, c.fields))
      BY <1>6, <2>2 DEF InRange
    <3>2. \A i \in 1 .. c.fields : v.core[i] = core[i]
      BY <1>1, <1>2, <3>1, BelowIsHeld
    <3>3. c.fields < 3
      BY <1>1, <2>2
    <3>. QED BY <1>6, <3>2, <3>3 DEF ComparatorMatches
  <2>. QED BY <2>1, <2>2
<1>7. CASE c.op = ">" \/ c.op = "<"
  BY <1>1, <1>7, PrecedesIsBelow DEF ComparatorMatches, InRange
<1>8. CASE c.op = ">="
  <2>1. Precedes(c.version, v) \/ v = c.version
    BY <1>8 DEF InRange
  <2>2. ~Precedes(v, c.version)
    BY <1>1, <2>1, NotBothFirst
  <2>3. ~Below(v, c.version)
    BY <1>1, <2>2, PrecedesIsBelow
  <2>. QED BY <1>8, <2>3 DEF ComparatorMatches
<1>9. CASE c.op = "<="
  <2>1. Precedes(v, c.version) \/ v = c.version
    BY <1>9 DEF InRange
  <2>2. ~Precedes(c.version, v)
    BY <1>1, <2>1, NotBothFirst
  <2>3. ~Below(c.version, v)
    BY <1>1, <2>2, PrecedesIsBelow
  <2>. QED BY <1>9, <2>3 DEF ComparatorMatches
<1>. QED BY <1>1, <1>4, <1>5, <1>6, <1>7, <1>8, <1>9

(* What is accepted by the ranges that are meant, the search takes for a match. *)
LEMMA AcceptedAreMatched ==
  ASSUME NEW r, NEW v, IsVersion(v), \A i \in DOMAIN r : IsComparator(r[i]), Accepts(r, v)
  PROVE  Matches(r, v)
<1>1. \A i \in DOMAIN r : ComparatorMatches(r[i], v)
  BY InRangeIsMatched DEF Accepts
<1>. QED BY <1>1 DEF Matches, Accepts

-----------------------------------------------------------------------------
(* Sequences and what is in them *)

(* Nothing is in none. *)
LEMMA RangeOfNone == Range(<<>>) = {} /\ <<>> \in Seq(Range(<<>>))
BY DEF Range

(* A sequence is one of what is in it. *)
LEMMA OwnRange ==
  ASSUME NEW S, NEW s \in Seq(S)
  PROVE  s \in Seq(Range(s))
<1>1. DOMAIN s = 1 .. Len(s) /\ Len(s) \in Nat
  OBVIOUS
<1>2. \A i \in 1 .. Len(s) : s[i] \in Range(s)
  BY <1>1 DEF Range
<1>3. s \in [1 .. Len(s) -> Range(s)]
  BY <1>1, <1>2
<1>. QED BY <1>1, <1>3

(* What is not the head of a sequence is in its tail. *)
LEMMA RangeOfTail ==
  ASSUME NEW s, s \in Seq(Range(s)), s # <<>>
  PROVE  /\ Tail(s) \in Seq(Range(Tail(s))) /\ Range(s) = {Head(s)} \cup Range(Tail(s))
<1>1. Len(s) \in Nat \ {0}
  OBVIOUS
<1>2. /\ Tail(s) \in Seq(Range(s)) /\ Len(Tail(s)) = Len(s) - 1 /\ Head(s) = s[1]
      /\ \A i \in 1 .. Len(s) - 1 : Tail(s)[i] = s[i + 1]
  BY <1>1
<1>3. DOMAIN Tail(s) = 1 .. Len(s) - 1 /\ DOMAIN s = 1 .. Len(s)
  BY <1>2
<1>. DEFINE t == Tail(s)
<1>. HIDE DEF t
<1>4. \A i \in 1 .. Len(s) - 1 : t[i] \in Range(t)
  BY <1>3 DEF Range, t
<1>5. \A i \in 1 .. Len(s) : i = 1 \/ i - 1 \in 1 .. Len(s) - 1
  BY <1>1
<1>6. ASSUME NEW i \in 1 .. Len(s), i # 1 PROVE s[i] \in Range(t)
  <2>1. i - 1 \in 1 .. Len(s) - 1 /\ i - 1 + 1 = i
    BY <1>5, <1>6
  <2>2. t[i - 1] = s[i]
    BY <1>2, <2>1 DEF t
  <2>. QED BY <1>4, <2>1, <2>2
<1>7. Range(s) \subseteq {Head(s)} \cup Range(t)
  BY <1>2, <1>3, <1>6 DEF Range
<1>8. Range(t) \subseteq Range(s)
  <2>1. \A i \in 1 .. Len(s) - 1 : i + 1 \in 1 .. Len(s)
    BY <1>1
  <2>. QED BY <1>2, <1>3, <2>1 DEF Range, t
<1>9. Head(s) \in Range(s)
  BY <1>1, <1>2, <1>3 DEF Range
<1>10. t \in Seq(Range(t))
  BY <1>2, OwnRange DEF t
<1>. QED BY <1>7, <1>8, <1>9, <1>10 DEF t

(* A sequence has what its front has, and its last. *)
LEMMA RangeOfFront ==
  ASSUME NEW s, s \in Seq(Range(s)), s # <<>>
  PROVE  /\ Front(s) \in Seq(Range(Front(s))) /\ Range(s) = Range(Front(s)) \cup {Last(s)}
<1>1. PICK n \in Nat : Len(s) = n + 1
  <2>1. Len(s) - 1 \in Nat /\ Len(s) = Len(s) - 1 + 1
    OBVIOUS
  <2>. QED BY <2>1
<1>. DEFINE t == SubSeq(s, 1, n)
<1>2. Front(s) = t
  BY <1>1 DEF Front
<1>3. t \in Seq(Range(s)) /\ Len(t) = n /\ \A i \in 1 .. n : t[i] = s[i]
  BY <1>1
<1>4. DOMAIN t = 1 .. n /\ DOMAIN s = 1 .. n + 1 /\ 1 .. n + 1 = (1 .. n) \cup {n + 1}
  BY <1>1, <1>3
<1>. HIDE DEF t
<1>5. Range(t) = {s[i] : i \in 1 .. n}
  <2>1. Range(t) = {t[i] : i \in 1 .. n}
    BY <1>4 DEF Range
  <2>2. {t[i] : i \in 1 .. n} = {s[i] : i \in 1 .. n}
    BY <1>3, Zenon
  <2>. QED BY <2>1, <2>2
<1>6. Range(s) = {s[i] : i \in 1 .. n} \cup {s[n + 1]}
  BY <1>4 DEF Range
<1>7. t \in Seq(Range(t))
  BY <1>3, OwnRange
<1>8. Last(s) = s[n + 1]
  BY <1>1 DEF Last
<1>. QED BY <1>2, <1>5, <1>6, <1>7, <1>8

(* Two sequences have between them what they have one behind the other. *)
LEMMA RangeOfJoined ==
  ASSUME NEW s, NEW t, s \in Seq(Range(s)), t \in Seq(Range(t))
  PROVE  s \o t \in Seq(Range(s \o t)) /\ Range(s \o t) = Range(s) \cup Range(t)
<1>. DEFINE S == Range(s) \cup Range(t)
            u == s \o t
<1>1. s \in Seq(S) /\ t \in Seq(S)
  OBVIOUS
<1>2. /\ u \in Seq(S) /\ Len(u) = Len(s) + Len(t)
      /\ \A i \in 1 .. Len(s) : u[i] = s[i]
      /\ \A i \in 1 .. Len(t) : u[Len(s) + i] = t[i]
  BY <1>1, Joined
<1>3. Len(s) \in Nat /\ Len(t) \in Nat /\ DOMAIN s = 1 .. Len(s) /\ DOMAIN t = 1 .. Len(t)
  OBVIOUS
<1>. HIDE DEF u, S
<1>4. DOMAIN u = 1 .. Len(s) + Len(t)
  BY <1>2
<1>5. Range(u) \subseteq S
  BY <1>2, <1>4 DEF Range
<1>6. Range(s) \subseteq Range(u)
  <2>1. \A i \in 1 .. Len(s) : i \in DOMAIN u
    BY <1>3, <1>4
  <2>. QED BY <1>2, <1>3, <2>1 DEF Range
<1>7. Range(t) \subseteq Range(u)
  <2>1. \A i \in 1 .. Len(t) : Len(s) + i \in DOMAIN u
    BY <1>3, <1>4
  <2>. QED BY <1>2, <1>3, <2>1 DEF Range
<1>8. Range(u) = S
  BY <1>5, <1>6, <1>7 DEF S
<1>. QED BY <1>2, <1>8 DEF u, S

(* Appending adds one. *)
LEMMA RangeOfAppend ==
  ASSUME NEW s, NEW x, s \in Seq(Range(s))
  PROVE  Append(s, x) \in Seq(Range(Append(s, x))) /\ Range(Append(s, x)) = Range(s) \cup {x}
<1>. DEFINE S == Range(s) \cup {x}
            t == Append(s, x)
<1>1. s \in Seq(S) /\ x \in S
  OBVIOUS
<1>2. /\ t \in Seq(S) /\ Len(t) = Len(s) + 1 /\ t[Len(s) + 1] = x
      /\ \A i \in 1 .. Len(s) : t[i] = s[i]
  BY <1>1
<1>3. \A i \in 1 .. Len(s) + 1 : i \in 1 .. Len(s) \/ i = Len(s) + 1
  OBVIOUS
<1>4. DOMAIN t = 1 .. Len(s) + 1 /\ DOMAIN s = 1 .. Len(s) /\ Len(s) \in Nat
  BY <1>2
<1>. HIDE DEF t, S
<1>5. Range(t) \subseteq Range(s) \cup {x}
  BY <1>2, <1>3, <1>4 DEF Range
<1>6. \A i \in 1 .. Len(s) : i \in DOMAIN t
  BY <1>4
<1>7. Len(s) + 1 \in DOMAIN t
  BY <1>4
<1>8. Range(s) \cup {x} \subseteq Range(t)
  BY <1>2, <1>4, <1>6, <1>7 DEF Range
<1>. QED BY <1>2, <1>5, <1>8 DEF t, S

-----------------------------------------------------------------------------
(* What a source offers *)

(* What is needed of a source that is looked for with no commit: the source
   itself, less its commit. *)
LEMMA Without ==
  ASSUME NEW s, IsSource(s)
  PROVE  /\ \A r : [s EXCEPT !.rev = r] = Source(s.kind, s.place, s.reference, r)
         /\ \A r : IsSource([s EXCEPT !.rev = r]) /\ [s EXCEPT !.rev = r].kind = s.kind
         /\ [s EXCEPT !.rev = None].place = s.place
BY DEF IsSource, Source

(* What a lawful manifest declares are needs. *)
LEMMA DeclaredAreNeeds ==
  ASSUME NEW P, NEW c, NEW from, IsContent(c, URLs(P)), Lawful(P, c, from)
  PROVE  /\ AreNeeds(NeedsOf(P, c, from), URLs(P))
         /\ \A need \in Range(NeedsOf(P, c, from)) :
              \E d \in Range(c.dependencies) :
                MayWant(P, d, from) /\ need = Need(d.name, d.requirement, Want(P, d, from))
<1>. DEFINE deps == c.dependencies
            needs == NeedsOf(P, c, from)
<1>1. deps \in Seq(Range(deps)) /\ \A d \in Range(deps) : IsDependency(d, URLs(P))
  BY DEF IsContent, AreDependencies
<1>2. DOMAIN deps = 1 .. Len(deps) /\ Len(deps) \in Nat
  BY <1>1
<1>3. needs = [i \in 1 .. Len(deps) |-> Need(deps[i].name, deps[i].requirement, Want(P, deps[i], from))]
  BY <1>2 DEF NeedsOf
<1>4. \A i \in 1 .. Len(deps) : deps[i] \in Range(deps) /\ MayWant(P, deps[i], from)
  BY <1>2 DEF Range, Lawful
<1>. HIDE DEF deps, needs
<1>5. ASSUME NEW need \in Range(needs)
      PROVE  \E d \in Range(deps) :
               MayWant(P, d, from) /\ need = Need(d.name, d.requirement, Want(P, d, from))
  <2>1. PICK i \in 1 .. Len(deps) : need = needs[i]
    BY <1>3 DEF Range
  <2>2. need = Need(deps[i].name, deps[i].requirement, Want(P, deps[i], from))
    BY <1>3, <2>1
  <2>. QED BY <1>4, <2>2
<1>6. ASSUME NEW need \in Range(needs) PROVE IsNeed(need, URLs(P))
  <2>1. PICK d \in Range(deps) :
          MayWant(P, d, from) /\ need = Need(d.name, d.requirement, Want(P, d, from))
    BY <1>5
  <2>2. IsDependency(d, URLs(P))
    BY <1>1
  <2>3. need = Need(need.name, need.requirement, need.want) /\ need.requirement = d.requirement
        /\ need.want = Want(P, d, from)
    BY <2>1 DEF Need
  <2>4. CASE d.source.kind # "registry"
    <3>1. need.want = d.source
      BY <2>3, <2>4 DEF Want
    <3>. QED BY <2>2, <2>3, <2>4, <3>1 DEF IsNeed, IsDependency
  <2>5. CASE d.source.kind = "registry"
    <3>1. PICK place : need.want = Source("registry", place, None, None)
      BY <2>3, <2>5 DEF Want
    <3>2. need.want.kind = "registry" /\ need.want.place = place /\ need.want.rev = None
          /\ IsSource(need.want)
      BY <3>1 DEF Source, IsSource
    <3>. QED BY <2>2, <2>3, <3>1, <3>2 DEF IsNeed, IsDependency
  <2>. QED BY <2>4, <2>5
<1>7. needs \in Seq({needs[i] : i \in 1 .. Len(deps)})
  BY <1>2, <1>3
<1>8. needs \in Seq(Range(needs))
  BY <1>7, OwnRange
<1>. QED BY <1>5, <1>6, <1>8 DEF AreNeeds, needs, deps

(* An offer of one package is a package with that source. *)
LEMMA OneIsChosen ==
  ASSUME NEW P, NEW n, NEW v, NEW s, NEW c, NEW found, IsSource(s), IsContent(c, URLs(P)),
         s.kind = "registry" => IsLocked(P, n, s, v), s.kind # "git" => s.rev = None,
         NEW p \in OfferOne(P, n, v, s, c, found).all
  PROVE  IsChosen(P, n, p) /\ IsAsTold(p) /\ p.source = s
<1>1. Lawful(P, c, s) /\ c.version = v
  BY DEF OfferOne, Refused
<1>2. p = Package(n, v, s, c, NeedsOf(P, c, s), FALSE)
  BY DEF OfferOne, Refused, Offer
<1>3. /\ p.version = v /\ p.source = s /\ p.content = c /\ p.needs = NeedsOf(P, c, s)
      /\ p.indexed = FALSE /\ p.name = n
  BY <1>2 DEF Package
<1>4. AreNeeds(p.needs, URLs(P))
  BY <1>1, <1>3, DeclaredAreNeeds
<1>5. IsVersion(p.version)
  BY <1>1, <1>3 DEF IsContent
<1>6. IsAllowed(P, n, p)
  BY <1>3 DEF IsAllowed
<1>. QED BY <1>2, <1>3, <1>4, <1>5, <1>6 DEF IsChosen, IsAsTold

(* Neither offering nor refusing one package says that git found anything but
   what is said. *)
LEMMA OneFetches ==
  ASSUME NEW P, NEW n, NEW v, NEW s, NEW c, NEW found
  PROVE  OfferOne(P, n, v, s, c, found).fetches \subseteq found
BY DEF OfferOne, Offer, Refused

(* The lock's package is one, of the source that is wanted. *)
LEMMA LockedIsChosen ==
  ASSUME NEW P, IsWorld(P), NEW need, IsNeed(need, URLs(P)), NEW pinned,
         need.want.kind \in {"git", "registry"},
         need.name \in DOMAIN P.pins, WantMatches(need.want, P.pins[need.name].source)
  PROVE  /\ \A p \in FromLock(P, need, pinned).all :
              IsChosen(P, need.name, p) /\ IsAsTold(p) /\ WantMatches(need.want, p.source)
         /\ FromLock(P, need, pinned).fetches = {}
<1>. DEFINE pin == P.pins[need.name]
            one == OfferOne(P, need.name, pin.version, pin.source, pin.content, {})
<1>1. /\ IsSource(pin.source) /\ (pin.source.kind # "git" => pin.source.rev = None)
      /\ pin.source.kind \in {"git", "registry"} => IsContent(pin.content, URLs(P))
  BY DEF IsWorld, IsPin, URLs
<1>2. pin.source.kind = need.want.kind
  <2>1. need.want = [pin.source EXCEPT !.rev = None]
    BY DEF WantMatches
  <2>. HIDE DEF pin
  <2>2. [pin.source EXCEPT !.rev = None].kind = pin.source.kind
    BY <1>1, Without
  <2>. QED BY <2>1, <2>2
<1>3. IsContent(pin.content, URLs(P))
  BY <1>1, <1>2
<1>4. IsLocked(P, need.name, pin.source, pin.version)
  BY DEF IsLocked
<1>5. ASSUME NEW p \in one.all
      PROVE  IsChosen(P, need.name, p) /\ IsAsTold(p) /\ WantMatches(need.want, p.source)
  <2>. HIDE DEF pin
  <2>1. IsChosen(P, need.name, p) /\ IsAsTold(p) /\ p.source = pin.source
    BY <1>1, <1>3, <1>4, <1>5, OneIsChosen
  <2>. QED BY <2>1 DEF pin
<1>6. one.fetches = {}
  BY OneFetches
<1>7. FromLock(P, need, pinned) = [one EXCEPT !.pinned = pinned]
      \/ FromLock(P, need, pinned) = Refused({})
  BY DEF FromLock
<1>8. \/ FromLock(P, need, pinned).all = one.all /\ FromLock(P, need, pinned).fetches = one.fetches
      \/ FromLock(P, need, pinned).all = {} /\ FromLock(P, need, pinned).fetches = {}
  <2>1. [one EXCEPT !.pinned = pinned].all = one.all /\ [one EXCEPT !.pinned = pinned].fetches = one.fetches
    BY DEF OfferOne, Offer, Refused
  <2>. DEFINE marked == [one EXCEPT !.pinned = pinned]
  <2>2. Refused({}).all = {} /\ Refused({}).fetches = {}
    BY DEF Refused
  <2>. HIDE DEF one, marked
  <2>3. CASE FromLock(P, need, pinned) = marked
    BY <2>1, <2>3 DEF marked
  <2>4. CASE FromLock(P, need, pinned) = Refused({})
    BY <2>2, <2>4
  <2>. QED BY <1>7, <2>3, <2>4 DEF marked
<1>. HIDE DEF one
<1>. QED BY <1>5, <1>6, <1>8

(* What stands for nothing holds nothing. *)
LEMMA NothingIsRefused ==
  ASSUME NEW r PROVE Refused(r).all = {} /\ Refused(r).fetches = {}
BY DEF Refused

Serves(P, need, offer) ==
  /\ \A p \in offer.all : IsChosen(P, need.name, p) /\ IsAsTold(p) /\ WantMatches(need.want, p.source)
  /\ AreCommits(P, offer.fetches)

(* What is in a directory, if anything is. *)
LEMMA DirectoryIsContent ==
  ASSUME NEW P, IsWorld(P), NEW dir, At(P, dir) # None
  PROVE  IsContent(At(P, dir), URLs(P))
<1>. DEFINE content == At(P, dir)
            of == {P.members[i].content : i \in {j \in DOMAIN P.members : P.members[j].dir = dir}}
<1>1. \A c \in of : IsContent(c, URLs(P))
  BY DEF IsWorld, URLs
<1>2. \A d \in DOMAIN P.directories : IsContent(P.directories[d], URLs(P))
  BY DEF IsWorld, URLs
<1>3. content = CASE of # {} -> CHOOSE c \in of : TRUE
                  [] of = {} /\ dir \in DOMAIN P.directories -> P.directories[dir]
                  [] OTHER -> None
  BY DEF At
<1>. HIDE DEF of, content
<1>4. CASE of # {}
  <2>1. content \in of
    BY <1>3, <1>4
  <2>. QED BY <1>1, <2>1 DEF content
<1>5. CASE of = {} /\ dir \in DOMAIN P.directories
  BY <1>2, <1>3, <1>5 DEF content
<1>6. CASE of = {} /\ dir \notin DOMAIN P.directories
  <2>1. content = None
    BY <1>3, <1>6
  <2>. QED BY <2>1 DEF content
<1>. QED BY <1>4, <1>5, <1>6

(* A directory. *)
LEMMA DirectoriesServe ==
  ASSUME NEW P, IsWorld(P), NEW need, IsNeed(need, URLs(P)), need.want.kind = "path"
  PROVE  Serves(P, need, FromPath(P, need))
<1>. DEFINE content == At(P, need.want.place)
            offer == OfferOne(P, need.name, content.version, need.want, content, {})
<1>1. content # None => IsContent(content, URLs(P))
  BY DirectoryIsContent
<1>2. CASE content = None
  BY <1>2, NothingIsRefused DEF FromPath, Serves, AreCommits
<1>3. CASE content # None
  <2>1. FromPath(P, need) = offer
    BY <1>3 DEF FromPath
  <2>2. IsContent(content, URLs(P)) /\ IsSource(need.want) /\ need.want.rev = None
    BY <1>1, <1>3 DEF IsNeed
  <2>3. WantMatches(need.want, need.want)
    BY <2>2 DEF IsNeed, IsSource, Source, WantMatches
  <2>. HIDE DEF content
  <2>4. \A p \in offer.all : IsChosen(P, need.name, p) /\ IsAsTold(p) /\ p.source = need.want
    BY <2>2, OneIsChosen
  <2>5. offer.fetches = {}
    BY OneFetches
  <2>. QED BY <2>1, <2>3, <2>4, <2>5 DEF Serves, AreCommits
<1>. QED BY <1>2, <1>3

(* What is bundled with the compiler. *)
LEMMA ToolchainServes ==
  ASSUME NEW P, IsWorld(P), NEW need, IsNeed(need, URLs(P)), need.want.kind = "toolchain"
  PROVE  Serves(P, need, FromToolchain(P, need))
<1>. DEFINE content == P.toolchain[need.name]
            offer == OfferOne(P, need.name, content.version, Toolchain, content, {})
<1>1. FromToolchain(P, need) = Refused({}) \/ (need.name \in DOMAIN P.toolchain /\ FromToolchain(P, need) = offer)
  BY DEF FromToolchain
<1>2. CASE FromToolchain(P, need) = Refused({})
  BY <1>2, NothingIsRefused DEF Serves, AreCommits
<1>3. CASE need.name \in DOMAIN P.toolchain /\ FromToolchain(P, need) = offer
  <2>1. IsContent(content, URLs(P))
    BY <1>3 DEF IsWorld, URLs
  <2>2. IsSource(Toolchain) /\ Toolchain.kind = "toolchain" /\ Toolchain.rev = None
        /\ [Toolchain EXCEPT !.rev = None] = Toolchain
    BY DEF IsSource, Toolchain, Source
  <2>3. WantMatches(need.want, Toolchain)
    BY <2>2 DEF IsNeed, WantMatches
  <2>. HIDE DEF content
  <2>4. \A p \in offer.all : IsChosen(P, need.name, p) /\ IsAsTold(p) /\ p.source = Toolchain
    BY <2>1, <2>2, OneIsChosen
  <2>5. offer.fetches = {}
    BY OneFetches
  <2>. QED BY <1>3, <2>3, <2>4, <2>5 DEF Serves, AreCommits
<1>. QED BY <1>1, <1>2, <1>3

(* A commit of the repository, or none. *)
LEMMA CommitsServe ==
  ASSUME NEW P, IsWorld(P), NEW need, IsNeed(need, URLs(P)), need.want.kind = "git",
         NEW rev, rev # None => rev \in DOMAIN P.repositories[need.want.place].commits,
         NEW found, rev # None => AreCommits(P, found)
  PROVE  Serves(P, need, OfferCommit(P, need, rev, found))
<1>. DEFINE commits == P.repositories[need.want.place].commits
            source == [need.want EXCEPT !.rev = rev]
            offer == OfferOne(P, need.name, commits[rev].version, source, commits[rev], found)
<1>1. \/ OfferCommit(P, need, rev, found) = Refused({})
      \/ rev # None /\ commits[rev] # None /\ OfferCommit(P, need, rev, found) = offer
  BY DEF OfferCommit
<1>2. CASE OfferCommit(P, need, rev, found) = Refused({})
  BY <1>2, NothingIsRefused DEF Serves, AreCommits
<1>3. CASE rev # None /\ commits[rev] # None /\ OfferCommit(P, need, rev, found) = offer
  <2>1. need.want.place \in URLs(P) /\ IsSource(need.want) /\ need.want.rev = None
    BY DEF IsNeed
  <2>2. IsContent(commits[rev], URLs(P))
    BY <1>3, <2>1 DEF IsWorld, IsRepository, URLs
  <2>3. IsSource(source) /\ source.kind = "git"
    BY <2>1, Without
  <2>4. WantMatches(need.want, source)
    BY <2>1 DEF IsSource, Source, WantMatches
  <2>. DEFINE content == commits[rev]
  <2>. HIDE DEF content, source
  <2>5. \A p \in OfferOne(P, need.name, content.version, source, content, found).all :
          IsChosen(P, need.name, p) /\ IsAsTold(p) /\ p.source = source
    BY <2>2, <2>3, OneIsChosen DEF content
  <2>6. OfferOne(P, need.name, content.version, source, content, found).fetches \subseteq found
    BY OneFetches
  <2>. QED BY <1>3, <2>4, <2>5, <2>6 DEF Serves, AreCommits, content
<1>. QED BY <1>1, <1>2, <1>3

(* A repository, of which git may have been asked before. *)
LEMMA RepositoriesServe ==
  ASSUME NEW P, IsWorld(P), NEW need, IsNeed(need, URLs(P)), need.want.kind = "git",
         NEW found, AreCommits(P, found)
  PROVE  Serves(P, need, FromGit(P, need, found))
<1>. DEFINE url == need.want.place
            reference == need.want.reference
            repository == P.repositories[url]
            asked == {f \in found : f.url = url /\ f.reference = reference}
            rev == Rev(P, url, reference)
<1>1. url \in URLs(P)
  BY DEF IsNeed
<1>2. IsRepository(repository, URLs(P)) /\ P.databases[url] \subseteq DOMAIN repository.commits
  BY <1>1 DEF IsWorld, URLs
<1>3. rev # None => rev \in DOMAIN repository.commits
  <2>. DEFINE here == reference \in P.databases[url]
  <2>1. CASE here
    <3>1. rev = reference
      BY <2>1 DEF Rev
    <3>. QED BY <1>2, <2>1, <3>1
  <2>2. CASE ~here /\ url \in P.reachable /\ reference \in DOMAIN repository.heads
    <3>1. rev = repository.heads[reference]
      BY <2>2 DEF Rev
    <3>2. rev \in Range(repository.heads)
      BY <2>2, <3>1 DEF Range
    <3>. QED BY <1>2, <3>2 DEF IsRepository
  <2>3. CASE ~here /\ url \in P.reachable /\ reference \notin DOMAIN repository.heads
             /\ reference \in DOMAIN repository.commits \ repository.gone
    <3>1. rev = reference
      BY <2>3 DEF Rev
    <3>. QED BY <2>3, <3>1
  <2>4. CASE ~here /\ ~(url \in P.reachable /\ reference \in DOMAIN repository.heads)
             /\ ~(url \in P.reachable /\ reference \in DOMAIN repository.commits \ repository.gone)
    BY <2>4 DEF Rev
  <2>. QED BY <2>1, <2>2, <2>3, <2>4
<1>4. CASE asked # {}
  <2>1. (CHOOSE f \in asked : TRUE) \in asked
    BY <1>4
  <2>2. PICK f \in asked : f = CHOOSE x \in asked : TRUE
    BY <2>1
  <2>3. FromGit(P, need, found) = OfferCommit(P, need, f.rev, {})
    BY <1>4, <2>2 DEF FromGit
  <2>4. f.rev \in DOMAIN P.repositories[need.want.place].commits /\ AreCommits(P, {})
    BY <2>2 DEF AreCommits
  <2>. HIDE DEF asked
  <2>. QED BY <2>3, <2>4, CommitsServe
<1>5. CASE asked = {} /\ (P.locked \/ P.offline)
  <2>1. FromGit(P, need, found) = Refused({})
    BY <1>5 DEF FromGit
  <2>. QED BY <2>1, NothingIsRefused DEF Serves, AreCommits
<1>6. CASE asked = {} /\ ~(P.locked \/ P.offline)
  <2>. DEFINE new == {[url |-> url, reference |-> reference, rev |-> rev]}
  <2>1. FromGit(P, need, found) = OfferCommit(P, need, rev, new)
    BY <1>6 DEF FromGit
  <2>2. rev # None => AreCommits(P, new)
    BY <1>1, <1>3 DEF AreCommits
  <2>. HIDE DEF rev, new
  <2>. QED BY <1>3, <2>1, <2>2, CommitsServe
<1>. QED BY <1>4, <1>5, <1>6

(* What an index publishes, as it tells it. *)
LEMMA IndexServes ==
  ASSUME NEW P, IsWorld(P), NEW need, IsNeed(need, URLs(P)), need.want.kind = "registry",
         MayReadIndex(P, need), NEW p \in FromIndex(P, need)
  PROVE  IsChosen(P, need.name, p) /\ IsAsTold(p) /\ WantMatches(need.want, p.source)
<1>. DEFINE entries == P.registries[need.want.place][need.name]
<1>1. need.want = Source("registry", need.want.place, None, None) /\ IsSource(need.want)
      /\ need.want.rev = None
  BY DEF IsNeed
<1>2. need.want.place \in DOMAIN P.registries
  <2>1. need.want.place \in Range(P.configured)
    BY DEF MayReadIndex, IsConfigured, Range
  <2>. QED BY <2>1 DEF IsWorld
<1>3. need.name \in DOMAIN P.registries[need.want.place]
  BY <1>2 DEF MayReadIndex, IsWorld, AreRegistries
<1>4. PICK e \in entries : ~e.yanked /\ p = Indexed(need, e)
  BY DEF FromIndex
<1>5. IsEntry(e, URLs(P))
  BY <1>2, <1>3, <1>4 DEF IsWorld, AreRegistries, URLs
<1>6. /\ IsVersion(e.version) /\ IsContent(e.content, URLs(P)) /\ SaysFromWhere(e)
      /\ e.needs \in Seq(Range(e.needs)) /\ \A d \in Range(e.needs) : IsDependency(d, URLs(P))
  BY <1>5 DEF IsEntry, AreDependencies
<1>. DEFINE Told(d) == Need(d.name, d.requirement, IF d.source.kind = "toolchain" THEN Toolchain ELSE need.want)
            told == [i \in DOMAIN e.needs |-> Told(e.needs[i])]
<1>7. p = Package(need.name, e.version, need.want, e.content, told, TRUE)
  BY <1>4 DEF Indexed
<1>. HIDE DEF told
<1>8. /\ p.name = need.name /\ p.version = e.version /\ p.source = need.want /\ p.content = e.content
      /\ p.needs = told /\ p.indexed = TRUE
  BY <1>7 DEF Package
<1>9. \A x \in Range(told) : \E d \in Range(e.needs) : x = Told(d)
  BY DEF Range, told
<1>10. told \in Seq(Range(told))
  <2>1. DOMAIN e.needs = 1 .. Len(e.needs) /\ Len(e.needs) \in Nat
    BY <1>6
  <2>2. told \in Seq({told[i] : i \in 1 .. Len(e.needs)})
    BY <2>1 DEF told
  <2>. QED BY <2>2, OwnRange
<1>11. IsSource(Toolchain) /\ Toolchain.rev = None /\ Toolchain.kind = "toolchain"
  BY DEF IsSource, Toolchain, Source
<1>12. ASSUME NEW x \in Range(told) PROVE IsNeed(x, URLs(P))
  <2>1. PICK d \in Range(e.needs) : x = Told(d)
    BY <1>9
  <2>2. x = Need(x.name, x.requirement, x.want) /\ x.requirement = d.requirement
        /\ (x.want = Toolchain \/ x.want = need.want)
    BY <2>1 DEF Need
  <2>3. \A i \in DOMAIN d.requirement : IsComparator(d.requirement[i])
    BY <1>6 DEF IsDependency
  <2>4. CASE x.want = Toolchain
    BY <1>11, <2>2, <2>3, <2>4 DEF IsNeed
  <2>5. CASE x.want = need.want
    BY <1>1, <2>2, <2>3, <2>5 DEF IsNeed
  <2>. QED BY <2>2, <2>4, <2>5
<1>13. IsChosen(P, need.name, p)
  <2>1. IsAllowed(P, need.name, p)
    BY <1>2, <1>3, <1>4, <1>8 DEF IsAllowed
  <2>2. AreNeeds(p.needs, URLs(P))
    BY <1>8, <1>10, <1>12 DEF AreNeeds
  <2>3. p = Package(p.name, p.version, p.source, p.content, p.needs, p.indexed)
    BY <1>7, <1>8
  <2>. QED BY <1>1, <1>6, <1>8, <2>1, <2>2, <2>3 DEF IsChosen
<1>14. IsAsTold(p)
  <2>1. ASSUME NEW x \in Range(p.needs), NEW d \in Range(p.content.dependencies),
               x.name = d.name, x.requirement = d.requirement
        PROVE  x.want = IF d.source.kind = "toolchain" THEN Toolchain ELSE p.source
    <3>1. PICK n \in Range(e.needs) : x = Told(n)
      BY <1>8, <1>9
    <3>2. n.name = d.name /\ n.requirement = d.requirement
      BY <2>1, <3>1 DEF Need
    <3>3. n.source.kind = "toolchain" <=> d.source.kind = "toolchain"
      BY <1>6, <1>8, <3>2 DEF SaysFromWhere
    <3>4. x.want = IF n.source.kind = "toolchain" THEN Toolchain ELSE need.want
      BY <3>1 DEF Need
    <3>. QED BY <1>8, <3>3, <3>4
  <2>2. p.source = Source("registry", p.source.place, None, None)
    BY <1>1, <1>8
  <2>. QED BY <2>1, <2>2 DEF IsAsTold
<1>15. WantMatches(need.want, p.source)
  BY <1>1, <1>8 DEF WantMatches, IsSource, Source
<1>. QED BY <1>13, <1>14, <1>15

(* Whatever is offered serves what is needed. *)
LEMMA OffersServe ==
  ASSUME NEW P, IsWorld(P), NEW need, IsNeed(need, URLs(P)), NEW usePin,
         NEW found, AreCommits(P, found)
  PROVE  Serves(P, need, Options(P, need, usePin, found))
<1>1. need.want.kind \in {"path", "toolchain", "git", "registry"}
  BY DEF IsNeed, IsSource
<1>2. CASE need.want.kind = "path"
  <2>1. Options(P, need, usePin, found) = FromPath(P, need)
    BY <1>2 DEF Options
  <2>. QED BY <1>2, <2>1, DirectoriesServe
<1>3. CASE need.want.kind = "toolchain"
  <2>1. Options(P, need, usePin, found) = FromToolchain(P, need)
    BY <1>3 DEF Options
  <2>. QED BY <1>3, <2>1, ToolchainServes
<1>4. CASE need.want.kind = "git" /\ PinnedGit(P, need)
  <2>1. Options(P, need, usePin, found) = FromLock(P, need, FALSE)
    BY <1>4 DEF Options
  <2>2. Serves(P, need, FromLock(P, need, FALSE))
    <3>1. need.want.kind \in {"git", "registry"} /\ need.name \in DOMAIN P.pins
          /\ WantMatches(need.want, P.pins[need.name].source)
      BY <1>4 DEF PinnedGit
    <3>2. PICK pinned : pinned = FALSE
      OBVIOUS
    <3>3. /\ \A p \in FromLock(P, need, pinned).all :
               IsChosen(P, need.name, p) /\ IsAsTold(p) /\ WantMatches(need.want, p.source)
          /\ FromLock(P, need, pinned).fetches = {}
      BY <3>1, LockedIsChosen
    <3>4. Serves(P, need, FromLock(P, need, pinned))
      BY <3>3 DEF Serves, AreCommits
    <3>. QED BY <3>2, <3>4
  <2>. QED BY <2>1, <2>2
<1>5. CASE need.want.kind = "git" /\ ~PinnedGit(P, need)
  <2>1. Options(P, need, usePin, found) = FromGit(P, need, found)
    BY <1>5 DEF Options
  <2>. QED BY <1>5, <2>1, RepositoriesServe
<1>6. CASE need.want.kind = "registry" /\ usePin /\ ApplicablePin(P, need)
  <2>1. Options(P, need, usePin, found) = FromLock(P, need, TRUE)
    BY <1>6 DEF Options
  <2>2. Serves(P, need, FromLock(P, need, TRUE))
    <3>1. need.want.kind \in {"git", "registry"} /\ need.name \in DOMAIN P.pins
          /\ WantMatches(need.want, P.pins[need.name].source)
      BY <1>6 DEF ApplicablePin
    <3>2. PICK pinned : pinned = TRUE
      OBVIOUS
    <3>3. /\ \A p \in FromLock(P, need, pinned).all :
               IsChosen(P, need.name, p) /\ IsAsTold(p) /\ WantMatches(need.want, p.source)
          /\ FromLock(P, need, pinned).fetches = {}
      BY <3>1, LockedIsChosen
    <3>4. Serves(P, need, FromLock(P, need, pinned))
      BY <3>3 DEF Serves, AreCommits
    <3>. QED BY <3>2, <3>4
  <2>. QED BY <2>1, <2>2
<1>7. CASE need.want.kind = "registry" /\ ~(usePin /\ ApplicablePin(P, need)) /\ MayReadIndex(P, need)
  <2>1. Options(P, need, usePin, found) = Offer(FromIndex(P, need), FALSE, {need.name}, {})
    BY <1>7 DEF Options
  <2>2. /\ Offer(FromIndex(P, need), FALSE, {need.name}, {}).all = FromIndex(P, need)
        /\ Offer(FromIndex(P, need), FALSE, {need.name}, {}).fetches = {}
    BY DEF Offer
  <2>. QED BY <1>7, <2>1, <2>2, IndexServes DEF Serves, AreCommits
<1>8. CASE need.want.kind = "registry" /\ ~(usePin /\ ApplicablePin(P, need)) /\ ~MayReadIndex(P, need)
  <2>1. Options(P, need, usePin, found) = Refused({need.name})
    BY <1>8 DEF Options
  <2>. QED BY <2>1, NothingIsRefused DEF Serves, AreCommits
<1>. QED BY <1>1, <1>2, <1>3, <1>4, <1>5, <1>6, <1>7, <1>8

-----------------------------------------------------------------------------
(* The search *)

(* A frame with other candidates left. *)
LEMMA OtherCandidates ==
  ASSUME NEW P, NEW own, NEW f, IsFrame(P, own, f),
         NEW left, \A c \in left : IsCandidate(P, f.need, c), NEW pin, NEW g,
         g = [need |-> f.need, left |-> left, pin |-> pin, pending |-> f.pending, chosen |-> f.chosen]
  PROVE  IsFrame(P, own, g)
<1>1. /\ g.need = f.need /\ g.left = left /\ g.pin = pin /\ g.pending = f.pending /\ g.chosen = f.chosen
  OBVIOUS
<1>. QED BY <1>1 DEF IsFrame

(* Trying a candidate leaves nothing uncovered that is not pending. *)
LEMMA CandidatesCover ==
  ASSUME NEW P, NEW own, NEW f, IsFrame(P, own, f), NEW c, IsCandidate(P, f.need, c)
  PROVE  /\ AreNeeds(f.pending \o c.needs, URLs(P))
         /\ Branch(P, Extend(f.chosen, f.need.name, c))
         /\ Covered(own, Extend(f.chosen, f.need.name, c), Range(f.pending \o c.needs))
<1>. DEFINE packages == Extend(f.chosen, f.need.name, c)
            n == f.need.name
<1>1. /\ AreNeeds(f.pending, URLs(P)) /\ AreNeeds(c.needs, URLs(P)) /\ Branch(P, f.chosen)
      /\ n \notin DOMAIN f.chosen /\ Covered(own, f.chosen, Range(f.pending) \cup {f.need})
  BY DEF IsFrame, IsCandidate, IsChosen
<1>2. f.pending \o c.needs \in Seq(Range(f.pending \o c.needs))
      /\ Range(f.pending \o c.needs) = Range(f.pending) \cup Range(c.needs)
  BY <1>1, RangeOfJoined DEF AreNeeds
<1>3. /\ DOMAIN packages = DOMAIN f.chosen \cup {n} /\ packages[n] = c
      /\ \A m \in DOMAIN f.chosen : packages[m] = f.chosen[m]
  BY <1>1 DEF Extend
<1>. HIDE DEF packages
<1>4. Branch(P, packages)
  BY <1>1, <1>3 DEF Branch, IsCandidate
<1>5. Met(f.need, packages)
  BY <1>3 DEF Met, IsCandidate
<1>6. ASSUME NEW need, Met(need, f.chosen) PROVE Met(need, packages)
  BY <1>1, <1>3, <1>6 DEF Met
<1>7. AllNeeds(own, packages) \subseteq AllNeeds(own, f.chosen) \cup Range(c.needs)
  BY <1>3 DEF AllNeeds
<1>8. Covered(own, packages, Range(f.pending) \cup Range(c.needs))
  BY <1>1, <1>5, <1>6, <1>7 DEF Covered
<1>. QED BY <1>1, <1>2, <1>4, <1>8 DEF AreNeeds, packages

(* What is needed first. *)
LEMMA HeadIsNeed ==
  ASSUME NEW P, NEW needs, AreNeeds(needs, URLs(P)), needs # <<>>
  PROVE  /\ IsNeed(Head(needs), URLs(P)) /\ AreNeeds(Tail(needs), URLs(P))
         /\ Range(needs) = {Head(needs)} \cup Range(Tail(needs))
<1>1. Tail(needs) \in Seq(Range(Tail(needs))) /\ Range(needs) = {Head(needs)} \cup Range(Tail(needs))
  BY RangeOfTail DEF AreNeeds
<1>. QED BY <1>1 DEF AreNeeds

(* The last frame, and those below it. *)
LEMMA LastIsFrame ==
  ASSUME NEW P, NEW own, NEW frames, IsTrail(P, own, frames), frames # <<>>
  PROVE  IsTrail(P, own, Front(frames)) /\ IsFrame(P, own, Last(frames))
<1>1. Front(frames) \in Seq(Range(Front(frames))) /\ Range(frames) = Range(Front(frames)) \cup {Last(frames)}
  BY RangeOfFront DEF IsTrail
<1>. QED BY <1>1 DEF IsTrail

(* One more frame. *)
LEMMA TrailGrows ==
  ASSUME NEW P, NEW own, NEW frames, IsTrail(P, own, frames), NEW f, IsFrame(P, own, f)
  PROVE  IsTrail(P, own, Append(frames, f))
<1>1. Append(frames, f) \in Seq(Range(Append(frames, f))) /\ Range(Append(frames, f)) = Range(frames) \cup {f}
  BY RangeOfAppend DEF IsTrail
<1>. QED BY <1>1 DEF IsTrail

(* What is offered and matches, are candidates. *)
LEMMA MatchingAreCandidates ==
  ASSUME NEW need, IsNeed(need, URLs(problem)), NEW offer, Serves(problem, need, offer),
         NEW all, all \subseteq offer.all, NEW c \in Matching(need, all)
  PROVE  IsCandidate(problem, need, c)
BY DEF Serves, Matching, IsCandidate

(* A step of the search leaves the world, and what was agreed on, alone. *)
LEMMA SearchStays ==
  ASSUME ResolverInv, UNCHANGED <<problem, at, merged>>, status' # "solved",
         SearchInv', TrailInv', FetchedInv'
  PROVE  ResolverInv'
<1>1. IsWorld(problem') /\ at' \in DOMAIN problem'.members
  BY DEF ResolverInv
<1>2. MergedInv'
  BY DEF ResolverInv, MergedInv
<1>. QED BY <1>1, <1>2 DEF ResolverInv

(* A need met by what was chosen before is covered, so it need not be pending. *)
LEMMA AgreeHolds == ResolverInv /\ Agree => ResolverInv'
<1>. SUFFICES ASSUME ResolverInv, Agree PROVE ResolverInv'
  OBVIOUS
<1>1. /\ pending # <<>> /\ status = "search" /\ pending' = Tail(pending) /\ Fits(Head(pending))
      /\ UNCHANGED <<problem, at, status, chosen, trail, fetched, merged>>
  BY DEF Agree, Searching
<1>2. AreNeeds(pending, URLs(problem)) /\ Branch(problem, chosen) /\ Covered(Own, chosen, Range(pending))
  BY <1>1 DEF ResolverInv, SearchInv
<1>3. AreNeeds(Tail(pending), URLs(problem)) /\ Range(pending) = {Head(pending)} \cup Range(Tail(pending))
  BY <1>1, <1>2, HeadIsNeed
<1>4. Own' = Own
  BY <1>1 DEF Own
<1>5. Met(Head(pending), chosen)
  BY <1>1 DEF Fits, Met
<1>6. Covered(Own, chosen, Range(Tail(pending)))
  BY <1>2, <1>3, <1>5 DEF Covered
<1>7. SearchInv'
  BY <1>1, <1>2, <1>3, <1>4, <1>6 DEF ResolverInv, SearchInv
<1>8. TrailInv' /\ FetchedInv'
  BY <1>1, <1>4 DEF ResolverInv, TrailInv, FetchedInv
<1>. QED BY <1>1, <1>7, <1>8, SearchStays

(* git finds commits of the repository. *)
LEMMA FetchesHold ==
  ASSUME ResolverInv, NEW need, IsNeed(need, URLs(problem)), NEW usePin, NEW found,
         found = fetched \cup Options(problem, need, usePin, fetched).fetches
  PROVE  Serves(problem, need, Options(problem, need, usePin, fetched)) /\ AreCommits(problem, found)
<1>1. Serves(problem, need, Options(problem, need, usePin, fetched)) /\ AreCommits(problem, fetched)
  BY OffersServe DEF ResolverInv, FetchedInv
<1>. QED BY <1>1 DEF Serves, AreCommits

(* A need at odds with what was chosen ends the branch and leaves the frames as they are. *)
LEMMA DisagreeHolds == ResolverInv /\ Disagree => ResolverInv'
<1>. SUFFICES ASSUME ResolverInv, Disagree PROVE ResolverInv'
  OBVIOUS
<1>1. /\ pending # <<>> /\ status' \in {"back", "error"}
      /\ fetched' = fetched \cup Options(problem, Head(pending), FALSE, fetched).fetches
      /\ UNCHANGED <<problem, at, pending, chosen, trail, merged>>
  BY DEF Disagree, Searching
<1>2. AreNeeds(pending, URLs(problem)) /\ Branch(problem, chosen)
  BY DEF ResolverInv, SearchInv
<1>3. IsNeed(Head(pending), URLs(problem))
  BY <1>1, <1>2, HeadIsNeed
<1>4. Own' = Own
  BY <1>1 DEF Own
<1>5. AreCommits(problem, fetched')
  BY <1>1, <1>3, FetchesHold
<1>6. SearchInv'
  BY <1>1, <1>2, <1>4 DEF ResolverInv, SearchInv, Disagree, Searching
<1>7. TrailInv' /\ FetchedInv'
  BY <1>1, <1>4, <1>5 DEF ResolverInv, TrailInv, FetchedInv
<1>. QED BY <1>1, <1>6, <1>7, SearchStays

(* A new frame holds candidates that meet the need it was opened for, the lock's or the
   index's, and the branch as it stood. *)
LEMMA ChooseHolds == ResolverInv /\ Choose => ResolverInv'
<1>. SUFFICES ASSUME ResolverInv, Choose PROVE ResolverInv'
  OBVIOUS
<1>. DEFINE need == Head(pending)
            offered == Options(problem, need, TRUE, fetched)
            left == Matching(need, offered.all)
            pin == IF offered.pinned THEN problem.pins[need.name].version ELSE None
<1>1. /\ pending # <<>> /\ status = "search" /\ status' \in {"back", "error"}
      /\ need.name \notin DOMAIN chosen /\ fetched' = fetched \cup offered.fetches
      /\ trail' = trail \/ trail' = Append(trail, Frame(left, pin))
      /\ UNCHANGED <<problem, at, pending, chosen, merged>>
  BY DEF Choose, Searching
<1>2. AreNeeds(pending, URLs(problem)) /\ Branch(problem, chosen) /\ Covered(Own, chosen, Range(pending))
  BY <1>1 DEF ResolverInv, SearchInv
<1>3. /\ IsNeed(need, URLs(problem)) /\ AreNeeds(Tail(pending), URLs(problem))
      /\ Range(pending) = {need} \cup Range(Tail(pending))
  BY <1>1, <1>2, HeadIsNeed
<1>4. Own' = Own
  BY <1>1 DEF Own
<1>5. AreCommits(problem, fetched') /\ Serves(problem, need, offered)
  BY <1>1, <1>3, FetchesHold
<1>6. \A c \in left : IsCandidate(problem, need, c)
  <2>. HIDE DEF need, offered
  <2>. QED BY <1>3, <1>5, MatchingAreCandidates
<1>7. IsFrame(problem, Own, Frame(left, pin))
  <2>. HIDE DEF left, pin
  <2>1. /\ Frame(left, pin) = [need |-> need, left |-> left, pin |-> pin, pending |-> Tail(pending), chosen |-> chosen]
        /\ Frame(left, pin).need = need /\ Frame(left, pin).left = left /\ Frame(left, pin).pin = pin
        /\ Frame(left, pin).pending = Tail(pending) /\ Frame(left, pin).chosen = chosen
    BY DEF Frame
  <2>2. Range(Tail(pending)) \cup {need} = Range(pending)
    BY <1>3
  <2>. HIDE DEF need
  <2>. QED BY <1>1, <1>2, <1>3, <1>6, <2>1, <2>2 DEF IsFrame
<1>. HIDE DEF left, pin
<1>8. IsTrail(problem, Own, trail')
  <2>1. IsTrail(problem, Own, trail) /\ IsTrail(problem, Own, Append(trail, Frame(left, pin)))
    BY <1>7, TrailGrows DEF ResolverInv, TrailInv
  <2>. QED BY <1>1, <2>1
<1>9. SearchInv'
  BY <1>1, <1>2, <1>4 DEF ResolverInv, SearchInv
<1>10. TrailInv' /\ FetchedInv'
  BY <1>1, <1>4, <1>5, <1>8 DEF TrailInv, FetchedInv
<1>. QED BY <1>1, <1>9, <1>10, SearchStays

(* A candidate of the last frame is chosen: its own needs are pending behind those the
   frame kept, and what was chosen before stays covered. *)
LEMMA TryNextHolds == ResolverInv /\ TryNext => ResolverInv'
<1>. SUFFICES ASSUME ResolverInv, TryNext PROVE ResolverInv'
  OBVIOUS
<1>. DEFINE top == Last(trail)
<1>1. trail # <<>> /\ UNCHANGED <<problem, at, fetched, merged>>
  BY DEF TryNext, Backing
<1>2. PICK c \in top.left :
        /\ status' = "search" /\ trail' = Append(Front(trail), [top EXCEPT !.left = @ \ {c}])
        /\ pending' = top.pending \o c.needs /\ chosen' = Extend(top.chosen, top.need.name, c)
  BY DEF TryNext
<1>3. IsTrail(problem, Own, Front(trail)) /\ IsFrame(problem, Own, top)
  BY <1>1, LastIsFrame DEF ResolverInv, TrailInv
<1>4. Own' = Own
  BY <1>1 DEF Own
<1>5. \A x \in top.left : IsCandidate(problem, top.need, x)
  BY <1>3 DEF IsFrame
<1>. DEFINE left == top.left \ {c}
            rest == [top EXCEPT !.left = left]
<1>6. [top EXCEPT !.left = @ \ {c}] = rest
  OBVIOUS
<1>. HIDE DEF top
<1>7. IsFrame(problem, Own, rest)
  <2>1. \A x \in left : IsCandidate(problem, top.need, x)
    BY <1>5
  <2>. HIDE DEF left
  <2>2. PICK g : g = rest
    OBVIOUS
  <2>3. PICK need, l, pin, todo, packages :
          top = [need |-> need, left |-> l, pin |-> pin, pending |-> todo, chosen |-> packages]
    BY <1>3 DEF IsFrame
  <2>4. g = [need |-> need, left |-> left, pin |-> pin, pending |-> todo, chosen |-> packages]
    BY <2>2, <2>3
  <2>5. top.need = need /\ top.pending = todo /\ top.chosen = packages
    BY <2>3
  <2>6. IsFrame(problem, Own, g)
    BY <1>3, <2>1, <2>4, <2>5, OtherCandidates
  <2>. QED BY <2>2, <2>6
<1>. HIDE DEF rest
<1>8. IsTrail(problem, Own, trail')
  BY <1>2, <1>3, <1>6, <1>7, TrailGrows
<1>9. /\ AreNeeds(pending', URLs(problem)) /\ Branch(problem, chosen')
      /\ Covered(Own, chosen', Range(pending'))
  BY <1>2, <1>3, <1>5, CandidatesCover
<1>10. SearchInv'
  <2>1. AreNeeds(Own, URLs(problem))
    BY DEF ResolverInv, SearchInv, TryNext, Backing
  <2>. QED BY <1>1, <1>4, <1>9, <2>1 DEF SearchInv
<1>11. TrailInv' /\ FetchedInv'
  BY <1>1, <1>4, <1>8 DEF TrailInv, FetchedInv, ResolverInv
<1>. QED BY <1>1, <1>2, <1>10, <1>11, SearchStays

(* What is published instead of the lock's version meets the frame's need just as well. *)
LEMMA LeavePinHolds == ResolverInv /\ LeavePin => ResolverInv'
<1>. SUFFICES ASSUME ResolverInv, LeavePin PROVE ResolverInv'
  OBVIOUS
<1>. DEFINE top == Last(trail)
            all == Options(problem, top.need, FALSE, fetched)
            others == {c \in all.all : c.version # top.pin}
            left == Matching(top.need, others)
            rest == [top EXCEPT !.pin = None, !.left = left]
<1>1. /\ trail # <<>> /\ status' \in {"back", "error"}
      /\ fetched' = fetched \cup all.fetches /\ trail' = Append(Front(trail), rest)
      /\ UNCHANGED <<problem, at, pending, chosen, merged>>
  BY DEF LeavePin, Backing
<1>2. IsTrail(problem, Own, Front(trail)) /\ IsFrame(problem, Own, top)
  BY <1>1, LastIsFrame DEF ResolverInv, TrailInv
<1>3. Own' = Own
  BY <1>1 DEF Own
<1>4. IsNeed(top.need, URLs(problem))
  BY <1>2 DEF IsFrame
<1>. HIDE DEF top
<1>5. Serves(problem, top.need, all) /\ AreCommits(problem, fetched')
  BY <1>1, <1>4, FetchesHold
<1>6. \A c \in left : IsCandidate(problem, top.need, c)
  <2>1. others \subseteq all.all
    OBVIOUS
  <2>. HIDE DEF others, all
  <2>. QED BY <1>4, <1>5, <2>1, MatchingAreCandidates
<1>. HIDE DEF left
<1>7. IsFrame(problem, Own, rest)
  <2>2. PICK g : g = rest
    OBVIOUS
  <2>3. PICK need, l, pin, todo, packages :
          top = [need |-> need, left |-> l, pin |-> pin, pending |-> todo, chosen |-> packages]
    BY <1>2 DEF IsFrame
  <2>4. g = [need |-> need, left |-> left, pin |-> None, pending |-> todo, chosen |-> packages]
    BY <2>2, <2>3
  <2>5. top.need = need /\ top.pending = todo /\ top.chosen = packages
    BY <2>3
  <2>6. IsFrame(problem, Own, g)
    BY <1>2, <1>6, <2>4, <2>5, OtherCandidates
  <2>. QED BY <2>2, <2>6
<1>. HIDE DEF rest
<1>8. IsTrail(problem, Own, trail')
  BY <1>1, <1>2, <1>7, TrailGrows
<1>9. SearchInv'
  BY <1>1, <1>3 DEF SearchInv, ResolverInv, LeavePin, Backing
<1>10. TrailInv' /\ FetchedInv'
  BY <1>1, <1>3, <1>5, <1>8 DEF TrailInv, FetchedInv
<1>. QED BY <1>1, <1>9, <1>10, SearchStays

(* A frame with nothing left is dropped, and with the last of them the search ends. *)
LEMMA ExhaustHolds == ResolverInv /\ (Exhaust \/ GiveUp) => ResolverInv'
<1>. SUFFICES ASSUME ResolverInv, Exhaust \/ GiveUp PROVE ResolverInv'
  OBVIOUS
<1>1. /\ status' \in {"back", "dead"} /\ UNCHANGED <<problem, at, pending, chosen, fetched, merged>>
      /\ trail' = trail \/ (trail # <<>> /\ trail' = Front(trail))
  BY DEF Exhaust, GiveUp, Backing
<1>2. Own' = Own
  BY <1>1 DEF Own
<1>3. IsTrail(problem, Own, trail')
  BY <1>1, LastIsFrame DEF ResolverInv, TrailInv
<1>4. SearchInv'
  BY <1>1, <1>2 DEF SearchInv, ResolverInv, Exhaust, GiveUp, Backing
<1>5. TrailInv' /\ FetchedInv'
  BY <1>1, <1>2, <1>3 DEF TrailInv, FetchedInv, ResolverInv
<1>. QED BY <1>1, <1>4, <1>5, SearchStays

-----------------------------------------------------------------------------
(* Where a member's resolution begins *)

(* The member itself is there, and what it needs is pending; and so it is in any
   other world of the same repositories. *)
LEMMA BeginIsCovered ==
  ASSUME IsWorld(problem), NEW i \in DOMAIN problem.members, NEW Q, URLs(Q) = URLs(problem)
  PROVE  /\ AreNeeds(Begin(i).pending, URLs(Q)) /\ Branch(Q, Begin(i).chosen)
         /\ Begin(i).status \in {"search", "error"}
         /\ Begin(i).status = "search" =>
              /\ AreNeeds(MemberNeeds(problem, i), URLs(Q))
              /\ Covered(MemberNeeds(problem, i), Begin(i).chosen, Range(Begin(i).pending))
<1>. DEFINE root == problem.members[i].content
            source == Source("path", problem.members[i].dir, None, None)
            lawful == Lawful(problem, root, source)
            needs == IF lawful THEN NeedsOf(problem, root, source) ELSE <<>>
            package == Package(root.name, root.version, source, root, needs, FALSE)
            packages == [n \in {root.name} |-> package]
<1>1. Begin(i) = [status |-> IF lawful THEN "search" ELSE "error", pending |-> needs, chosen |-> packages]
  BY DEF Begin
<1>2. IsContent(root, URLs(problem))
  BY DEF IsWorld, URLs
<1>3. MemberNeeds(problem, i) = NeedsOf(problem, root, source)
  BY DEF MemberNeeds
<1>4. IsSource(source) /\ source.kind = "path" /\ source.rev = None
  BY DEF IsSource, Source
<1>. HIDE DEF root, source
<1>5. AreNeeds(needs, URLs(Q))
  <2>1. CASE lawful
    BY <1>2, <2>1, DeclaredAreNeeds
  <2>2. CASE ~lawful
    BY <2>2, RangeOfNone DEF AreNeeds
  <2>. QED BY <2>1, <2>2
<1>. HIDE DEF needs
<1>6. /\ package.name = root.name /\ package.version = root.version /\ package.source = source
      /\ package.content = root /\ package.needs = needs /\ package.indexed = FALSE
  BY DEF Package
<1>7. \A n : IsChosen(Q, n, package) /\ IsAsTold(package)
  <2>. HIDE DEF package
  <2>1. package = Package(package.name, package.version, package.source, package.content, package.needs,
                          package.indexed)
    BY <1>6 DEF package
  <2>2. IsVersion(package.version)
    BY <1>2, <1>6 DEF IsContent
  <2>3. \A n : IsAllowed(Q, n, package)
    BY <1>4, <1>6 DEF IsAllowed
  <2>. QED BY <1>2, <1>4, <1>5, <1>6, <2>1, <2>2, <2>3 DEF IsChosen, IsAsTold
<1>. HIDE DEF package
<1>8. DOMAIN packages = {root.name} /\ packages[root.name] = package
  OBVIOUS
<1>9. Branch(Q, packages)
  BY <1>7, <1>8 DEF Branch
<1>10. lawful => Covered(MemberNeeds(problem, i), packages, Range(needs)) /\ AreNeeds(MemberNeeds(problem, i), URLs(Q))
  BY <1>3, <1>5, <1>6, <1>8 DEF Covered, AllNeeds, needs
<1>11. /\ Begin(i).pending = needs /\ Begin(i).chosen = packages
       /\ Begin(i).status = IF lawful THEN "search" ELSE "error"
  BY <1>1
<1>. HIDE DEF packages, lawful
<1>12. Begin(i).status \in {"search", "error"} /\ (Begin(i).status = "search" => lawful)
  BY <1>11
<1>. QED BY <1>5, <1>9, <1>10, <1>11, <1>12

(* The first member is chosen and all it needs is pending. *)
LEMMA InitHolds == Init => ResolverInv
<1>. SUFFICES ASSUME Init PROVE ResolverInv
  OBVIOUS
<1>1. /\ at = 1 /\ status = Begin(1).status /\ pending = Begin(1).pending /\ chosen = Begin(1).chosen
      /\ trail = <<>> /\ fetched = {} /\ merged = <<>>
  BY DEF Init
<1>2. IsWorld(problem)
  BY ProblemAssumption DEF Init
<1>3. 1 \in DOMAIN problem.members
  BY <1>2 DEF IsWorld
<1>4. /\ AreNeeds(pending, URLs(problem)) /\ Branch(problem, chosen) /\ status \in {"search", "error"}
      /\ status = "search" => /\ AreNeeds(MemberNeeds(problem, 1), URLs(problem))
                              /\ Covered(MemberNeeds(problem, 1), chosen, Range(pending))
  BY <1>1, <1>2, <1>3, BeginIsCovered
<1>5. SearchInv
  BY <1>1, <1>4 DEF SearchInv, Own
<1>6. TrailInv
  BY <1>1, RangeOfNone DEF TrailInv, IsTrail
<1>7. FetchedInv
  BY <1>1 DEF FetchedInv, AreCommits
<1>8. MergedInv
  <2>1. DOMAIN merged = {}
    BY <1>1
  <2>2. ~Cyclic(merged)
    BY <2>1 DEF Cyclic
  <2>3. \A i \in DOMAIN problem.members : ~(i < at)
    BY <1>1, <1>2 DEF IsWorld
  <2>. QED BY <1>4, <2>1, <2>2, <2>3 DEF MergedInv
<1>. QED BY <1>1, <1>2, <1>3, <1>5, <1>6, <1>7, <1>8 DEF ResolverInv

-----------------------------------------------------------------------------
(* A member's answer *)

(* What the archive declares, the index has told. *)
LEMMA DeclaredWereTold ==
  ASSUME NEW P, NEW n, NEW p, IsChosen(P, n, p), IsAsTold(p), p.indexed, Lawful(P, p.content, p.source),
         Bag(p.needs) = Bag(NeedsOf(P, p.content, p.source)),
         NEW need \in Range(NeedsOf(P, p.content, p.source))
  PROVE  \E m \in Range(p.needs) : m.name = need.name /\ m.requirement = need.requirement /\ m.want = need.want
<1>1. IsContent(p.content, URLs(P)) /\ p.source = Source("registry", p.source.place, None, None)
  BY DEF IsChosen, IsAsTold
<1>2. PICK d \in Range(p.content.dependencies) :
        MayWant(P, d, p.source) /\ need = Need(d.name, d.requirement, Want(P, d, p.source))
  BY <1>1, DeclaredAreNeeds
<1>3. need.name = d.name /\ need.requirement = d.requirement /\ need.want = Want(P, d, p.source)
  BY <1>2 DEF Need
<1>. DEFINE needs == NeedsOf(P, p.content, p.source)
            times(s, x) == Cardinality({i \in DOMAIN s : s[i].name = x.name /\ s[i].requirement = x.requirement})
            entry(s, x) == [name |-> x.name, requirement |-> x.requirement, times |-> times(s, x)]
<1>4. \A s : Bag(s) = {entry(s, x) : x \in Range(s)}
  BY DEF Bag
<1>. HIDE DEF times
<1>5. PICK m \in Range(p.needs) : entry(p.needs, m) = entry(needs, need)
  <2>1. entry(needs, need) \in Bag(needs)
    BY <1>4
  <2>2. entry(needs, need) \in Bag(p.needs)
    BY <2>1
  <2>. QED BY <1>4, <2>2
<1>6. m.name = need.name /\ m.requirement = need.requirement
  BY <1>5
<1>7. m.want = IF d.source.kind = "toolchain" THEN Toolchain ELSE p.source
  BY <1>3, <1>6 DEF IsAsTold
<1>8. IsSource(d.source) /\ (d.source.kind = "toolchain" => d.source = Toolchain)
  BY <1>1 DEF IsContent, AreDependencies, IsDependency
<1>9. p.source.kind = "registry"
  BY <1>1 DEF Source
<1>10. need.want = m.want
  <2>1. CASE d.source.kind = "toolchain"
    BY <1>3, <1>7, <1>8, <2>1 DEF Want
  <2>2. CASE d.source.kind = "registry"
    <3>1. Want(P, d, p.source) = Source("registry", p.source.place, None, None)
      BY <1>9, <2>2 DEF Want
    <3>2. m.want = p.source
      BY <1>7, <2>2
    <3>. QED BY <1>1, <1>3, <3>1, <3>2
  <2>3. d.source.kind \notin {"path", "git"}
    BY <1>2, <1>9 DEF MayWant
  <2>. QED BY <1>8, <2>1, <2>2, <2>3 DEF IsSource
<1>. QED BY <1>6, <1>10

(* What has been settled is what was chosen, and met by it. *)
LEMMA SettledIsMet ==
  ASSUME ResolverInv, status = "search", pending = <<>>, \A n \in DOMAIN chosen : AgreesWithIndex(chosen[n])
  PROVE  /\ DOMAIN Settled = DOMAIN chosen
         /\ \A n \in DOMAIN chosen : /\ Settled[n].version = chosen[n].version
                                     /\ Settled[n].source = chosen[n].source
                                     /\ IsChosen(problem, n, Settled[n])
                                     /\ \A need \in Range(Settled[n].needs) : Met(need, Settled)
         /\ \A need \in Range(Own) : Met(need, Settled)
<1>1. Branch(problem, chosen) /\ \A need \in AllNeeds(Own, chosen) : Met(need, chosen)
  BY RangeOfNone DEF ResolverInv, SearchInv, Covered
<1>2. \A n \in DOMAIN chosen :
        /\ IsChosen(problem, n, chosen[n]) /\ IsAsTold(chosen[n])
        /\ \A need \in Range(chosen[n].needs) : Met(need, chosen)
  BY <1>1 DEF Branch, AllNeeds
<1>. DEFINE of(p) == NeedsOf(problem, p.content, p.source)
<1>3. /\ DOMAIN Settled = DOMAIN chosen
      /\ \A n \in DOMAIN chosen :
           Settled[n] = IF chosen[n].indexed THEN [chosen[n] EXCEPT !.needs = of(chosen[n])] ELSE chosen[n]
  BY DEF Settled
<1>. HIDE DEF of
<1>4. ASSUME NEW n \in DOMAIN chosen
      PROVE  /\ Settled[n].version = chosen[n].version /\ Settled[n].source = chosen[n].source
             /\ IsChosen(problem, n, Settled[n])
             /\ \A need \in Range(Settled[n].needs) : Met(need, chosen)
  <2>1. PICK p : p = chosen[n]
    OBVIOUS
  <2>2. /\ IsChosen(problem, n, p) /\ IsAsTold(p) /\ \A need \in Range(p.needs) : Met(need, chosen)
        /\ AgreesWithIndex(p) /\ p.indexed \in BOOLEAN
    BY <1>2, <2>1 DEF IsChosen
  <2>3. CASE ~p.indexed
    <3>1. Settled[n] = p
      BY <1>3, <2>1, <2>3
    <3>. QED BY <2>1, <2>2, <3>1
  <2>4. CASE p.indexed
    <3>1. PICK q : q = [p EXCEPT !.needs = of(p)]
      OBVIOUS
    <3>2. Settled[n] = q
      BY <1>3, <2>1, <2>4, <3>1
    <3>3. PICK name, version, source, content, needs :
            p = Package(name, version, source, content, needs, p.indexed)
      BY <2>2 DEF IsChosen
    <3>4. q = Package(name, version, source, content, of(p), p.indexed)
      BY <3>1, <3>3 DEF Package
    <3>5. /\ q.name = p.name /\ q.version = p.version /\ q.source = p.source /\ q.content = p.content
          /\ q.needs = of(p) /\ q.indexed = p.indexed
      BY <3>3, <3>4 DEF Package
    <3>6. Lawful(problem, p.content, p.source) /\ Bag(p.needs) = Bag(of(p))
      BY <2>2, <2>4 DEF AgreesWithIndex, of
    <3>7. AreNeeds(q.needs, URLs(problem))
      <4>1. IsContent(p.content, URLs(problem))
        BY <2>2 DEF IsChosen
      <4>. QED BY <3>5, <3>6, <4>1, DeclaredAreNeeds DEF of
    <3>8. IsChosen(problem, n, q)
      <4>1. q = Package(q.name, q.version, q.source, q.content, q.needs, q.indexed)
        BY <3>3, <3>4, <3>5 DEF Package
      <4>2. IsAllowed(problem, n, q)
        BY <2>2, <3>5 DEF IsChosen, IsAllowed
      <4>. QED BY <2>2, <3>5, <3>7, <4>1, <4>2 DEF IsChosen
    <3>9. ASSUME NEW need \in Range(q.needs) PROVE Met(need, chosen)
      <4>1. need \in Range(NeedsOf(problem, p.content, p.source))
        BY <3>5 DEF of
      <4>2. PICK m \in Range(p.needs) :
              m.name = need.name /\ m.requirement = need.requirement /\ m.want = need.want
        BY <2>2, <2>4, <3>6, <4>1, DeclaredWereTold DEF of
      <4>. QED BY <2>2, <4>2 DEF Met
    <3>. QED BY <2>1, <3>2, <3>5, <3>8, <3>9
  <2>. QED BY <2>2, <2>3, <2>4
<1>5. ASSUME NEW need, Met(need, chosen) PROVE Met(need, Settled)
  BY <1>3, <1>4, <1>5 DEF Met
<1>6. \A need \in Range(Own) : Met(need, chosen)
  BY <1>1 DEF AllNeeds
<1>. QED BY <1>3, <1>4, <1>5, <1>6

(* Answers that agree where they meet, none of them with a cycle, make one. *)
LEMMA MergedIsMet ==
  ASSUME NEW P, NEW before, NEW after, NEW both,
         both = [n \in DOMAIN before \cup DOMAIN after |-> IF n \in DOMAIN before THEN before[n] ELSE after[n]],
         SameAs(before, after), ~Cyclic(before), ~Cyclic(after),
         \A n \in DOMAIN before : IsChosen(P, n, before[n]) /\ \A need \in Range(before[n].needs) : Met(need, before),
         \A n \in DOMAIN after : IsChosen(P, n, after[n]) /\ \A need \in Range(after[n].needs) : Met(need, after)
  PROVE  /\ \A need : Met(need, before) \/ Met(need, after) => Met(need, both)
         /\ \A n \in DOMAIN both : IsChosen(P, n, both[n]) /\ \A need \in Range(both[n].needs) : Met(need, both)
         /\ ~Cyclic(both)
<1>1. /\ DOMAIN both = DOMAIN before \cup DOMAIN after
      /\ \A n \in DOMAIN before : both[n] = before[n]
      /\ \A n \in DOMAIN after \ DOMAIN before : both[n] = after[n]
  OBVIOUS
<1>2. ASSUME NEW need, Met(need, before) PROVE Met(need, both)
  BY <1>1, <1>2 DEF Met
<1>3. ASSUME NEW need, Met(need, after) PROVE Met(need, both)
  <2>1. CASE need.name \in DOMAIN before
    <3>1. before[need.name].version = after[need.name].version /\ before[need.name].source = after[need.name].source
      BY <1>3, <2>1 DEF Met, SameAs
    <3>. QED BY <1>1, <1>3, <2>1, <3>1 DEF Met
  <2>2. CASE need.name \notin DOMAIN before
    BY <1>1, <1>3, <2>2 DEF Met
  <2>. QED BY <2>1, <2>2
<1>4. ASSUME NEW n \in DOMAIN both
      PROVE  IsChosen(P, n, both[n]) /\ \A need \in Range(both[n].needs) : Met(need, both)
  <2>1. CASE n \in DOMAIN before
    <3>1. both[n] = before[n]
      BY <1>1, <2>1
    <3>. QED BY <1>2, <2>1, <3>1
  <2>2. CASE n \notin DOMAIN before
    <3>1. both[n] = after[n] /\ n \in DOMAIN after
      BY <1>1, <2>2
    <3>. QED BY <1>3, <3>1
  <2>. QED BY <2>1, <2>2
<1>5. ASSUME Cyclic(both) PROVE FALSE
  <2>1. PICK loop \in (SUBSET DOMAIN both) \ {{}} : \A n \in loop : Names(both[n].needs) \cap loop # {}
    BY <1>5 DEF Cyclic
  <2>. DEFINE old == loop \cap DOMAIN before
  <2>2. CASE old # {}
    <3>1. ASSUME NEW n \in old PROVE Names(before[n].needs) \cap old # {}
      <4>1. both[n] = before[n] /\ n \in loop
        BY <1>1
      <4>2. Names(before[n].needs) \cap loop # {}
        BY <2>1, <4>1
      <4>3. PICK need \in Range(before[n].needs) : need.name \in loop
        BY <4>2 DEF Names
      <4>4. need.name \in DOMAIN before
        BY <4>3 DEF Met
      <4>. QED BY <4>3, <4>4 DEF Names
    <3>2. old \in (SUBSET DOMAIN before) \ {{}}
      BY <2>2
    <3>. HIDE DEF old
    <3>. QED BY <3>1, <3>2 DEF Cyclic
  <2>3. CASE old = {}
    <3>1. \A n \in loop : n \in DOMAIN after /\ both[n] = after[n]
      BY <1>1, <2>3
    <3>2. \A n \in loop : Names(after[n].needs) \cap loop # {}
      BY <2>1, <3>1
    <3>3. loop \in (SUBSET DOMAIN after) \ {{}}
      BY <3>1
    <3>. QED BY <3>2, <3>3 DEF Cyclic
  <2>. QED BY <2>2, <2>3
<1>. QED BY <1>2, <1>3, <1>4, <1>5

(* With nothing pending every need of what was chosen is met; the archives say what the
   index said, so it stays met once they count, and merging keeps that and every member's
   answer free of cycles. *)
LEMMA FinishHolds == ResolverInv /\ Finish => ResolverInv'
<1>. SUFFICES ASSUME ResolverInv, Finish PROVE ResolverInv'
  OBVIOUS
<1>1. status = "search" /\ pending = <<>> /\ UNCHANGED <<problem, fetched>>
  BY DEF Finish
<1>2. CASE ~Stands
  <2>1. status' = "error" /\ UNCHANGED <<at, pending, chosen, trail, merged>>
    BY <1>2 DEF Finish
  <2>2. Own' = Own
    BY <1>1, <2>1 DEF Own
  <2>3. SearchInv' /\ TrailInv' /\ FetchedInv'
    BY <1>1, <2>1, <2>2 DEF ResolverInv, SearchInv, TrailInv, FetchedInv
  <2>. QED BY <1>1, <2>1, <2>3, SearchStays
<1>3. CASE Stands
  <2>1. merged' = [n \in DOMAIN merged \cup DOMAIN Settled |->
                     IF n \in DOMAIN merged THEN merged[n] ELSE Settled[n]]
    BY <1>3 DEF Finish, Settled
  <2>2. trail' = <<>>
    BY <1>3 DEF Finish
  <2>3. \/ at = Len(problem.members) /\ status' = "solved" /\ UNCHANGED <<at, pending, chosen>>
        \/ /\ at # Len(problem.members) /\ at' = at + 1 /\ status' = Begin(at + 1).status
           /\ pending' = Begin(at + 1).pending /\ chosen' = Begin(at + 1).chosen
    BY <1>3 DEF Finish
  <2>4. \A n \in DOMAIN chosen : AgreesWithIndex(chosen[n])
    BY <1>3 DEF Stands
  <2>5. /\ \A n \in DOMAIN Settled : IsChosen(problem, n, Settled[n])
                                     /\ \A need \in Range(Settled[n].needs) : Met(need, Settled)
        /\ \A need \in Range(Own) : Met(need, Settled)
    BY <1>1, <2>4, SettledIsMet
  <2>6. ~Cyclic(Settled) /\ SameAs(merged, Settled)
    BY <1>3 DEF Stands
  <2>7. MergedInv
    BY DEF ResolverInv
  <2>8. PICK both : both = merged'
    OBVIOUS
  <2>9. /\ \A need : Met(need, merged) \/ Met(need, Settled) => Met(need, both)
        /\ \A n \in DOMAIN both : IsChosen(problem, n, both[n]) /\ \A need \in Range(both[n].needs) : Met(need, both)
        /\ ~Cyclic(both)
    <3>1. \A n \in DOMAIN merged :
            IsChosen(problem, n, merged[n]) /\ \A need \in Range(merged[n].needs) : Met(need, merged)
      BY <2>7 DEF MergedInv
    <3>2. ~Cyclic(merged)
      BY <2>7 DEF MergedInv
    <3>3. both = [n \in DOMAIN merged \cup DOMAIN Settled |->
                     IF n \in DOMAIN merged THEN merged[n] ELSE Settled[n]]
      BY <2>1, <2>8
    <3>4. PICK settled : settled = Settled
      OBVIOUS
    <3>. QED BY <2>5, <2>6, <3>1, <3>2, <3>3, <3>4, MergedIsMet
  <2>10. problem.members \in Seq(Range(problem.members)) /\ at \in 1 .. Len(problem.members)
         /\ Len(problem.members) \in Nat
    BY DEF ResolverInv, IsWorld
  <2>11. \A i \in DOMAIN problem.members : i <= at =>
           \A need \in Range(MemberNeeds(problem, i)) : IsNeed(need, URLs(problem)) /\ Met(need, both)
    <3>1. \A i \in DOMAIN problem.members : i < at =>
            \A need \in Range(MemberNeeds(problem, i)) : IsNeed(need, URLs(problem)) /\ Met(need, merged)
      BY <2>7 DEF MergedInv
    <3>2. \A i \in DOMAIN problem.members : i <= at => i < at \/ i = at
      BY <2>10
    <3>3. \A need \in Range(Own) : IsNeed(need, URLs(problem))
      BY <1>1 DEF ResolverInv, SearchInv, AreNeeds
    <3>. QED BY <2>5, <2>9, <3>1, <3>2, <3>3 DEF Own
  <2>12. FetchedInv' /\ IsWorld(problem')
    BY <1>1 DEF ResolverInv, FetchedInv
  <2>13. TrailInv'
    BY <2>2, RangeOfNone DEF TrailInv, IsTrail
  <2>14. CASE at = Len(problem.members) /\ status' = "solved" /\ UNCHANGED <<at, pending, chosen>>
    <3>0. Own' = Own
      BY <1>1, <2>14 DEF Own
    <3>1. SearchInv' /\ at' \in DOMAIN problem'.members
      BY <1>1, <2>14, <3>0 DEF ResolverInv, SearchInv
    <3>2. \A i \in DOMAIN problem.members : i <= at
      BY <2>10, <2>14
    <3>3. MergedInv'
      BY <1>1, <2>8, <2>9, <2>11, <3>2 DEF MergedInv
    <3>. QED BY <2>12, <2>13, <3>1, <3>3 DEF ResolverInv
  <2>15. CASE /\ at # Len(problem.members) /\ at' = at + 1 /\ status' = Begin(at + 1).status
              /\ pending' = Begin(at + 1).pending /\ chosen' = Begin(at + 1).chosen
    <3>1. PICK i \in DOMAIN problem.members : i = at + 1
      BY <2>10, <2>15
    <3>2. /\ AreNeeds(Begin(i).pending, URLs(problem)) /\ Branch(problem, Begin(i).chosen)
          /\ Begin(i).status \in {"search", "error"}
          /\ Begin(i).status = "search" =>
               /\ AreNeeds(MemberNeeds(problem, i), URLs(problem))
               /\ Covered(MemberNeeds(problem, i), Begin(i).chosen, Range(Begin(i).pending))
      BY BeginIsCovered DEF ResolverInv
    <3>3. at' = i /\ status' = Begin(i).status /\ pending' = Begin(i).pending /\ chosen' = Begin(i).chosen
      BY <2>15, <3>1
    <3>4. Own' = MemberNeeds(problem, i)
      BY <1>1, <3>3 DEF Own
    <3>5. SearchInv'
      BY <1>1, <3>2, <3>3, <3>4 DEF SearchInv
    <3>6. \A j \in DOMAIN problem.members : j < i => j <= at
      BY <2>10, <3>1
    <3>7. MergedInv'
      BY <1>1, <2>8, <2>9, <2>11, <3>2, <3>3, <3>6 DEF MergedInv
    <3>8. at' \in DOMAIN problem'.members
      BY <1>1, <3>3
    <3>. QED BY <2>12, <2>13, <3>5, <3>7, <3>8 DEF ResolverInv
  <2>. QED BY <2>3, <2>14, <2>15
<1>. QED BY <1>2, <1>3

-----------------------------------------------------------------------------
(* Around the resolution *)

(* What may be chosen depends on the repositories there are, on the lock and on
   what is published. *)
LEMMA WorldsAlike ==
  ASSUME NEW P, NEW Q, URLs(P) = URLs(Q), P.pins = Q.pins, P.registries = Q.registries
  PROVE  /\ \A n, p : IsChosen(P, n, p) => IsChosen(Q, n, p)
         /\ \A packages : Branch(P, packages) => Branch(Q, packages)
         /\ \A own, frames : IsTrail(P, own, frames) => IsTrail(Q, own, frames)
<1>1. ASSUME NEW n, NEW p, IsChosen(P, n, p) PROVE IsChosen(Q, n, p)
  <2>1. IsAllowed(Q, n, p)
    BY <1>1 DEF IsChosen, IsAllowed, IsLocked
  <2>. QED BY <1>1, <2>1 DEF IsChosen
<1>2. ASSUME NEW packages, Branch(P, packages) PROVE Branch(Q, packages)
  BY <1>1, <1>2 DEF Branch
<1>3. ASSUME NEW own, NEW f, IsFrame(P, own, f) PROVE IsFrame(Q, own, f)
  <2>1. \A c \in f.left : IsCandidate(Q, f.need, c)
    BY <1>1, <1>3 DEF IsFrame, IsCandidate
  <2>2. Branch(Q, f.chosen)
    BY <1>2, <1>3 DEF IsFrame
  <2>. QED BY <1>3, <2>1, <2>2 DEF IsFrame
<1>. QED BY <1>1, <1>2, <1>3 DEF IsTrail

(* What a member needs depends on its manifest and on what the registries are
   called. *)
LEMMA NeedsAlike ==
  ASSUME NEW P, NEW Q, P.members = Q.members, P.configured = Q.configured
  PROVE  \A i : MemberNeeds(P, i) = MemberNeeds(Q, i)
<1>1. \A d, from : Want(P, d, from) = Want(Q, d, from)
  BY DEF Want
<1>. QED BY <1>1 DEF MemberNeeds, NeedsOf

(* Everything that is published is yanked. *)
LEMMA YankedRegistries ==
  ASSUME NEW registries, NEW readable, NEW urls, AreRegistries(registries, readable, urls), NEW yanked,
         yanked = [i \in DOMAIN registries |-> [n \in DOMAIN registries[i] |->
                     {[e EXCEPT !.yanked = TRUE] : e \in registries[i][n]}]]
  PROVE  AreRegistries(yanked, {}, urls) /\ DOMAIN yanked = DOMAIN registries
<1>1. ASSUME NEW i \in DOMAIN registries, NEW n \in DOMAIN registries[i]
      PROVE  /\ \A e \in yanked[i][n] : IsEntry(e, urls)
             /\ \A e, f \in yanked[i][n] : e.version = f.version => e = f
  <2>1. /\ \A e \in registries[i][n] : IsEntry(e, urls)
        /\ \A e, f \in registries[i][n] : e.version = f.version => e = f
    BY DEF AreRegistries
  <2>2. yanked[i][n] = {[e EXCEPT !.yanked = TRUE] : e \in registries[i][n]}
    OBVIOUS
  <2>3. ASSUME NEW x \in yanked[i][n]
        PROVE  \E e \in registries[i][n] :
                 /\ x = Entry(e.version, e.needs, e.content, TRUE)
                 /\ x.version = e.version /\ x.needs = e.needs /\ x.content = e.content /\ x.yanked = TRUE
    <3>1. PICK e \in registries[i][n] : x = [e EXCEPT !.yanked = TRUE]
      BY <2>2
    <3>2. PICK version, needs, content, before : e = Entry(version, needs, content, before)
      BY <2>1 DEF IsEntry
    <3>3. x = Entry(version, needs, content, TRUE)
      BY <3>1, <3>2 DEF Entry
    <3>4. e.version = version /\ e.needs = needs /\ e.content = content
      BY <3>2 DEF Entry
    <3>5. x.version = version /\ x.needs = needs /\ x.content = content /\ x.yanked = TRUE
      BY <3>3 DEF Entry
    <3>. QED BY <3>3, <3>4, <3>5
  <2>4. ASSUME NEW x \in yanked[i][n] PROVE IsEntry(x, urls)
    <3>1. PICK e \in registries[i][n] :
            /\ x = Entry(e.version, e.needs, e.content, TRUE)
            /\ x.version = e.version /\ x.needs = e.needs /\ x.content = e.content /\ x.yanked = TRUE
      BY <2>3
    <3>2. x = Entry(x.version, x.needs, x.content, x.yanked)
      BY <3>1
    <3>3. SaysFromWhere(x)
      <4>1. SaysFromWhere(e)
        BY <2>1 DEF IsEntry
      <4>2. Range(x.needs) = Range(e.needs) /\ Range(x.content.dependencies) = Range(e.content.dependencies)
        BY <3>1
      <4>. QED BY <4>1, <4>2 DEF SaysFromWhere
    <3>4. IsVersion(x.version) /\ AreDependencies(x.needs, urls) /\ IsContent(x.content, urls)
      BY <2>1, <3>1 DEF IsEntry
    <3>. QED BY <3>2, <3>3, <3>4 DEF IsEntry
  <2>5. ASSUME NEW x \in yanked[i][n], NEW y \in yanked[i][n], x.version = y.version PROVE x = y
    <3>1. PICK e \in registries[i][n] :
            x = Entry(e.version, e.needs, e.content, TRUE) /\ x.version = e.version
      BY <2>3
    <3>2. PICK f \in registries[i][n] :
            y = Entry(f.version, f.needs, f.content, TRUE) /\ y.version = f.version
      BY <2>3
    <3>3. e = f
      BY <2>1, <2>5, <3>1, <3>2
    <3>. QED BY <3>1, <3>2, <3>3
  <2>. QED BY <2>4, <2>5
<1>2. DOMAIN yanked = DOMAIN registries /\ \A i \in DOMAIN registries : DOMAIN yanked[i] = DOMAIN registries[i]
  OBVIOUS
<1>. QED BY <1>1, <1>2 DEF AreRegistries

(* The lock that is written pins what may be pinned. *)
LEMMA LockedArePins ==
  ASSUME NEW packages, \A n \in DOMAIN packages : IsChosen(problem, n, packages[n]),
         NEW n \in DOMAIN LockOf(packages)
  PROVE  IsPin(LockOf(packages)[n], URLs(problem))
<1>1. n \in DOMAIN packages
  BY DEF LockOf
<1>. DEFINE p == packages[n]
            pin == LockOf(packages)[n]
<1>2. pin.source = p.source /\ (p.source.kind # "path" => pin.content = p.content)
  BY <1>1 DEF LockOf
<1>3. /\ IsSource(p.source) /\ (p.source.kind # "git" => p.source.rev = None)
      /\ IsContent(p.content, URLs(problem))
  BY <1>1 DEF IsChosen
<1>. QED BY <1>2, <1>3 DEF IsPin

(* A lock written from an answer is a lock there may be, and the world it is resolved in
   again is a world. *)
LEMMA AgainHolds == ResolverInv /\ Again => ResolverInv'
<1>. SUFFICES ASSUME ResolverInv, Again PROVE ResolverInv'
  OBVIOUS
<1>. DEFINE yanked == [i \in DOMAIN problem.registries |-> [n \in DOMAIN problem.registries[i] |->
                        {[e EXCEPT !.yanked = TRUE] : e \in problem.registries[i][n]}]]
<1>1. IsWorld(problem) /\ MergedInv
  BY DEF ResolverInv
<1>2. PICK Q : Q = problem'
  OBVIOUS
<1>3. PICK vendors \in BOOLEAN :
        problem' = [problem EXCEPT !.pins = LockOf(merged), !.readable = {}, !.reachable = {},
                      !.locked = TRUE, !.offline = TRUE, !.precise = <<>>, !.pushes = <<>>,
                      !.held = IF vendors THEN {} ELSE {merged[n].content : n \in Fetchable(merged)},
                      !.vendored = IF vendors THEN Vendored(merged) ELSE @,
                      !.registries = [i \in DOMAIN @ |-> [n \in DOMAIN @[i] |->
                        {[e EXCEPT !.yanked = TRUE] : e \in problem.registries[i][n]}]]]
  BY Zenon DEF Again
<1>4. /\ DOMAIN Q = DOMAIN problem /\ Q.members = problem.members /\ Q.directories = problem.directories
      /\ Q.toolchain = problem.toolchain /\ Q.repositories = problem.repositories
      /\ Q.databases = problem.databases /\ Q.configured = problem.configured
  <2>0. DOMAIN problem = {"members", "directories", "toolchain", "repositories", "databases", "registries",
                          "configured", "readable", "reachable", "held", "vendored", "pins", "precise",
                          "locked", "offline", "pushes"}
    BY <1>1 DEF IsWorld
  <2>1. DOMAIN problem' = DOMAIN problem
    BY <1>3, Zenon
  <2>2. problem'.members = problem.members
    BY <1>3, <2>0
  <2>3. problem'.directories = problem.directories
    BY <1>3, <2>0
  <2>4. problem'.toolchain = problem.toolchain
    BY <1>3, <2>0
  <2>5. problem'.repositories = problem.repositories
    BY <1>3, <2>0
  <2>6. problem'.databases = problem.databases
    BY <1>3, <2>0
  <2>7. problem'.configured = problem.configured
    BY <1>3, <2>0
  <2>. QED BY <1>2, <2>1, <2>2, <2>3, <2>4, <2>5, <2>6, <2>7
<1>5. Q.pins = LockOf(merged) /\ Q.readable = {} /\ Q.pushes = <<>> /\ Q.registries = yanked
  <2>0. DOMAIN problem = {"members", "directories", "toolchain", "repositories", "databases", "registries",
                          "configured", "readable", "reachable", "held", "vendored", "pins", "precise",
                          "locked", "offline", "pushes"}
    BY <1>1 DEF IsWorld
  <2>1. problem'.pins = LockOf(merged)
    BY <1>3, <2>0
  <2>2. problem'.readable = {}
    BY <1>3, <2>0
  <2>3. problem'.pushes = <<>>
    BY <1>3, <2>0
  <2>4. problem'.registries = yanked
    BY <1>3, <2>0
  <2>. QED BY <1>2, <2>1, <2>2, <2>3, <2>4
<1>. HIDE DEF yanked
<1>6. URLs(Q) = URLs(problem)
  BY <1>4 DEF URLs
<1>7. AreRegistries(yanked, {}, URLs(problem)) /\ DOMAIN yanked = DOMAIN problem.registries
  <2>1. AreRegistries(problem.registries, problem.readable, URLs(problem))
    BY <1>1 DEF IsWorld, URLs
  <2>2. PICK regs : regs = problem.registries
    OBVIOUS
  <2>3. yanked = [i \in DOMAIN regs |-> [n \in DOMAIN regs[i] |-> {[e EXCEPT !.yanked = TRUE] : e \in regs[i][n]}]]
    BY <2>2 DEF yanked
  <2>. QED BY <2>1, <2>2, <2>3, YankedRegistries
<1>8. \A n \in DOMAIN Q.pins : IsPin(Q.pins[n], URLs(problem))
  BY <1>1, <1>5, LockedArePins DEF MergedInv
<1>9. IsWorld(Q)
  <2>1. DOMAIN Q.pushes = {}
    BY <1>5
  <2>. QED BY <1>1, <1>4, <1>5, <1>7, <1>8, <2>1 DEF IsWorld, URLs
<1>10. /\ at' = 1 /\ status' = Begin(1).status /\ pending' = Begin(1).pending /\ chosen' = Begin(1).chosen
       /\ trail' = <<>> /\ fetched' = {} /\ merged' = <<>>
  BY DEF Again
<1>11. 1 \in DOMAIN problem.members
  BY <1>1 DEF IsWorld
<1>12. /\ AreNeeds(Begin(1).pending, URLs(Q)) /\ Branch(Q, Begin(1).chosen)
       /\ Begin(1).status \in {"search", "error"}
       /\ Begin(1).status = "search" =>
            /\ AreNeeds(MemberNeeds(problem, 1), URLs(Q))
            /\ Covered(MemberNeeds(problem, 1), Begin(1).chosen, Range(Begin(1).pending))
  BY <1>1, <1>6, <1>11, BeginIsCovered
<1>13. MemberNeeds(Q, 1) = MemberNeeds(problem, 1)
  BY <1>4, NeedsAlike
<1>14. SearchInv'
  BY <1>2, <1>10, <1>12, <1>13 DEF SearchInv, Own
<1>15. TrailInv' /\ FetchedInv'
  BY <1>10, RangeOfNone DEF TrailInv, IsTrail, FetchedInv, AreCommits
<1>16. MergedInv'
  <2>1. DOMAIN merged' = {}
    BY <1>10
  <2>2. ~Cyclic(merged')
    BY <2>1 DEF Cyclic
  <2>3. \A i \in DOMAIN Q.members : ~(i < 1)
    BY <1>1, <1>4 DEF IsWorld
  <2>. QED BY <1>2, <1>10, <1>12, <2>1, <2>2, <2>3 DEF MergedInv
<1>. QED BY <1>2, <1>4, <1>9, <1>10, <1>11, <1>14, <1>15, <1>16 DEF ResolverInv

(* Somebody pushing moves the heads of a repository only: nothing that was offered or
   chosen changes with them. *)
LEMMA PushHolds == ResolverInv /\ Push => ResolverInv'
<1>. SUFFICES ASSUME ResolverInv, Push PROVE ResolverInv'
  OBVIOUS
<1>1. IsWorld(problem) /\ MergedInv
  BY DEF ResolverInv
<1>2. PICK Q : Q = problem'
  OBVIOUS
<1>3. PICK url \in DOMAIN problem.pushes :
        problem' = [problem EXCEPT !.repositories[url].heads = problem.pushes[url],
                                   !.pushes = [u \in DOMAIN @ \ {url} |-> @[u]]]
  BY Zenon DEF Push
<1>. DEFINE old == problem.repositories[url]
<1>4. /\ url \in URLs(problem) /\ Range(problem.pushes[url]) \subseteq DOMAIN old.commits
      /\ DOMAIN problem.pushes[url] \cap DOMAIN old.commits = {}
  BY <1>1, <1>3 DEF IsWorld, URLs
<1>5. /\ DOMAIN Q = DOMAIN problem /\ Q.members = problem.members /\ Q.directories = problem.directories
      /\ Q.toolchain = problem.toolchain /\ Q.databases = problem.databases
      /\ Q.configured = problem.configured /\ Q.registries = problem.registries
      /\ Q.readable = problem.readable /\ Q.pins = problem.pins
  <2>1. DOMAIN problem' = DOMAIN problem
    BY <1>3
  <2>2. problem'.members = problem.members
    BY <1>1, <1>3 DEF IsWorld
  <2>3. problem'.directories = problem.directories
    BY <1>1, <1>3 DEF IsWorld
  <2>4. problem'.toolchain = problem.toolchain
    BY <1>1, <1>3 DEF IsWorld
  <2>5. problem'.databases = problem.databases
    BY <1>1, <1>3 DEF IsWorld
  <2>6. problem'.configured = problem.configured
    BY <1>1, <1>3 DEF IsWorld
  <2>7. problem'.registries = problem.registries
    BY <1>1, <1>3 DEF IsWorld
  <2>8. problem'.readable = problem.readable
    BY <1>1, <1>3 DEF IsWorld
  <2>9. problem'.pins = problem.pins
    BY <1>1, <1>3 DEF IsWorld
  <2>. QED BY <1>2, <2>1, <2>2, <2>3, <2>4, <2>5, <2>6, <2>7, <2>8, <2>9
<1>6. /\ Q.repositories = [problem.repositories EXCEPT ![url].heads = problem.pushes[url]]
      /\ Q.pushes = [u \in DOMAIN problem.pushes \ {url} |-> problem.pushes[u]]
  <2>1. problem'.repositories = [problem.repositories EXCEPT ![url].heads = problem.pushes[url]]
    BY <1>1, <1>3 DEF IsWorld
  <2>2. problem'.pushes = [u \in DOMAIN problem.pushes \ {url} |-> problem.pushes[u]]
    BY <1>1, <1>3 DEF IsWorld
  <2>. QED BY <1>2, <2>1, <2>2
<1>7. \A u \in URLs(problem) : IsRepository(problem.repositories[u], URLs(problem))
  BY <1>1 DEF IsWorld, URLs
<1>8. PICK commits, heads, gone : old = [heads |-> heads, commits |-> commits, gone |-> gone]
  BY <1>4, <1>7 DEF IsRepository
<1>9. PICK new : new = [old EXCEPT !.heads = problem.pushes[url]]
  OBVIOUS
<1>10. new = [heads |-> problem.pushes[url], commits |-> commits, gone |-> gone]
  BY <1>8, <1>9
<1>11. new.heads = problem.pushes[url] /\ new.commits = commits /\ new.gone = gone /\ old.commits = commits
  BY <1>8, <1>10
<1>12. /\ URLs(Q) = URLs(problem) /\ Q.repositories[url] = new
       /\ \A u \in URLs(problem) : u # url => Q.repositories[u] = problem.repositories[u]
  BY <1>4, <1>6, <1>9 DEF URLs
<1>. HIDE DEF old
<1>13. \A u \in URLs(problem) :
         /\ IsRepository(Q.repositories[u], URLs(problem))
         /\ Q.repositories[u].commits = problem.repositories[u].commits
  <2>1. IsRepository(new, URLs(problem)) /\ new.commits = problem.repositories[url].commits
    BY <1>4, <1>7, <1>10, <1>11 DEF IsRepository, old
  <2>. QED BY <1>7, <1>12, <2>1
<1>14. DOMAIN Q.pushes \subseteq DOMAIN problem.pushes
       /\ \A u \in DOMAIN Q.pushes : Q.pushes[u] = problem.pushes[u]
  BY <1>6
<1>15. IsWorld(Q)
  <2>1. \A u \in DOMAIN Q.pushes : /\ Range(Q.pushes[u]) \subseteq DOMAIN Q.repositories[u].commits
                                    /\ DOMAIN Q.pushes[u] \cap DOMAIN Q.repositories[u].commits = {}
    BY <1>1, <1>13, <1>14 DEF IsWorld, URLs
  <2>2. DOMAIN Q.repositories = DOMAIN problem.repositories
    BY <1>12 DEF URLs
  <2>. QED BY <1>1, <1>5, <1>13, <1>14, <2>1, <2>2 DEF IsWorld, URLs
<1>16. /\ status \in {"search", "back"}
       /\ UNCHANGED <<at, status, pending, chosen, trail, fetched, merged>>
  BY DEF Push
<1>17. Own' = Own
  BY <1>2, <1>5, <1>16, NeedsAlike DEF Own
<1>18. SearchInv'
  <2>1. Branch(Q, chosen)
    BY <1>5, <1>12, WorldsAlike DEF ResolverInv, SearchInv
  <2>. QED BY <1>2, <1>12, <1>16, <1>17, <2>1 DEF ResolverInv, SearchInv
<1>19. TrailInv'
  <2>1. IsTrail(Q, Own, trail)
    BY <1>5, <1>12, WorldsAlike DEF ResolverInv, TrailInv
  <2>. QED BY <1>2, <1>16, <1>17, <2>1 DEF TrailInv
<1>20. FetchedInv'
  BY <1>2, <1>12, <1>13, <1>16 DEF ResolverInv, FetchedInv, AreCommits
<1>21. MergedInv'
  <2>1. \A n \in DOMAIN merged : IsChosen(Q, n, merged[n])
    BY <1>1, <1>5, <1>12, WorldsAlike DEF MergedInv
  <2>2. \A i \in DOMAIN problem.members : MemberNeeds(Q, i) = MemberNeeds(problem, i)
    BY <1>5, NeedsAlike
  <2>. QED BY <1>1, <1>2, <1>5, <1>12, <1>16, <2>1, <2>2 DEF MergedInv
<1>. QED BY <1>2, <1>5, <1>15, <1>16, <1>18, <1>19, <1>20, <1>21 DEF ResolverInv

-----------------------------------------------------------------------------
(* What the answers are *)

(* The invariant speaks of the variables only. *)
LEMMA StutteringHolds == ResolverInv /\ UNCHANGED vars => ResolverInv'
<1>. SUFFICES ASSUME ResolverInv, UNCHANGED vars PROVE ResolverInv'
  OBVIOUS
<1>1. UNCHANGED <<problem, at, status, pending, chosen, trail, fetched, merged>>
  BY DEF vars
<1>2. Own' = Own
  BY <1>1 DEF Own
<1>3. SearchInv' /\ TrailInv' /\ FetchedInv' /\ MergedInv'
  BY <1>1, <1>2 DEF ResolverInv, SearchInv, TrailInv, FetchedInv, MergedInv
<1>. QED BY <1>1, <1>3 DEF ResolverInv

(* No step leaves it. *)
LEMMA NextHolds == ResolverInv /\ [Next]_vars => ResolverInv'
<1>. SUFFICES ASSUME ResolverInv, [Next]_vars PROVE ResolverInv'
  OBVIOUS
<1>1. CASE Agree
  BY <1>1, AgreeHolds
<1>2. CASE Disagree
  BY <1>2, DisagreeHolds
<1>3. CASE Choose
  BY <1>3, ChooseHolds
<1>4. CASE TryNext
  BY <1>4, TryNextHolds
<1>5. CASE LeavePin
  BY <1>5, LeavePinHolds
<1>6. CASE Exhaust \/ GiveUp
  BY <1>6, ExhaustHolds
<1>7. CASE Finish
  BY <1>7, FinishHolds
<1>8. CASE Again
  BY <1>8, AgainHolds
<1>9. CASE Push
  BY <1>9, PushHolds
<1>10. CASE UNCHANGED vars
  BY <1>10, StutteringHolds
<1>. QED BY <1>1, <1>2, <1>3, <1>4, <1>5, <1>6, <1>7, <1>8, <1>9, <1>10 DEF Next, Resolve

(* A need that is met by the version's comparison is met by what it means. *)
LEMMA MetIsSatisfied ==
  ASSUME NEW need, IsNeed(need, URLs(problem)), NEW packages, Met(need, packages),
         \A n \in DOMAIN packages : IsChosen(problem, n, packages[n])
  PROVE  Satisfied(packages, need)
<1>. DEFINE p == packages[need.name]
<1>1. need.name \in DOMAIN packages /\ Matches(need.requirement, p.version) /\ WantMatches(need.want, p.source)
  BY DEF Met
<1>2. IsVersion(p.version)
  BY <1>1 DEF IsChosen
<1>3. (\A i \in DOMAIN need.requirement : IsComparator(need.requirement[i])) /\ need.want.rev = None
  BY DEF IsNeed
<1>. HIDE DEF p
<1>4. Accepts(need.requirement, p.version)
  BY <1>1, <1>2, <1>3, MatchesAreAccepted
<1>5. [p.source EXCEPT !.rev = need.want.rev] = need.want
  BY <1>1, <1>3 DEF WantMatches
<1>. QED BY <1>1, <1>4, <1>5 DEF Satisfied, p

(* The invariant says what has to be shown of an answer. *)
LEMMA InvSelects == ResolverInv => SelectsASolution
<1>. SUFFICES ASSUME ResolverInv, status = "solved"
              PROVE  /\ \A n \in DOMAIN merged : merged[n].source.kind = "registry" =>
                          \A e \in problem.registries[merged[n].source.place][n] :
                            e.yanked /\ merged[n].version = e.version
                              => IsLocked(problem, n, merged[n].source, e.version)
                     /\ \A i \in DOMAIN problem.members : IsClosed(merged, MemberNeeds(problem, i))
                     /\ ~Cyclic(merged)
  BY DEF SelectsASolution, Ended
<1>1. /\ \A n \in DOMAIN merged : IsChosen(problem, n, merged[n])
      /\ \A n \in DOMAIN merged : \A need \in Range(merged[n].needs) : Met(need, merged)
      /\ \A i \in DOMAIN problem.members : \A need \in Range(MemberNeeds(problem, i)) :
           IsNeed(need, URLs(problem)) /\ Met(need, merged)
      /\ ~Cyclic(merged)
  BY DEF ResolverInv, MergedInv
<1>2. ASSUME NEW n \in DOMAIN merged, merged[n].source.kind = "registry",
             NEW e \in problem.registries[merged[n].source.place][n],
             e.yanked, merged[n].version = e.version
      PROVE  IsLocked(problem, n, merged[n].source, e.version)
  <2>. DEFINE p == merged[n]
              entries == problem.registries[p.source.place][n]
  <2>1. \/ IsLocked(problem, n, p.source, p.version)
        \/ /\ p.source.place \in DOMAIN problem.registries /\ n \in DOMAIN problem.registries[p.source.place]
           /\ \E f \in entries : ~f.yanked /\ f.version = p.version
    BY <1>1, <1>2 DEF IsChosen, IsAllowed
  <2>2. CASE IsLocked(problem, n, p.source, p.version)
    BY <1>2, <2>2
  <2>3. CASE /\ p.source.place \in DOMAIN problem.registries /\ n \in DOMAIN problem.registries[p.source.place]
             /\ \E f \in entries : ~f.yanked /\ f.version = p.version
    <3>1. PICK f \in entries : ~f.yanked /\ f.version = p.version
      BY <2>3
    <3>2. \A x, y \in entries : x.version = y.version => x = y
      BY <2>3 DEF ResolverInv, IsWorld, AreRegistries
    <3>3. e = f
      BY <1>2, <3>1, <3>2
    <3>. QED BY <1>2, <3>1, <3>3
  <2>. QED BY <2>1, <2>2, <2>3
<1>3. ASSUME NEW i \in DOMAIN problem.members PROVE IsClosed(merged, MemberNeeds(problem, i))
  <2>1. \A need \in Range(MemberNeeds(problem, i)) : Satisfied(merged, need)
    BY <1>1, MetIsSatisfied
  <2>2. ASSUME NEW n \in DOMAIN merged, NEW need \in Range(merged[n].needs) PROVE Satisfied(merged, need)
    <3>1. IsNeed(need, URLs(problem))
      BY <1>1 DEF IsChosen, AreNeeds
    <3>. QED BY <1>1, <3>1, MetIsSatisfied
  <2>. QED BY <2>1, <2>2 DEF IsClosed
<1>. QED BY <1>1, <1>2, <1>3

(* Whatever lock, registries, repositories and directories a workspace is
   resolved against, and however often the search has backtracked: what
   `resolve_workspace` answers meets every requirement of every member and of
   every package in it, has no cycle, and has a yanked version only where the
   lock names it. *)
THEOREM AnswersAreSolutions == Spec => []SelectsASolution
BY InitHolds, NextHolds, InvSelects, PTL DEF Spec
=============================================================================
