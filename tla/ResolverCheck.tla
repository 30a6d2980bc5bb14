---------------------------- MODULE ResolverCheck ----------------------------
(***************************************************************************)
(* What Resolver's search comes to is held against what an answer has to    *)
(* be: the choices of packages that meet every requirement, enumerated.     *)
(***************************************************************************)
EXTENDS Resolver

-----------------------------------------------------------------------------
(* What comes before what: field by field, and after its numbers a release has
   something that is above any identifier. *)
Key(v) ==
  <<<<0, v.core[1]>>, <<0, v.core[2]>>, <<0, v.core[3]>>>> \o IF v.pre = <<>> THEN <<<<2, 0>>>> ELSE v.pre

Precedes(v, w) ==
  LET x == Key(v)  y == Key(w)
  IN \E i \in 1 .. Len(y) :
       /\ \A j \in 1 .. i - 1 : j <= Len(x) /\ x[j] = y[j]
       /\ i <= Len(x) => x[i][1] < y[i][1] \/ (x[i][1] = y[i][1] /\ x[i][2] < y[i][2])

(* What a requirement means: the versions from its bound up to, and without,
   the first that changes a field it holds (`D-036`). *)

Bump(core, field) ==
  [i \in 1 .. 3 |-> CASE i < field -> core[i] [] i = field -> core[i] + 1 [] i > field -> 0]

(* The leftmost field that is not zero, or the last one that is written. *)
Leading(c) ==
  LET set == {i \in 1 .. c.fields : c.version.core[i] # 0}
  IN IF set = {} THEN c.fields ELSE CHOOSE i \in set : \A j \in set : i <= j

InRange(c, v) ==
  LET from(field) == ~Precedes(v, c.version) /\ CoreBelow(v.core, Bump(c.version.core, field))
  IN CASE c.op = "^"  -> from(Leading(c))
       [] c.op = "~"  -> from(IF c.fields = 1 THEN 1 ELSE 2)
       [] c.op = "="  -> IF c.fields = 3 THEN v = c.version
                         ELSE ~CoreBelow(v.core, c.version.core)
                              /\ CoreBelow(v.core, Bump(c.version.core, c.fields))
       [] c.op = ">"  -> Precedes(c.version, v)
       [] c.op = "<"  -> Precedes(v, c.version)
       [] c.op = ">=" -> Precedes(c.version, v) \/ v = c.version
       [] c.op = "<=" -> Precedes(v, c.version) \/ v = c.version

(* "A prerelease is never selected unless a requirement names one." *)
Accepts(requirement, v) ==
  /\ \A i \in DOMAIN requirement : InRange(requirement[i], v)
  /\ \/ v.pre = <<>>
     \/ \E i \in DOMAIN requirement :
          requirement[i].version.core = v.core /\ requirement[i].version.pre # <<>>

-----------------------------------------------------------------------------
(* What an answer has to be *)

IsLocked(P, n, source, v) ==
  n \in DOMAIN P.pins /\ P.pins[n].source = source /\ P.pins[n].version = v

(* One commit per reference: the lock's, or the one this run has found, or
   where the head is. *)
FoundFor(want) ==
  {f.rev : f \in {g \in fetched : g.url = want.place /\ g.reference = want.reference}}

Tip(P, want) ==
  LET repository == P.repositories[want.place]
  IN IF want.reference \in DOMAIN repository.heads THEN {repository.heads[want.reference]}
     ELSE {want.reference} \cap DOMAIN repository.commits

Commits(P, n, want) ==
  IF n \in DOMAIN P.pins /\ WantMatches(want, P.pins[n].source) THEN {P.pins[n].source.rev}
  ELSE IF FoundFor(want) # {} THEN FoundFor(want)
  ELSE Tip(P, want)

(* Where the packages of a name may come from. *)
Wants(P) ==
  LET deps(content) == Range(content.dependencies)
      contents == {P.members[i].content : i \in DOMAIN P.members} \cup Range(P.directories)
                  \cup Range(P.toolchain)
                  \cup UNION {Range(P.repositories[u].commits) \ {None} : u \in DOMAIN P.repositories}
  IN UNION {{d.source : d \in deps(c)} : c \in contents}

Of(source, content) == [source |-> source, content |-> content]

(* What is published and not yanked, or locked. *)
Published(P, n) ==
  LET from(i) == Source("registry", i, None, None)
      offered(i) == {e \in P.registries[i][n] : ~e.yanked \/ IsLocked(P, n, from(i), e.version)}
  IN UNION {{Of(from(i), e.content) : e \in offered(i)}
            : i \in {j \in DOMAIN P.registries : n \in DOMAIN P.registries[j]}}

InDirectories(P) ==
  {Of(Source("path", d, None, None), P.directories[d]) : d \in DOMAIN P.directories}
  \cup {Of(Source("path", P.members[i].dir, None, None), P.members[i].content) : i \in DOMAIN P.members}

AtCommits(P, n, w) ==
  {Of([w EXCEPT !.rev = c], P.repositories[w.place].commits[c]) : c \in Commits(P, n, w)}

InRepositories(P, n) == UNION {AtCommits(P, n, w) : w \in {x \in Wants(P) : x.kind = "git"}}

Contents(P, n) ==
  {o \in Published(P, n) \cup InDirectories(P) \cup InRepositories(P, n)
         \cup {Of(Toolchain, P.toolchain[t]) : t \in DOMAIN P.toolchain} :
     o.content # None /\ o.content.name = n /\ Lawful(P, o.content, o.source)}

(* The packages a name may be: published and not yanked, or pinned, or fixed;
   and the version --precise demands, if it does. *)
Candidates(P, n) ==
  {Package(n, o.content.version, o.source, o.content, NeedsOf(P, o.content, o.source), FALSE)
   : o \in {x \in Contents(P, n) : n \in DOMAIN P.precise => x.content.version = P.precise[n]}}

Satisfied(packages, need) ==
  /\ need.name \in DOMAIN packages
  /\ Accepts(need.requirement, packages[need.name].version)
  /\ [packages[need.name].source EXCEPT !.rev = need.want.rev] = need.want

(* Every requirement is met: the member's, and those of whatever was chosen. *)
IsClosed(packages, needs) ==
  /\ \A need \in Range(needs) : Satisfied(packages, need)
  /\ \A n \in DOMAIN packages : \A need \in Range(packages[n].needs) : Satisfied(packages, need)

MemberNeeds(P, i) ==
  NeedsOf(P, P.members[i].content, Source("path", P.members[i].dir, None, None))

(* A member is what it is. *)
Member(P, i) ==
  LET root == P.members[i].content IN
    Package(root.name, root.version, Source("path", P.members[i].dir, None, None), root,
            MemberNeeds(P, i), FALSE)

AllNames(P) ==
  (UNION {DOMAIN P.registries[i] : i \in DOMAIN P.registries}) \cup DOMAIN P.toolchain
  \cup {P.members[i].content.name : i \in DOMAIN P.members}
  \cup {P.directories[d].name : d \in DOMAIN P.directories}
  \cup UNION {{c.name : c \in Range(P.repositories[u].commits) \ {None}} : u \in DOMAIN P.repositories}

(* Every closed choice of packages that goes with a member. *)
Solutions(P, i) ==
  LET root == Member(P, i)
      others == AllNames(P) \ {root.name}
      choices(names) == {f \in [names -> UNION {Candidates(P, n) : n \in names}] :
                           \A n \in names : f[n] \in Candidates(P, n)}
  IN UNION {{f \in {Extend(g, root.name, root) : g \in choices(names)} : IsClosed(f, root.needs)}
            : names \in SUBSET others}

(* An archive is what its index entry says it is, and what the lock says. *)
Says(dependencies) ==
  {[name |-> d.name, requirement |-> d.requirement] : d \in Range(dependencies)}

IsTrue(P, n, from, e) ==
  /\ Lawful(P, e.content, from) /\ e.content.name = n /\ e.content.version = e.version
  /\ Says(e.needs) = Says(e.content.dependencies)
  /\ IsLocked(P, n, from, e.version) => e.content = P.pins[n].content

(* A commit has what the lock says of it. *)
IsCommitOf(P, pin) ==
  /\ pin.source.place \in DOMAIN P.repositories
  /\ pin.source.rev \in DOMAIN P.repositories[pin.source.place].commits
  /\ P.repositories[pin.source.place].commits[pin.source.rev] = pin.content

IsHonest(P) ==
  /\ \A i \in DOMAIN P.registries : \A n \in DOMAIN P.registries[i] : \A e \in P.registries[i][n] :
       IsTrue(P, n, Source("registry", i, None, None), e)
  /\ \A n \in DOMAIN P.pins : P.pins[n].source.kind = "git" => IsCommitOf(P, P.pins[n])

(* Nothing that is there to be read is out of reach, wrong, or tied in a knot,
   and the members have nothing to disagree about. *)
IsSound(P) ==
  LET every(n) == Contents(P, n)
      edges == UNION {{<<n, d.name>> : d \in UNION {Range(o.content.dependencies) : o \in every(n)}}
                      : n \in AllNames(P)}
      below[k \in Nat] == IF k = 0 THEN edges
                          ELSE below[k - 1] \cup
                               {<<e[1], f[2]>> : e \in below[k - 1], f \in edges}
  IN /\ IsHonest(P) /\ ~P.locked /\ ~P.offline /\ P.vendored.kinds = {}
     /\ P.reachable = DOMAIN P.repositories
     /\ \A u \in DOMAIN P.repositories : P.repositories[u].gone = {}
     /\ \A i \in DOMAIN P.registries : DOMAIN P.registries[i] \subseteq P.readable
     /\ \A i \in DOMAIN P.members :
          /\ Lawful(P, P.members[i].content, Source("path", P.members[i].dir, None, None))
          /\ Cardinality({d \in Range(P.members[i].content.dependencies) :
                            \E o \in every(d.name) : o.content.items}) <= 1
     /\ \A n \in AllNames(P) :
          Cardinality(every(n)) = 1 \/ (Len(P.members) = 1 /\ every(n) # {})
     /\ \A e \in below[Cardinality(AllNames(P))] : e[1] # e[2]
     /\ \A w \in Wants(P) : w.kind = "git" =>
          \A i \in DOMAIN P.members : \A d \in Range(P.members[i].content.dependencies) :
            d.source = w => \E c \in Commits(P, d.name, w) :
              P.repositories[w.place].commits[c] # None
              /\ P.repositories[w.place].commits[c].name = d.name

(* How the first run ended. *)
Ended(how) == status = how /\ first = None

-----------------------------------------------------------------------------
(* Properties *)

(* What is built is closed under what the archives themselves declare: one
   version of one source per name, and every requirement of every member and
   every package met by it (`D-036`, `D-038`, `D-055`), with no cycle; and a
   yanked version is there only because the lock names it already. *)
SelectsASolution ==
  Ended("solved") =>
    /\ \A n \in DOMAIN merged : merged[n].source.kind = "registry" =>
         \A e \in problem.registries[merged[n].source.place][n] :
           e.yanked /\ merged[n].version = e.version
             => IsLocked(problem, n, merged[n].source, e.version)
    /\ \A i \in DOMAIN problem.members : IsClosed(merged, MemberNeeds(problem, i))
    /\ ~Cyclic(merged)

(* "Selection is maximal with backtracking" (docs/packaging.md): a member is
   refused for want of versions only when no choice of versions works.  And a
   workspace with nothing wrong in what it reads is not refused for anything
   else, whoever pushes to its repositories meanwhile. *)
FailsOnlyIfUnsolvable ==
  /\ Ended("dead") /\ IsHonest(problem) => Solutions(problem, at) = {}
  /\ Ended("error") => ~IsSound(problem)

(* Without pins, and with an index that tells the truth, nothing could be newer:
   exchanging one package for a newer one leaves a requirement unmet. *)
NothingNewerFits ==
  Ended("solved") /\ IsHonest(problem) /\ DOMAIN problem.pins = {} /\ Len(problem.members) = 1 =>
    \A n \in DOMAIN merged \ {problem.members[1].content.name} :
      \A c \in Candidates(problem, n) :
        Precedes(merged[n].version, c.version) =>
          ~IsClosed(Extend(merged, n, c), MemberNeeds(problem, 1))

(* With the lock an answer is written as, the workspace resolves to that answer
   again under --frozen: with no index to read, no git to run, and every version
   of it yanked since ("a fully pinned graph never reads an index at all").  And
   so it does from vendored copies alone, with nothing in the store: "vendoring
   cannot change what a project resolves to" (`D-047`). *)
AnswerIsStable ==
  first # None =>
    /\ status \notin {"dead", "error"} /\ reads = {} /\ fetched = {}
    /\ status = "solved" => LockOf(merged) = first

(* A pin moves only if it must: unless everything the lock does not name came
   out as it did, and every pin stood, the requirements could not be met.  With
   the pin of one package thrown away this is what `update -p` promises: it is
   "what lets the lock's diff prove what moved" (main.rs, Update). *)
PinsMoveOnlyIfTheyMust ==
  Ended("solved") /\ IsHonest(problem) /\ Len(problem.members) = 1 =>
    LET own == problem.members[1].content.name IN
    \A f \in Solutions(problem, 1) :
      (\A n \in DOMAIN f \ {own} :
         IF n \in DOMAIN problem.pins THEN IsLocked(problem, n, f[n].source, f[n].version)
         ELSE n \in DOMAIN merged => f[n].version = merged[n].version)
      => \A n \in (DOMAIN problem.pins \cap DOMAIN merged) \ {own} :
           IsLocked(problem, n, merged[n].source, merged[n].version)

(* Pins, cycles of packages and dead branches notwithstanding, the search comes
   to an end. *)
SearchEnds == <>[](status \in {"solved", "dead", "error"})
=============================================================================
