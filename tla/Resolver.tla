------------------------------ MODULE Resolver ------------------------------
(***************************************************************************)
(* Version selection (resolve.rs): a depth-first search with backtracking   *)
(* over the requirements of a manifest, the lockfile's pins first and then  *)
(* what the registry publishes, newest first; each member of a workspace on *)
(* its own, and their union checked to be one version per name.  The search *)
(* is recursive in the code; here its frames are the variable `trail`.      *)
(*                                                                          *)
(* The world of a resolution is a record described in Sources.              *)
(***************************************************************************)
EXTENDS Sources

CONSTANT Problems    \* the worlds picked from

ASSUME NoneAssumption == ~IsVersion(None)

ASSUME ProblemAssumption == \A P \in Problems : IsWorld(P)

VARIABLES
  problem,     \* the world
  at,          \* the member that is being resolved
  status,      \* "search", "back" (the branch is dead), "solved", "dead", "error"
  pending,     \* needs still to be met, in order
  chosen,      \* name |-> the package chosen for it
  trail,       \* for each name chosen on the way: the candidates left for it
  reads,       \* names whose index was read
  fetched,     \* what git was run for, and the commit it found
  merged,      \* what the members before agreed on
  first        \* the lock written for the problem, once it is resolved again

vars == <<problem, at, status, pending, chosen, trail, reads, fetched, merged, first>>

Extend(f, x, y) == [z \in DOMAIN f \cup {x} |-> IF z = x THEN y ELSE f[z]]

Matching(need, all) ==
  {c \in all : /\ Matches(need.requirement, c.version)
               /\ need.name \in DOMAIN problem.precise => c.version = problem.precise[need.name]}

-----------------------------------------------------------------------------
(* The search *)

(* resolve: the member itself is chosen, and its needs are pending. *)
Begin(i) ==
  LET root   == problem.members[i].content
      source == Source("path", problem.members[i].dir, None, None)
      lawful == Lawful(problem, root, source)
      needs  == IF lawful THEN NeedsOf(problem, root, source) ELSE <<>>
  IN [status  |-> IF lawful THEN "search" ELSE "error",
      pending |-> needs,
      chosen  |-> [n \in {root.name} |->
                     Package(root.name, root.version, source, root, needs, FALSE)]]

Init ==
  /\ problem \in Problems
  /\ at = 1
  /\ LET begun == Begin(1) IN
       status = begun.status /\ pending = begun.pending /\ chosen = begun.chosen
  /\ trail = <<>> /\ reads = {} /\ fetched = {} /\ merged = <<>> /\ first = None

Searching == status = "search" /\ pending # <<>>

Fits(need) ==
  /\ need.name \in DOMAIN chosen
  /\ Matches(need.requirement, chosen[need.name].version)
  /\ WantMatches(need.want, chosen[need.name].source)

(* Mutant: a name chosen already will do. *)
MutantFirstServed ==
  /\ Searching
  /\ Head(pending).name \in DOMAIN chosen
  /\ pending' = Tail(pending)
  /\ UNCHANGED <<problem, at, status, chosen, trail, reads, fetched, merged, first>>

(* A name chosen already, of a version and a source that will do. *)
Agree ==
  /\ Searching
  /\ Fits(Head(pending))
  /\ pending' = Tail(pending)
  /\ UNCHANGED <<problem, at, status, chosen, trail, reads, fetched, merged, first>>

(* A name chosen already that will not do.  Only to say why, the source is asked
   for everything it offers. *)
Disagree ==
  /\ Searching
  /\ Head(pending).name \in DOMAIN chosen /\ ~Fits(Head(pending))
  /\ LET said == Options(problem, Head(pending), FALSE, fetched) IN
       /\ status' = IF said.ok THEN "back" ELSE "error"
       /\ reads' = reads \cup said.reads
       /\ fetched' = fetched \cup said.fetches
  /\ UNCHANGED <<problem, at, pending, chosen, trail, merged, first>>

(* try_each: candidates to try for the first of the pending needs; `pin` is the
   lock's version among them, or None when everything published is. *)
Frame(left, pin) ==
  [need |-> Head(pending), left |-> left, pin |-> pin,
   pending |-> Tail(pending), chosen |-> chosen]

(* Mutant: when the pin does not work out, nothing else is tried. *)
MutantPinOrNothing ==
  /\ Searching
  /\ Head(pending).name \notin DOMAIN chosen
  /\ LET offered == Options(problem, Head(pending), TRUE, fetched) IN
       /\ reads' = reads \cup offered.reads
       /\ fetched' = fetched \cup offered.fetches
       /\ status' = IF offered.ok THEN "back" ELSE "error"
       /\ trail' = Append(trail, Frame(Matching(Head(pending), offered.all), None))
  /\ UNCHANGED <<problem, at, pending, chosen, merged, first>>

(* Mutant: what is published is tried, whatever the lock says. *)
MutantIgnoresPin ==
  /\ Searching
  /\ Head(pending).name \notin DOMAIN chosen
  /\ LET offered == Options(problem, Head(pending), FALSE, fetched) IN
       /\ reads' = reads \cup offered.reads
       /\ fetched' = fetched \cup offered.fetches
       /\ status' = IF offered.ok THEN "back" ELSE "error"
       /\ trail' = Append(trail, Frame(Matching(Head(pending), offered.all), None))
  /\ UNCHANGED <<problem, at, pending, chosen, merged, first>>

(* A name nothing was chosen for: the pin first, if there is one. *)
Choose ==
  /\ Searching
  /\ Head(pending).name \notin DOMAIN chosen
  /\ LET offered == Options(problem, Head(pending), TRUE, fetched) IN
       /\ reads' = reads \cup offered.reads
       /\ fetched' = fetched \cup offered.fetches
       /\ status' = IF offered.ok THEN "back" ELSE "error"
       /\ trail' = IF ~offered.ok THEN trail
                   ELSE Append(trail, Frame(Matching(Head(pending), offered.all),
                          IF offered.pinned THEN problem.pins[Head(pending).name].version ELSE None))
  /\ UNCHANGED <<problem, at, pending, chosen, merged, first>>

Backing == status = "back" /\ trail # <<>>

(* Mutant: the oldest version comes first. *)
MutantIsOldest(c, candidates) == \A o \in candidates : ~Below(o.version, c.version)

(* published: newest first. *)
IsNewest(c, candidates) == \A o \in candidates : ~Below(c.version, o.version)

(* try_each: the next candidate, whose own needs are put last. *)
TryNext ==
  /\ Backing
  /\ LET top == Last(trail) IN
       \E c \in top.left :
         /\ IsNewest(c, top.left)
         /\ status' = "search"
         /\ trail' = Append(Front(trail), [top EXCEPT !.left = @ \ {c}])
         /\ pending' = top.pending \o c.needs
         /\ chosen' = Extend(top.chosen, top.need.name, c)
  /\ UNCHANGED <<problem, at, reads, fetched, merged, first>>

(* Mutant: what is tried instead of the pin counts as the pin again. *)
MutantKeepPin ==
  /\ Backing
  /\ LET top == Last(trail)
         all == Options(problem, top.need, FALSE, fetched) IN
       /\ top.left = {} /\ top.pin # None
       /\ reads' = reads \cup all.reads
       /\ fetched' = fetched \cup all.fetches
       /\ status' = IF all.ok THEN "back" ELSE "error"
       /\ trail' = Append(Front(trail), [top EXCEPT
                     !.left = Matching(top.need,
                                {c \in all.all : c.version # top.pin})])
  /\ UNCHANGED <<problem, at, pending, chosen, merged, first>>

(* The pin did not work out: everything else that is published. *)
LeavePin ==
  /\ Backing
  /\ LET top == Last(trail)
         all == Options(problem, top.need, FALSE, fetched) IN
       /\ top.left = {} /\ top.pin # None
       /\ reads' = reads \cup all.reads
       /\ fetched' = fetched \cup all.fetches
       /\ status' = IF all.ok THEN "back" ELSE "error"
       /\ trail' = Append(Front(trail), [top EXCEPT !.pin = None,
                     !.left = Matching(top.need,
                                {c \in all.all : c.version # top.pin})])
  /\ UNCHANGED <<problem, at, pending, chosen, merged, first>>

(* No candidate is left: back to the name before, and there is no answer when
   there is none. *)
Exhaust ==
  /\ Backing
  /\ Last(trail).left = {} /\ Last(trail).pin = None
  /\ trail' = Front(trail)
  /\ UNCHANGED <<problem, at, status, pending, chosen, reads, fetched, merged, first>>

GiveUp ==
  /\ status = "back" /\ trail = <<>>
  /\ status' = "dead"
  /\ UNCHANGED <<problem, at, pending, chosen, trail, reads, fetched, merged, first>>

-----------------------------------------------------------------------------
(* What becomes of a member's answer *)

Names(needs) == {need.name : need \in Range(needs)}

Bag(needs) ==
  {[name |-> n.name, requirement |-> n.requirement,
    times |-> Cardinality({i \in DOMAIN needs : needs[i].name = n.name
                                               /\ needs[i].requirement = n.requirement})]
   : n \in Range(needs)}

(* Mutant: what the archive declares is not compared with the index. *)
MutantTrustIndex(p) == p.indexed => Lawful(problem, p.content, p.source)

(* settle and check_against_index: what the index offered is fetched, and is
   what it was said to be: names and requirements in any order; sources are not
   compared. *)
AgreesWithIndex(p) ==
  p.indexed =>
    /\ CanMaterialize(problem, p.name, p.source, p.content)
    /\ p.content.name = p.name /\ p.content.version = p.version
    /\ Lawful(problem, p.content, p.source)
    /\ Bag(p.needs) = Bag(NeedsOf(problem, p.content, p.source))

(* What a package's own manifest declares is what counts. *)
Settled ==
  [n \in DOMAIN chosen |->
     IF chosen[n].indexed
     THEN [chosen[n] EXCEPT !.needs = NeedsOf(problem, chosen[n].content, chosen[n].source)]
     ELSE chosen[n]]

(* collect_language_items: what defines the language's own names, among the
   direct dependencies. *)
Libraries(needs) == {n \in Names(needs) : chosen[n].content.items}

(* reject_cycles: from some packages dependence leads only back to them. *)
Cyclic(packages) ==
  \E loop \in (SUBSET DOMAIN packages) \ {{}} : \A n \in loop : Names(packages[n].needs) \cap loop # {}

(* resolve_workspace: the names the members before have chosen are the same. *)
SameAs(before, after) ==
  \A n \in DOMAIN before \cap DOMAIN after :
    before[n].version = after[n].version /\ before[n].source = after[n].source

(* One version and one source per name, one standard library, and no cycle. *)
Stands ==
  /\ \A n \in DOMAIN chosen : AgreesWithIndex(chosen[n])
  /\ Cardinality(Libraries(Begin(at).pending)) <= 1
  /\ ~Cyclic(Settled) /\ SameAs(merged, Settled)

(* Nothing is pending: the member's answer is settled, checked and merged with
   those of the members before, and the next member is begun. *)
Finish ==
  /\ status = "search" /\ pending = <<>>
  /\ \/ /\ Stands
        /\ merged' = [n \in DOMAIN merged \cup DOMAIN chosen |->
                        IF n \in DOMAIN merged THEN merged[n] ELSE Settled[n]]
        /\ trail' = <<>>
        /\ IF at = Len(problem.members)
           THEN status' = "solved" /\ UNCHANGED <<at, pending, chosen>>
           ELSE LET begun == Begin(at + 1) IN
                  /\ at' = at + 1
                  /\ status' = begun.status
                  /\ pending' = begun.pending /\ chosen' = begun.chosen
     \/ /\ ~Stands
        /\ status' = "error"
        /\ UNCHANGED <<at, pending, chosen, trail, merged>>
  /\ UNCHANGED <<problem, reads, fetched, first>>

-----------------------------------------------------------------------------
(* Around the resolution *)

(* Lockfile::from_packages: one entry per name, and what each depends on. *)
LockOf(packages) ==
  [n \in DOMAIN packages |->
     [version |-> packages[n].version, source |-> packages[n].source,
      content |-> IF packages[n].source.kind = "path" THEN None ELSE packages[n].content,
      dependencies |-> Names(packages[n].needs)]]

(* The packages with bytes of their own: what is in the store afterwards. *)
Fetchable(packages) == {n \in DOMAIN packages : packages[n].source.kind # "path"}

(* redirect_sources: a source that something was copied of, is replaced. *)
Redirected(packages) == {packages[n].source.kind : n \in Fetchable(packages)}

(* Mutant: only what a registry offers is copied. *)
MutantVendored(packages) ==
  LET names == {n \in Fetchable(packages) : packages[n].source.kind = "registry"}
  IN [kinds  |-> Redirected(packages),
      copies |-> [n \in names |-> packages[n].content]]

(* vendor: copies of all of them, and their sources redirected to the copies. *)
Vendored(packages) ==
  [kinds  |-> Redirected(packages),
   copies |-> [n \in Fetchable(packages) |-> packages[n].content]]

(* Another run with the lock that was written, under --frozen: no index can be
   read, every version was yanked since, no repository is there any more, and the
   packages are in the store, or else vendored. *)
Again ==
  /\ status = "solved" /\ first = None
  /\ first' = LockOf(merged)
  /\ \E vendors \in BOOLEAN :
       problem' = [problem EXCEPT !.pins = LockOf(merged), !.readable = {}, !.reachable = {},
                     !.locked = TRUE, !.offline = TRUE, !.precise = <<>>, !.pushes = <<>>,
                     !.held = IF vendors THEN {} ELSE {merged[n].content : n \in Fetchable(merged)},
                     !.vendored = IF vendors THEN Vendored(merged) ELSE @,
                     !.registries = [i \in DOMAIN @ |-> [n \in DOMAIN @[i] |->
                       {[e EXCEPT !.yanked = TRUE] : e \in problem.registries[i][n]}]]]
  /\ at' = 1
  /\ status' = Begin(1).status
  /\ pending' = Begin(1).pending /\ chosen' = Begin(1).chosen
  /\ trail' = <<>> /\ reads' = {} /\ fetched' = {} /\ merged' = <<>>

(* Somebody pushes while the workspace is being resolved. *)
Push ==
  /\ status \in {"search", "back"}
  /\ \E url \in DOMAIN problem.pushes :
       problem' = [problem EXCEPT !.repositories[url].heads = problem.pushes[url],
                     !.pushes = [u \in DOMAIN @ \ {url} |-> @[u]]]
  /\ UNCHANGED <<at, status, pending, chosen, trail, reads, fetched, merged, first>>

Resolve ==
  Agree \/ Disagree \/ Choose \/ TryNext \/ LeavePin \/ Exhaust \/ GiveUp \/ Finish

Next == Resolve \/ Again \/ Push

(* A resolution that has something left to do goes on. *)
Spec == Init /\ [][Next]_vars /\ WF_vars(Resolve)

=============================================================================
