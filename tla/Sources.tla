------------------------------ MODULE Sources ------------------------------
(***************************************************************************)
(* Where the packages of a resolution come from (source.rs, sources.rs,     *)
(* git.rs and the package constructors of resolve.rs): directories, the     *)
(* library bundled with the compiler, commits of git repositories and the   *)
(* versions a registry publishes, any of them replaced by vendored copies.  *)
(*                                                                          *)
(* The bytes of a package stand for its checksum, and what its manifest     *)
(* says stands for its bytes.  A world is a record of all a resolution      *)
(* consults:                                                                *)
(*   members     the workspace's packages, [dir, content], in order         *)
(*   directories dir |-> content                                            *)
(*   toolchain   name |-> content                                           *)
(*   repositories url |-> [heads, commits, gone]: reference |-> commit,     *)
(*               commit |-> content, None when it is not a package, and the *)
(*               commits that have been rewritten away                      *)
(*   databases   url |-> the commits fetched from it by earlier runs        *)
(*   registries  index |-> name |-> the entries of its index                *)
(*   configured  what .slopium/config.toml calls the registries             *)
(*   readable    names whose index entries this run can read                *)
(*   reachable   the repositories git can reach                             *)
(*   held        the contents the package store holds                       *)
(*   vendored    [kinds, copies]: the sources that are replaced, and name   *)
(*               |-> the copy                                               *)
(*   pins        name |-> the lock's entry, less what an update throws away *)
(*   precise     name |-> the version --precise demands                     *)
(*   locked, offline   whether the options were given                       *)
(*   pushes      url |-> the heads somebody pushes while the run goes on    *)
(***************************************************************************)
EXTENDS Versions, FiniteSets, SequencesExt

CONSTANT None

(* A source: of a manifest's entry, of a requirement, or of a package, which of
   a repository is one commit. *)
Source(kind, place, reference, rev) ==
  [kind |-> kind, place |-> place, reference |-> reference, rev |-> rev]

Toolchain == Source("toolchain", None, None, None)

(* What a manifest declares, and an entry of its dependencies. *)
Content(name, version, dependencies, items) ==
  [name |-> name, version |-> version, dependencies |-> dependencies, items |-> items]

Dependency(name, requirement, source) ==
  [name |-> name, requirement |-> requirement, source |-> source]

Need(name, requirement, want) == [name |-> name, requirement |-> requirement, want |-> want]

(* An index entry: what it says the archive needs, and the archive. *)
Entry(version, needs, content, yanked) ==
  [version |-> version, needs |-> needs, content |-> content, yanked |-> yanked]

(* A package that may be chosen for a name; `indexed` until its archive was
   looked into. *)
Package(name, version, source, content, needs, indexed) ==
  [name |-> name, version |-> version, source |-> source, content |-> content,
   needs |-> needs, indexed |-> indexed]

-----------------------------------------------------------------------------
(* Worlds there may be *)

IsSource(s) ==
  /\ s = Source(s.kind, s.place, s.reference, s.rev)
  /\ s.kind \in {"path", "toolchain", "git", "registry"}

(* What a manifest or an index can say of a dependency; `urls` are those of the
   repositories. *)
IsDependency(d, urls) ==
  /\ \A i \in DOMAIN d.requirement : IsComparator(d.requirement[i])
  /\ IsSource(d.source) /\ d.source.rev = None
  /\ d.source.kind = "toolchain" => d.source = Toolchain
  /\ d.source.kind = "git" => d.source.place \in urls

AreDependencies(deps, urls) ==
  deps \in Seq(Range(deps)) /\ \A d \in Range(deps) : IsDependency(d, urls)

IsContent(c, urls) ==
  c # None /\ IsVersion(c.version) /\ AreDependencies(c.dependencies, urls)

(* An index says of every dependency from where its archive wants it.  That much
   is not checked by `settle`: see AgreesWithIndex of Resolver. *)
SaysFromWhere(entry) ==
  \A d \in Range(entry.needs), declared \in Range(entry.content.dependencies) :
    d.name = declared.name /\ d.requirement = declared.requirement
      => (d.source.kind = "toolchain" <=> declared.source.kind = "toolchain")

IsEntry(entry, urls) ==
  /\ entry = Entry(entry.version, entry.needs, entry.content, entry.yanked)
  /\ IsVersion(entry.version) /\ AreDependencies(entry.needs, urls)
  /\ IsContent(entry.content, urls) /\ SaysFromWhere(entry)

(* An index has one entry per version, and a file for every name that is read. *)
AreRegistries(registries, readable, urls) ==
  \A i \in DOMAIN registries :
    /\ readable \subseteq DOMAIN registries[i]
    /\ \A n \in DOMAIN registries[i] :
         /\ \A e \in registries[i][n] : IsEntry(e, urls)
         /\ \A e, f \in registries[i][n] : e.version = f.version => e = f

(* Only what is of a repository has a commit. *)
IsPin(pin, urls) ==
  /\ IsSource(pin.source) /\ (pin.source.kind # "git" => pin.source.rev = None)
  /\ pin.source.kind \in {"git", "registry"} => IsContent(pin.content, urls)

(* Every commit that is named is one of the repository's, and what names one is no
   digest. *)
IsRepository(repository, urls) ==
  /\ repository = [heads |-> repository.heads, commits |-> repository.commits, gone |-> repository.gone]
  /\ \A c \in DOMAIN repository.commits :
       repository.commits[c] # None => IsContent(repository.commits[c], urls)
  /\ Range(repository.heads) \subseteq DOMAIN repository.commits
  /\ DOMAIN repository.heads \cap DOMAIN repository.commits = {}

IsWorld(W) ==
  LET urls == DOMAIN W.repositories IN
  /\ DOMAIN W = {"members", "directories", "toolchain", "repositories", "databases", "registries",
                 "configured", "readable", "reachable", "held", "vendored", "pins", "precise",
                 "locked", "offline", "pushes"}
  /\ W.members \in Seq(Range(W.members)) /\ W.members # <<>>
  /\ \A i \in DOMAIN W.members : IsContent(W.members[i].content, urls)
                                 /\ W.members[i].dir \notin DOMAIN W.directories
  /\ \A i, j \in DOMAIN W.members : W.members[i].dir = W.members[j].dir => i = j
  /\ \A d \in DOMAIN W.directories : IsContent(W.directories[d], urls)
  /\ \A t \in DOMAIN W.toolchain : IsContent(W.toolchain[t], urls) /\ W.toolchain[t].name = t
  /\ \A u \in urls : /\ IsRepository(W.repositories[u], urls)
                     /\ W.databases[u] \subseteq DOMAIN W.repositories[u].commits
  /\ DOMAIN W.pushes \subseteq urls
  /\ \A u \in DOMAIN W.pushes : /\ Range(W.pushes[u]) \subseteq DOMAIN W.repositories[u].commits
                                /\ DOMAIN W.pushes[u] \cap DOMAIN W.repositories[u].commits = {}
  /\ AreRegistries(W.registries, W.readable, urls)
  /\ Range(W.configured) \subseteq DOMAIN W.registries
  /\ \A n \in DOMAIN W.pins : IsPin(W.pins[n], urls)

-----------------------------------------------------------------------------
(* What a written source means to the package that wrote it *)

(* Mutant: a published package's registry is looked up by the name it has here. *)
MutantWant(W, dependency, from) ==
  IF dependency.source.kind # "registry" THEN dependency.source
  ELSE Source("registry", W.configured[dependency.source.place], None, None)

(* want: "mine", in a package of a registry, is that registry; elsewhere the
   name is one of this machine's configuration. *)
Want(W, dependency, from) ==
  CASE dependency.source.kind # "registry" -> dependency.source
    [] dependency.source.kind = "registry" /\ from.kind = "registry" ->
         Source("registry", from.place, None, None)
    [] OTHER -> Source("registry", W.configured[dependency.source.place], None, None)

(* What is refused of it: a fetched package has no directories around it, and a
   published one no repositories and no registry but its own. *)
MayWant(W, dependency, from) ==
  CASE dependency.source.kind = "toolchain" -> TRUE
    [] dependency.source.kind = "path" -> from.kind \notin {"git", "registry"}
    [] dependency.source.kind = "git" -> from.kind # "registry"
    [] dependency.source.kind = "registry" ->
         IF from.kind = "registry" THEN dependency.source.place = "default"
         ELSE dependency.source.place \in DOMAIN W.configured

Lawful(W, content, from) ==
  \A i \in DOMAIN content.dependencies : MayWant(W, content.dependencies[i], from)

(* needs_of *)
NeedsOf(W, content, from) ==
  [i \in DOMAIN content.dependencies |->
     LET d == content.dependencies[i] IN Need(d.name, d.requirement, Want(W, d, from))]

(* Mutant: a package of the same name is taken for the one that was asked for. *)
MutantWantMatches(want, source) == TRUE

(* Want::matches: of a repository, the reference that found the commit. *)
WantMatches(want, source) == [source EXCEPT !.rev = None] = want

-----------------------------------------------------------------------------
(* What a source offers for a name.  An offer has the candidates, whether they
   are the lock's, the names whose index was read, what git was run for, and
   whether there was no error. *)

Offer(all, pinned, reads, fetches) ==
  [all |-> all, pinned |-> pinned, reads |-> reads, fetches |-> fetches, ok |-> TRUE]

Refused(reads) == [all |-> {}, pinned |-> FALSE, reads |-> reads, fetches |-> {}, ok |-> FALSE]

(* replacement: a vendored copy must be there, and be what it stands for. *)
Replaced(W, kind) == kind \in W.vendored.kinds
verify_tree(copy, expected) == copy = expected  \* as archives, by their digests
ReplacementFits(W, name, content) ==
  name \in DOMAIN W.vendored.copies /\ verify_tree(W.vendored.copies[name], content)

(* at_index *)
IsConfigured(W, index) == \E name \in DOMAIN W.configured : W.configured[name] = index

(* materialize: the vendored copy, the store's, or else what is fetched now. *)
CanMaterialize(W, name, source, content) ==
  IF Replaced(W, source.kind) THEN ReplacementFits(W, name, content)
  ELSE \/ content \in W.held
       \/ /\ ~W.offline
          /\ source.kind = "git" =>
               \/ source.rev \in W.databases[source.place]
               \/ /\ source.place \in W.reachable
                  /\ source.rev \notin W.repositories[source.place].gone
          /\ source.kind = "registry" => IsConfigured(W, source.place)

(* An offer of one package, once what it is can be read. *)
OfferOne(W, name, version, source, content, fetches) ==
  IF Lawful(W, content, source) /\ content.name = name /\ content.version = version
  THEN Offer({Package(name, version, source, content, NeedsOf(W, content, source), FALSE)},
             FALSE, {}, fetches)
  ELSE Refused({})

(* load_path_dependency: a member of the workspace, or else a stranger. *)
At(W, dir) ==
  LET members == {W.members[i].content : i \in {j \in DOMAIN W.members : W.members[j].dir = dir}}
  IN CASE members # {} -> CHOOSE c \in members : TRUE
       [] members = {} /\ dir \in DOMAIN W.directories -> W.directories[dir]
       [] OTHER -> None

(* path_package *)
FromPath(W, need) ==
  LET content == At(W, need.want.place)
  IN IF content = None THEN Refused({})
     ELSE OfferOne(W, need.name, content.version, need.want, content, {})

(* toolchain_package: unless a copy replaces it, it is in the compiler. *)
FromToolchain(W, need) ==
  IF /\ need.name \in DOMAIN W.toolchain
     /\ Replaced(W, "toolchain") => ReplacementFits(W, need.name, W.toolchain[need.name])
  THEN OfferOne(W, need.name, W.toolchain[need.name].version, Toolchain,
                W.toolchain[need.name], {})
  ELSE Refused({})

(* pinned_git: the lock's commit, as long as the reference is the same. *)
PinnedGit(W, need) ==
  need.name \in DOMAIN W.pins /\ WantMatches(need.want, W.pins[need.name].source)

(* git::pin: a commit named directly may be here already; what any other
   reference names, only the repository can say. *)
Rev(W, url, reference) ==
  LET repository == W.repositories[url]
      here == reference \in W.databases[url]
  IN CASE here -> reference
       [] ~here /\ url \in W.reachable /\ reference \in DOMAIN repository.heads ->
            repository.heads[reference]
       [] /\ ~here /\ url \in W.reachable /\ reference \notin DOMAIN repository.heads
          /\ reference \in DOMAIN repository.commits \ repository.gone ->
            reference
       [] OTHER -> None

(* A commit that git was run for in this run: its archive is in the store. *)
OfferCommit(W, need, rev, fetches) ==
  LET content == IF rev = None THEN None ELSE W.repositories[need.want.place].commits[rev]
  IN IF \/ content = None
        \/ Replaced(W, "git") /\ ~ReplacementFits(W, need.name, content)
     THEN Refused({})
     ELSE OfferOne(W, need.name, content.version, [need.want EXCEPT !.rev = rev],
                   content, fetches)

(* Mutant: every requirement asks the repository again. *)
MutantFetches(W, need, fetched) ==
  LET rev == Rev(W, need.want.place, need.want.reference)
  IN IF W.locked \/ W.offline THEN Refused({}) ELSE OfferCommit(W, need, rev, {})

(* pin_git, past the lock: what this run has settled on already, and else git,
   unless that is forbidden. *)
FromGit(W, need, fetched) ==
  LET asked == {f \in fetched : f.url = need.want.place /\ f.reference = need.want.reference}
      rev   == Rev(W, need.want.place, need.want.reference)
  IN CASE asked # {} -> OfferCommit(W, need, (CHOOSE f \in asked : TRUE).rev, {})
       [] asked = {} /\ (W.locked \/ W.offline) -> Refused({})
       [] OTHER -> OfferCommit(W, need, rev,
                     {[url |-> need.want.place, reference |-> need.want.reference, rev |-> rev]})

(* The package a lock's entry is, if it can be had: registry_package_from_lock,
   and git_package for a commit the lock names. *)
FromLock(W, need, pinned) ==
  LET pin == W.pins[need.name]
  IN IF CanMaterialize(W, need.name, pin.source, pin.content)
     THEN [OfferOne(W, need.name, pin.version, pin.source, pin.content, {})
             EXCEPT !.pinned = pinned]
     ELSE Refused({})

(* applicable_pin: the lock's entry for the name, if it still answers. *)
ApplicablePin(W, need) ==
  /\ need.name \in DOMAIN W.pins
  /\ WantMatches(need.want, W.pins[need.name].source)
  /\ Matches(need.requirement, W.pins[need.name].version)
  /\ need.name \in DOMAIN W.precise => W.precise[need.name] = W.pins[need.name].version

(* registry_package: what the index says an entry needs. *)
Indexed(need, entry) ==
  Package(need.name, entry.version, need.want, entry.content,
          [i \in DOMAIN entry.needs |->
             LET d == entry.needs[i]
             IN Need(d.name, d.requirement,
                     IF d.source.kind = "toolchain" THEN Toolchain ELSE need.want)],
          TRUE)

(* Mutant: a yanked version is offered like any other. *)
MutantYankedOffered(W, need) ==
  {Indexed(need, e) : e \in W.registries[need.want.place][need.name]}

FromIndex(W, need) ==
  {Indexed(need, e) : e \in {x \in W.registries[need.want.place][need.name] : ~x.yanked}}

(* published *)
MayReadIndex(W, need) ==
  ~W.locked /\ IsConfigured(W, need.want.place) /\ need.name \in W.readable

(* options *)
Options(W, need, usePin, fetched) ==
  CASE need.want.kind = "path" -> FromPath(W, need)
    [] need.want.kind = "toolchain" -> FromToolchain(W, need)
    [] need.want.kind = "git" ->
         IF PinnedGit(W, need) THEN FromLock(W, need, FALSE) ELSE FromGit(W, need, fetched)
    [] need.want.kind = "registry" ->
         CASE usePin /\ ApplicablePin(W, need) -> FromLock(W, need, TRUE)
           [] ~(usePin /\ ApplicablePin(W, need)) /\ MayReadIndex(W, need) ->
                Offer(FromIndex(W, need), FALSE, {need.name}, {})
           [] OTHER -> Refused({need.name})

=============================================================================
