------------------------------ MODULE Lockfile ------------------------------
(***************************************************************************)
(* Slopium.lock over the life of a project (main.rs `Session::load`): every *)
(* command that compiles loads its workspace, reads the lock, resolves with *)
(* its pins and writes the lock if the answer differs; --locked refuses to; *)
(* `update` resolves without some of the pins; `add` and `remove` edit a    *)
(* manifest first, and `new` makes a package and lists it.  Meanwhile       *)
(* manifests are edited by hand, the registry publishes and yanks, and      *)
(* commands are killed.                                                     *)
(*                                                                          *)
(* How versions are selected is a parameter, Select; Resolver is one.       *)
(***************************************************************************)
EXTENDS Workspaces

CONSTANTS
  Session,          \* commands, each one after another
  Name,             \* package names
  Directory,        \* where there may be a manifest
  Manifest,         \* what workspaces may need: member |-> its dependencies
  Registry,         \* what the registries may publish
  Lock,             \* the locks there are: functions from some names to pins
  Select(_, _, _),  \* needs, registry, pins |-> a lock, or Failed
  Replay(_, _),     \* the same under --locked, where no index may be read
  Lives             \* what the project may go through, one by one, see LockAssumption

NoPins == [n \in {} |-> None]
Drop(pins, names) == [n \in DOMAIN pins \ names |-> pins[n]]

(* What a session may have for pins: a lock, less what is being updated. *)
PinSets == {NoPins} \cup {Drop(l, names) : l \in Lock, names \in {{}, Name} \cup {{n} : n \in Name}}

(* A life: the trees and registries there are to begin with, where commands are
   run, the dependencies they add and remove, the packages they make, the texts
   somebody writes by hand, how the registries move on, whether commands overlap,
   and how many may be killed. *)
ASSUME LockAssumption ==
  /\ \A l \in Range(Lives) :
       /\ \A tree \in l.trees : DOMAIN tree \subseteq Directory
       /\ l.registries \subseteq Registry /\ l.moves \subseteq Registry \X Registry
       /\ l.runs \cup l.news \subseteq Directory
       /\ l.together \in BOOLEAN /\ l.maxKills \in Nat
  /\ None \notin Lock /\ Torn \notin Lock /\ Failed \notin Lock /\ None # Torn
  /\ None \notin Session /\ None \notin Manifest
  /\ None \notin Directory /\ Failed \notin Directory /\ Directory \subseteq Seq(STRING)
  /\ \A l \in Lock : l = [n \in DOMAIN l |-> l[n]]

(* What Select answers is a lock, or that there is none. *)
ASSUME SelectAssumption ==
  \A m \in Manifest, r \in Registry, pins \in PinSets :
    Select(m, r, pins) \in Lock \cup {Failed}

(* ResolverCheck!AnswerIsStable: an answer's own lock resolves to it again,
   whatever the registry has become, and without reading an index. *)
ASSUME StableAssumption ==
  \A m \in Manifest, r \in Registry, pins \in PinSets :
    LET found == Select(m, r, pins)
    IN found # Failed =>
         /\ Replay(m, found) = found
         /\ \A later \in Registry : Select(m, later, found) = found

VARIABLES
  life, registry,
  file,        \* directory |-> its Slopium.toml, Torn when it is half written
  tree,        \* directory |-> what that says
  lock,        \* directory |-> its Slopium.lock: None, Torn or a lock
  run,         \* each command's locals
  agreed,      \* ghost, by root: the last answer, the needs it is the answer to,
               \* and whether the command that found it was left in peace
  alone,       \* ghost: the command that has run alone since it started
  meant,       \* ghost: directory |-> what its manifest was last asked to say, None
               \* when that is anybody's guess
  kills

vars == <<life, registry, file, tree, lock, run, agreed, alone, meant, kills>>

Idle == [step |-> "idle", mode |-> None, root |-> None, needs |-> None, existing |-> None,
         found |-> None, at |-> None, text |-> None, then |-> None]

(* --locked, `update`, `update -p`, and every other command; and whose pins
   they throw away. *)
Modes == [kind : {"build", "locked"}, drops : {{}}]
         \cup [kind : {"update"}, drops : {Name}]
         \cup [kind : {"update -p"}, drops : {{n} : n \in Name}]
Build == [kind |-> "build", drops |-> {}]

Init ==
  /\ life \in DOMAIN Lives
  /\ file \in Lives[life].trees /\ tree = [d \in DOMAIN file |-> Read(file[d])]
  /\ registry \in Lives[life].registries
  /\ lock = [d \in Directory |-> None]
  /\ run = [s \in Session |-> Idle]
  /\ agreed = [d \in Directory |-> [needs |-> None, lock |-> None, peace |-> TRUE]]
  /\ alone = None
  /\ meant = [d \in Directory |-> None]
  /\ kills = 0

Put(dir, text) ==
  /\ file' = [d \in DOMAIN file \cup {dir} |-> IF d = dir THEN text ELSE file[d]]
  /\ tree' = [d \in DOMAIN tree \cup {dir} |-> IF d = dir THEN Read(text) ELSE tree[d]]

Edits(dir) == {s \in Session : run[s].at = dir}

(* Somebody writes a manifest by hand. *)
EditManifest ==
  /\ \E edit \in Lives[life].edits :
       /\ edit.dir \in DOMAIN file /\ file[edit.dir] # edit.text
       /\ Put(edit.dir, edit.text)
       /\ meant' = [meant EXCEPT ![edit.dir] = IF Edits(edit.dir) = {} THEN Said(edit.text) ELSE None]
  /\ UNCHANGED <<life, registry, lock, run, agreed, alone, kills>>

RegistryMoves ==
  /\ \E later \in Registry : <<registry, later>> \in Lives[life].moves /\ registry' = later
  /\ UNCHANGED <<life, file, tree, lock, run, agreed, alone, meant, kills>>

End(s) == run' = [run EXCEPT ![s] = Idle]

(* A command that starts while another runs leaves neither in peace. *)
MayStart(s) == run[s] = Idle /\ (Lives[life].together \/ \A t \in Session : run[t] = Idle)
Starts(s) ==
  IF \A t \in Session : run[t] = Idle THEN alone' = s /\ UNCHANGED agreed
  ELSE alone' = None /\ agreed' = [d \in Directory |-> [agreed[d] EXCEPT !.peace = FALSE]]

-----------------------------------------------------------------------------
(* add, remove and new *)

(* What a manifest says once a dependency is added or taken out. *)
Changed(said, name, entry) ==
  [said EXCEPT !.dependencies =
     [n \in (DOMAIN @ \ {name}) \cup (IF entry = None THEN {} ELSE {name}) |->
        IF n = name THEN entry ELSE @[n]]]

(* What a text is meant to say when nobody else is writing it, and it is one that
   edits can see through. *)
Means(text, dir, said) == IF IsPlain(text) /\ Edits(dir) = {} THEN said ELSE None

(* add and remove: the workspace is loaded, and the edited text is made of what
   was read then. *)
StartsEdit(s, dir, at, text, said) ==
  /\ text # Failed
  /\ run' = [run EXCEPT ![s] = [Idle EXCEPT !.step = "edit", !.at = at, !.text = text, !.then = dir]]
  /\ meant' = [meant EXCEPT ![at] = Means(file[at], at, said)]
Edit(s, dir, workspace, name, entry) ==
  /\ IsLoaded(workspace)
  /\ \E at \in {SelectOne(workspace)} \ {None} :
       /\ entry = None => name \in DOMAIN tree[at].dependencies
       /\ StartsEdit(s, dir, at, WithDependency(file[at], name, entry), Changed(tree[at], name, entry))
EditDependency(s) ==
  /\ MayStart(s)
  /\ \E dir \in Lives[life].runs, change \in Lives[life].changes :
       Edit(s, dir, Load(tree, dir), change.name, change.entry)
  /\ Starts(s)
  /\ UNCHANGED <<life, registry, file, tree, lock, kills>>

(* create_project: the manifest of a new package, which may have a workspace
   around it. *)
NewPackage(s) ==
  /\ MayStart(s)
  /\ \E dir \in Lives[life].news \ DOMAIN file :
       /\ Put(dir, NewText(Last(dir)))
       /\ meant' = [meant EXCEPT ![dir] = Said(NewText(Last(dir)))]
       /\ run' = [run EXCEPT ![s] = [Idle EXCEPT !.step = "enlist", !.then = dir]]
  /\ Starts(s)
  /\ UNCHANGED <<life, registry, lock, kills>>

(* enlist_in_workspace: a workspace that does not list the package is made to;
   the package stays when that fails. *)
Lengthen(s, root, path, text) ==
  IF text = Failed THEN End(s) /\ UNCHANGED meant
  ELSE /\ run' = [run EXCEPT ![s] = [Idle EXCEPT !.step = "edit", !.at = root, !.text = text]]
       /\ meant' = [meant EXCEPT ![root] =
                      Means(file[root], root, [tree[root] EXCEPT !.members = Append(@, path)])]
Enlist(s) ==
  /\ run[s].step = "enlist"
  /\ \E enclosing \in {Enclosing(tree, run[s].then)} :
       IF enclosing.is # "unlisted" THEN End(s) /\ UNCHANGED meant
       ELSE LET path == SubSeq(run[s].then, Len(enclosing.root) + 1, Len(run[s].then))
            IN Lengthen(s, enclosing.root, path, WithMember(file[enclosing.root], path))
  /\ UNCHANGED <<life, registry, file, tree, lock, agreed, alone, kills>>

(* fs::write: the file is truncated, and then written. *)
StartEdit(s) ==
  /\ run[s].step = "edit"
  /\ Put(run[s].at, Torn)
  /\ run' = [run EXCEPT ![s].step = "editing"]
  /\ UNCHANGED <<life, registry, lock, agreed, alone, meant, kills>>

(* `new` is done then; `add` and `remove` go on like a build. *)
FinishEdit(s) ==
  /\ run[s].step = "editing"
  /\ \E text \in IF file[run[s].at] = Torn THEN {run[s].text} ELSE {run[s].text, Torn} :
       Put(run[s].at, text)
  /\ IF run[s].then = None THEN End(s)
     ELSE run' = [run EXCEPT ![s] = [Idle EXCEPT !.step = "open", !.then = run[s].then]]
  /\ UNCHANGED <<life, registry, lock, agreed, alone, meant, kills>>

-----------------------------------------------------------------------------
(* Session::load *)

NeedsOf(workspace) == [n \in DOMAIN workspace.members |-> workspace.members[n].needs]

(* Mutant: a lock that is not written yet stands for no lock at all. *)
MutantReadLock(s, workspace, mode) ==
  IF ~IsLoaded(workspace) THEN End(s)
  ELSE run' = [run EXCEPT ![s] = [Idle EXCEPT !.step = "resolve", !.mode = mode,
                 !.root = workspace.root, !.needs = NeedsOf(workspace)]]

(* read_lock: a lock that cannot be read is as good as none, except under
   --locked; `update -p` of a package the lock does not name is refused. *)
ReadLock(s, workspace, mode) ==
  IF ~IsLoaded(workspace) THEN End(s)
  ELSE LET existing == IF lock[workspace.root] = Torn THEN None ELSE lock[workspace.root]
       IN IF \/ lock[workspace.root] = Torn /\ mode.kind = "locked"
             \/ mode.kind = "update -p" /\ (existing = None \/ ~(mode.drops \subseteq DOMAIN existing))
          THEN End(s)
          ELSE run' = [run EXCEPT ![s] = [Idle EXCEPT !.step = "resolve", !.mode = mode,
                         !.root = workspace.root, !.needs = NeedsOf(workspace), !.existing = existing]]

(* A command that compiles. *)
Open(s) ==
  /\ MayStart(s)
  /\ \E dir \in Lives[life].runs, mode \in Modes : ReadLock(s, Load(tree, dir), mode)
  /\ run' # run
  /\ Starts(s)
  /\ UNCHANGED <<life, registry, file, tree, lock, meant, kills>>

(* add and remove, with the manifest written. *)
Reopen(s) ==
  /\ run[s].step = "open"
  /\ ReadLock(s, Load(tree, run[s].then), Build)
  /\ UNCHANGED <<life, registry, file, tree, lock, agreed, alone, meant, kills>>

(* with_lock, updating and updating_everything *)
Pins(s) ==
  IF run[s].existing = None THEN NoPins ELSE Drop(run[s].existing, run[s].mode.drops)

Found(s) ==
  IF run[s].mode.kind = "locked" THEN Replay(run[s].needs, Pins(s))
  ELSE Select(run[s].needs, registry, Pins(s))

(* The answer that counts is the one a command alone has found. *)
Agreed(s, found) ==
  IF found = Failed \/ run[s].mode.kind = "locked" THEN agreed
  ELSE [agreed EXCEPT ![run[s].root] = [needs |-> run[s].needs, lock |-> found, peace |-> alone = s]]

(* Mutant: a lock that names the same packages is taken for the same lock. *)
MutantCompareNames(s) ==
  /\ run[s].step = "resolve"
  /\ LET found == Found(s)
         same == found # Failed /\ run[s].existing # None
                   /\ DOMAIN found = DOMAIN run[s].existing
     IN
       /\ \/ /\ found = Failed \/ same \/ run[s].mode.kind = "locked"
             /\ End(s)
          \/ /\ found # Failed /\ ~same /\ run[s].mode.kind # "locked"
             /\ run' = [run EXCEPT ![s].step = "write", ![s].found = found]
       /\ agreed' = Agreed(s, found)
  /\ UNCHANGED <<life, registry, file, tree, lock, alone, meant, kills>>

(* resolve_workspace, and what synchronize_lock makes of the answer. *)
Resolve(s) ==
  /\ run[s].step = "resolve"
  /\ LET found == Found(s) IN
       /\ \/ /\ found = Failed \/ found = run[s].existing \/ run[s].mode.kind = "locked"
             /\ End(s)
          \/ /\ found # Failed /\ found # run[s].existing /\ run[s].mode.kind # "locked"
             /\ run' = [run EXCEPT ![s].step = "write", ![s].found = found]
       /\ agreed' = Agreed(s, found)
  /\ UNCHANGED <<life, registry, file, tree, lock, alone, meant, kills>>

StartWrite(s) ==
  /\ run[s].step = "write"
  /\ lock' = [lock EXCEPT ![run[s].root] = Torn]
  /\ run' = [run EXCEPT ![s].step = "writing"]
  /\ UNCHANGED <<life, registry, file, tree, agreed, alone, meant, kills>>

(* Mutant: entries the answer no longer has stay in the file. *)
MutantKeepEntries(s) ==
  /\ run[s].step = "writing"
  /\ LET old == IF run[s].existing = None THEN NoPins ELSE run[s].existing
     IN lock' = [lock EXCEPT ![run[s].root] =
                   [n \in DOMAIN old \cup DOMAIN run[s].found |->
                      IF n \in DOMAIN run[s].found THEN run[s].found[n] ELSE old[n]]]
  /\ End(s)
  /\ UNCHANGED <<life, registry, file, tree, agreed, alone, meant, kills>>

(* Over another session's text a shorter one leaves its tail: what can be read
   then has entries of both. *)
Spliced(old, new) ==
  {[n \in DOMAIN new \cup tail |-> IF n \in DOMAIN new THEN new[n] ELSE old[n]]
   : tail \in SUBSET DOMAIN old}

FinishWrite(s) ==
  /\ run[s].step = "writing"
  /\ \E new \in IF lock[run[s].root] = Torn THEN {run[s].found}
                ELSE {run[s].found, Torn} \cup (Spliced(lock[run[s].root], run[s].found) \cap Lock) :
       lock' = [lock EXCEPT ![run[s].root] = new]
  /\ End(s)
  /\ UNCHANGED <<life, registry, file, tree, agreed, alone, meant, kills>>

Kill(s) ==
  /\ run[s] # Idle
  /\ kills < Lives[life].maxKills
  /\ kills' = kills + 1
  /\ agreed' = [d \in Directory |-> [agreed[d] EXCEPT !.peace = FALSE]]
  /\ meant' = [d \in Directory |-> IF d = run[s].at THEN None ELSE meant[d]]
  /\ End(s)
  /\ UNCHANGED <<life, registry, file, tree, lock, alone>>

Next ==
  \/ EditManifest \/ RegistryMoves
  \/ \E s \in Session :
       \/ EditDependency(s) \/ NewPackage(s) \/ Enlist(s) \/ StartEdit(s) \/ FinishEdit(s)
       \/ Open(s) \/ Reopen(s) \/ Resolve(s) \/ StartWrite(s) \/ FinishWrite(s) \/ Kill(s)

Spec == Init /\ [][Next]_vars

-----------------------------------------------------------------------------
(* Properties *)

InPeace(d) == agreed[d].peace /\ \A s \in Session : run[s] = Idle

(* Whatever was killed and however commands overlapped before, one command that
   runs to its end undisturbed leaves its answer for a lock: a torn file and two
   sessions' entries in one file do not outlive the next build.  And what `add`,
   `remove` and `new` were asked for is what the manifests say then, and nothing
   else of them has changed: "the manifest is edited as text rather than
   reprinted from its parse" (main.rs, add). *)
AnswersAreWritten == \A d \in Directory : InPeace(d) => lock[d] = agreed[d].lock
ManifestsSayWhatWasMeant ==
  \A d \in Directory : meant[d] # None /\ Edits(d) = {} => tree[d] = meant[d]
LockIsTheAnswer == AnswersAreWritten /\ ManifestsSayWhatWasMeant

(* --locked passes with what a directory's workspace needs. *)
Passes(workspace) ==
  /\ IsLoaded(workspace)
  /\ lock[workspace.root] \notin {None, Torn}
  /\ Replay(NeedsOf(workspace), lock[workspace.root]) = lock[workspace.root]
IsSettled(workspace) ==
  InPeace(workspace.root) /\ agreed[workspace.root].needs = NeedsOf(workspace)
PassesInside(workspace) ==
  IsLoaded(workspace) =>
    (IsSettled(workspace) =>
       \A n \in DOMAIN workspace.members : Passes(Load(tree, workspace.members[n].dir)))

(* After a command that compiled, --locked passes in every member of the
   workspace until somebody edits a manifest, whatever is published or yanked
   meanwhile: "a lockfile that stops working when somebody edits an index is not
   a lockfile" (docs/packaging.md). *)
LockedPasses == \A d \in DOMAIN tree : PassesInside(Load(tree, d))

(* Of commands that take turns and end, only `update` and an edited manifest move what is
   locked: throwing a pin away is "a command of its own rather than something a
   build decides" (main.rs, Update). *)
BuildMovesNothing ==
  [][\A s \in Session :
       /\ run[s].step = "resolve" /\ run'[s] # run[s] /\ kills' = kills
       /\ agreed[run[s].root].peace
       /\ run[s].mode.kind = "build" /\ run[s].needs = agreed[run[s].root].needs
       => agreed' = agreed /\ run'[s] = Idle]_vars

-----------------------------------------------------------------------------
(* What the theorems suppose of the manifests: Manifest has what any workspace
   needs that can be read from them. *)
NeedsCovered ==
  \A d \in Directory : IsLoaded(Load(tree, d)) => NeedsOf(Load(tree, d)) \in Manifest

(* And, for --locked, that every member of a workspace is at home in it:
   load_workspace refuses neither a member that two workspaces list nor one that
   is a workspace itself. *)
MembersAreHome ==
  \A d \in Directory : IsLoaded(Load(tree, d)) =>
    \A n \in DOMAIN Load(tree, d).members :
      RootOf(tree, Load(tree, d).members[n].dir) = Load(tree, d).root
=============================================================================
