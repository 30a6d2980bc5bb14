----------------------------- MODULE IndexCache -----------------------------
(***************************************************************************)
(* How a run reads one package's index file (registry.rs `versions` and     *)
(* `index_file`): from the registry and into $SLOPIUM_HOME/index when it is *)
(* online, from there when it is not, and once per run whatever happens.    *)
(*                                                                          *)
(* An edition stands for one content of the index file.  What the registry  *)
(* serves, a later one than before or nothing, is another module's doing.   *)
(***************************************************************************)
EXTENDS Naturals

CONSTANTS
  Run,         \* processes: build, add, update, ... one after another each
  Gone,        \* the registry does not have the package
  None,        \* nothing yet
  Torn         \* a file whose writer has not finished

VARIABLES
  transport,   \* where the registry is: "url" or "directory"
  edition,     \* how many contents the index file has had
  served,      \* what the registry serves
  cache,       \* $SLOPIUM_HOME/index/<registry>/<package>.json
  run,         \* each run's locals
  last         \* ghost: what the last online run was told, None if that run
               \* overlapped another or could not write the cache

vars == <<transport, edition, served, cache, run, last>>

(* `asked` is the answers the run got so far, `memo` is Registry::cached, and
   `alone` (a ghost) whether no other run has been going on since it started. *)
Idle == [step |-> "idle", access |-> None, got |-> None, memo |-> None, asked |-> {},
         alone |-> FALSE]

Init ==
  /\ transport \in {"url", "directory"}
  /\ cache = None
  /\ run = [r \in Run |-> Idle]
  /\ last = None

Start(r) ==
  /\ run[r] = Idle
  /\ \E access \in {"online", "offline"} :
       run' = [q \in Run |->
         IF q = r THEN [Idle EXCEPT !.step = "ready", !.access = access,
                                    !.alone = \A o \in Run : run[o] = Idle]
         ELSE [run[q] EXCEPT !.alone = FALSE]]
  /\ UNCHANGED <<transport, edition, served, cache, last>>

(* Locals after an answer: the run remembers it for when it asks again. *)
Answered(r, answer) ==
  [run[r] EXCEPT !.step = "ready", !.got = None, !.memo = answer, !.asked = @ \cup {answer}]

(* What an answer makes of `last`, given whether the cache now agrees with it. *)
Told(r, agrees) == last' = IF run[r].alone /\ agrees THEN run[r].got ELSE None

Quit(r) == run' = [run EXCEPT ![r] = Idle]

-----------------------------------------------------------------------------
(* Mutant: the answer is not remembered. *)
MutantAskAfresh(r) ==
  /\ run[r].step = "ready"
  /\ run' = [run EXCEPT ![r].step = "read"]
  /\ UNCHANGED <<transport, edition, served, cache, last>>

(* versions: asked while resolving, and again when a signature is looked up. *)
Ask(r) ==
  /\ run[r].step = "ready"
  /\ run' = [run EXCEPT ![r] =
       IF @.memo # None THEN Answered(r, @.memo) ELSE [@ EXCEPT !.step = "read"]]
  /\ UNCHANGED <<transport, edition, served, cache, last>>

(* A directory is read as it is, by every run. *)
ReadDirectory(r) ==
  /\ run[r].step = "read" /\ transport = "directory"
  /\ run' = [run EXCEPT ![r] = Answered(r, served)]
  /\ UNCHANGED <<transport, edition, served, cache, last>>

(* Offline: the cached copy, or SL1011 when there is none. *)
ReadCache(r) ==
  /\ run[r].step = "read" /\ transport = "url" /\ run[r].access = "offline"
  /\ IF cache = None THEN Quit(r)
     ELSE run' = [run EXCEPT ![r] = Answered(r, cache)]
  /\ UNCHANGED <<transport, edition, served, cache, last>>

(* No curl, no connection or an answer that is none is the end of the run; not
   found and gone are answers. *)
interpret(r, answer) ==
  \/ Quit(r)
  \/ run' = [run EXCEPT ![r].step = "fetched", ![r].got = answer]

(* Online: whatever the registry says, even if a copy is cached. *)
Fetch(r) ==
  /\ run[r].step = "read" /\ transport = "url" /\ run[r].access = "online"
  /\ interpret(r, served)
  /\ UNCHANGED <<transport, edition, served, cache, last>>

(* Mutant: a package gone from the index leaves its old copy cached. *)
MutantKeepGone(r) ==
  /\ run[r].step = "fetched" /\ run[r].got = Gone
  /\ run' = [run EXCEPT ![r] = Answered(r, Gone)]
  /\ Told(r, TRUE)
  /\ UNCHANGED <<transport, edition, served, cache>>

DropCopy(r) ==
  /\ run[r].step = "fetched" /\ run[r].got = Gone
  /\ \/ cache' = None /\ Told(r, TRUE)
     \/ cache' = cache /\ Told(r, FALSE)                  \* it cannot be removed
  /\ run' = [run EXCEPT ![r] = Answered(r, Gone)]
  /\ UNCHANGED <<transport, edition, served>>

(* Mutant: the copy is written where it is read. *)
MutantWriteInPlace(r) ==
  /\ run[r].step = "fetched" /\ run[r].got # Gone
  /\ cache' = Torn
  /\ run' = [run EXCEPT ![r].step = "written"]
  /\ UNCHANGED <<transport, edition, served, last>>

(* cache_index_file: a temporary of this run's own, then a rename. *)
WriteCopy(r) ==
  /\ run[r].step = "fetched" /\ run[r].got # Gone
  /\ \/ run' = [run EXCEPT ![r].step = "written"] /\ last' = last
     \/ run' = [run EXCEPT ![r] = Answered(r, @.got)] /\ Told(r, FALSE)
  /\ UNCHANGED <<transport, edition, served, cache>>

RenameCopy(r) ==
  /\ run[r].step = "written"
  /\ \/ cache' = run[r].got /\ Told(r, TRUE)
     \/ cache' = cache /\ Told(r, FALSE)
  /\ run' = [run EXCEPT ![r] = Answered(r, @.got)]
  /\ UNCHANGED <<transport, edition, served>>

(* Done, killed, or failed over something else. *)
Stop(r) ==
  /\ run[r] # Idle
  /\ Quit(r)
  /\ UNCHANGED <<transport, edition, served, cache, last>>

RunNext(r) ==
  \/ Start(r) \/ Ask(r) \/ ReadDirectory(r) \/ ReadCache(r) \/ Fetch(r)
  \/ DropCopy(r) \/ WriteCopy(r) \/ RenameCopy(r) \/ Stop(r)
Next == \E r \in Run : RunNext(r)

-----------------------------------------------------------------------------
(* Properties *)

(* What is cached is a whole index file that the registry served, never a part
   of one, whoever is writing it or was killed writing it. *)
CacheIsWhole == cache \in 1 .. edition \cup {None}

(* However often a run asks, it is told the same: what the resolver chose from
   is what the signature is looked up in. *)
RunSeesOneIndex == \A r \in Run : \A a, b \in run[r].asked : a = b

(* When no run is going on, an offline run would read what the last online run
   was told, if that run was alone and could write, whatever happened before: "`--offline` never contradicts the last online
   run" (docs/packaging.md, "Resolving offline"). *)
OfflineFollowsOnline ==
  last # None /\ (\A r \in Run : run[r] = Idle)
    => cache = IF last = Gone THEN None ELSE last
=============================================================================
