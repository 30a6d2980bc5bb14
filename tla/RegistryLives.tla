----------------------------- MODULE RegistryLives -----------------------------
(***************************************************************************)
(* A registry of one package with both its sides: people who publish into   *)
(* its directory and runs that read the index, over a URL that may stop     *)
(* serving the package or from the directory, while it grows.               *)
(***************************************************************************)
EXTENDS Naturals, Sequences

CONSTANTS
  Publisher, Version, Bytes, MaxKills,             \* see Registry
  Run,                                             \* see IndexCache
  Crowds,      \* bound: [publishers, runs, kills, editions, transports] that
               \* take part together
  None, Torn, EOL, Gone

ASSUME RegistryAssumption ==
  /\ MaxKills \in Nat
  /\ Publisher # {} /\ Version # {} /\ Bytes # {}
  /\ \A c \in Crowds : c.publishers \subseteq Publisher /\ c.runs \subseteq Run
  /\ None \notin Nat /\ Gone \notin Nat /\ None # Gone
  /\ EOL \notin [version : Version, checksum : Bytes]

VARIABLES
  archive, signature, index, publishers, kills,    \* see Registry
  transport, cache, runs, last,                    \* see IndexCache
  contested,   \* history: versions that two publishers were at work on at once
  withdrawn,   \* whether the registry does not serve the package just now
  crowd        \* who takes part

(* What is read is the index as it stands: as many editions as there were
   writes to it. *)
Edition == Len(index)
Served == IF withdrawn \/ index = <<>> THEN Gone ELSE Edition

P == INSTANCE Registry WITH run <- publishers
C == INSTANCE IndexCache WITH run <- runs, edition <- Edition, served <- Served

registryVars == <<archive, signature, index, publishers, kills>>
clientVars == <<transport, cache, runs, last>>
vars == <<registryVars, clientVars, contested, withdrawn, crowd>>

(* The versions on which two publishers are at work, both before their line:
   once one is listed nobody starts on it. *)
Overlapping ==
  {v \in Version : \E p, q \in Publisher :
     p # q /\ publishers[p].version = v /\ publishers[q].version = v}

Init ==
  /\ P!Init /\ C!Init
  /\ contested = {}
  /\ withdrawn = FALSE
  /\ crowd \in Crowds /\ transport \in crowd.transports

Publishing ==
  /\ \E p \in crowd.publishers : P!PublisherNext(p)
  /\ kills' <= crowd.kills /\ Edition' <= crowd.editions
  /\ contested' = contested \cup Overlapping'
  /\ UNCHANGED <<clientVars, withdrawn, crowd>>

Reading ==
  /\ UNCHANGED <<registryVars, contested, withdrawn, crowd>>
  /\ \E r \in crowd.runs : C!RunNext(r)

(* The package is taken off the registry, or put back. *)
Withdraw ==
  /\ crowd.runs # {} /\ index # <<>>
  /\ withdrawn' = ~withdrawn
  /\ UNCHANGED <<registryVars, clientVars, contested, crowd>>

Next == Publishing \/ Reading \/ Withdraw
Spec == Init /\ [][Next]_vars

-----------------------------------------------------------------------------
(* Properties.  Two publishers of one version may both find it unpublished and
   then overwrite each other's files and append a line each: `publish` holds
   nothing between the check and the line.  What is promised of a version is
   promised unless that has happened to it, and then to it alone. *)

(* main.rs `publish`: whatever the index publishes is there, whole, with the
   bytes its line names and a signature over exactly those, whoever of the
   publishers was killed where or publishes it again, unless two were at work on
   that version at once. *)
IndexedIsServed ==
  \A e \in P!Entries : e.version \notin contested =>
    archive[e.version] = e.checksum /\ signature[e.version] = e

(* main.rs `publish`: "a republished version is the one change no lockfile can
   notice" (docs/decisions.md, D-059).  A version gets a second line only from
   publishers who were at work on it at once: no kill, no unfinished line and no
   later attempt brings it about. *)
OneEntryPerVersion ==
  \A i, j \in DOMAIN index :
    index[i] # EOL /\ index[j] # EOL /\ index[i].version = index[j].version
      => i = j \/ index[i].version \in contested

(* main.rs `publish`: a line stays, and so do the bytes it names, unless two
   publishers were at work on its version at once. *)
PublishedIsForever ==
  [][/\ Len(index') >= Len(index) /\ \A i \in DOMAIN index : index'[i] = index[i]
     /\ \A e \in P!Entries : e.version \notin contested =>
          archive'[e.version] = archive[e.version]]_vars

(* registry.rs `cache_index_file`: what is cached is a whole index file that the
   registry served, whoever is writing it or was killed writing it. *)
CacheIsWhole == C!CacheIsWhole

(* registry.rs `index_file`: when no run is going on, an offline run would read
   what the last online run was told, if that was alone and could write. *)
OfflineFollowsOnline == C!OfflineFollowsOnline

(* registry.rs `versions`: a run is told one thing however often it asks. *)
RunSeesOneIndex == C!RunSeesOneIndex

(* Whatever a run is told, online or from the cache, names only archives that
   the registry holds with those very bytes, so that what it resolved can be
   downloaded and passes its digest, unless two publishers were at work on the
   version at once. *)
ToldIsServed ==
  \A r \in Run : \A told \in runs[r].asked \ {Gone} : \A i \in 1 .. told :
    index[i] # EOL /\ index[i].version \notin contested =>
      archive[index[i].version] = index[i].checksum
=============================================================================
