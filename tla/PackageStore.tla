---------------------------- MODULE PackageStore ----------------------------
(***************************************************************************)
(* The content-addressed package store one machine's projects share        *)
(* (store.rs), driven the way Sources::checkout drives it (sources.rs).     *)
(* A process is one run of the tool for one project.  It asks for packages  *)
(* one after another, and every step below ends at a filesystem call or a   *)
(* network answer another process can interleave with.                      *)
(*                                                                          *)
(* Bytes are abstracted to what hashing tells apart: the bytes a digest     *)
(* names are the digest itself, and Other stands for any bytes that do not  *)
(* hash to the digest they are filed or served under.                       *)
(***************************************************************************)
EXTENDS Naturals, FiniteSets

CONSTANTS
  Proc,        \* runs of the tool that share one $SLOPIUM_HOME
  Pkg,         \* resolved packages (PackageId with its checksum)
  Digest,      \* archive digests
  Key,         \* publishers' keys
  Wants,       \* Wants[p]: the packages project p checks out
  Modes,       \* Modes[p]: the access policies p runs under
  Trusted,     \* Trusted[p][k]: trusted-keys of k's registry, as p configures it
  Kind,        \* Kind[k]: which kind of source k comes from
  Checksum,    \* Checksum[k]: the digest the graph resolved for k
  Serves,      \* Serves[k]: what k's source may answer with, bytes or Unavailable
  Signs,       \* Signs[k]: what k's registry may answer for k's signature
  Files,       \* Files[d]: how many files the archive d unpacks to
  Readable,    \* digests whose bytes archive::read accepts
  Meddling,    \* faults, and what people do to the store by hand
  Absent,      \* no such file or directory
  Other,       \* bytes that hash to no digest in Digest
  Unavailable, \* a source that cannot be reached
  Unsigned     \* a registry that publishes no signature

VARIABLES
  archive,     \* archives/<digest>.sl.tar
  signature,   \* archives/<digest>.sl.tar.sig
  tree,        \* store/<digest>/
  run,         \* what each process is doing, see Run
  outcome      \* outcome[p][k]: how p's last checkout of k ended

files == <<archive, signature, tree>>
vars  == <<files, run, outcome>>

Bytes     == Digest \cup {Other}
Signature == [key : Key, of : Bytes]
Tree      == [of : Bytes, files : UNION {SUBSET (1..Files[d]) : d \in Digest}]

Errors == {"not_local", "fetch_failed", "served_mismatch", "malformed",
           "unsigned", "untrusted_key", "forged_signature",
           "store_mismatch", "io"}
Steps  == {"idle", "holds", "fetch", "insert", "rename", "verify", "file",
           "open", "look", "unpack", "seal", "place"}

(* A checkout under way: the package and access policy it was asked with, the
   signature a registry answered, whether a temporary archive waits to be
   renamed, the files in the temporary directory ({} if there is none), the
   archive entry to unpack next and the bytes it is unpacked from. *)
Run == [step : Steps, pkg : Pkg \cup {Absent}, access : {"online", "offline"},
        reply : Signature \cup {Absent}, staged : BOOLEAN,
        scratch : SUBSET Nat, next : Nat, opened : Bytes \cup {Absent}]

Idle == [step |-> "idle", pkg |-> Absent, access |-> "online", reply |-> Absent,
         staged |-> FALSE, scratch |-> {}, next |-> 1, opened |-> Absent]

ASSUME StoreAssumption ==
  /\ Wants \in [Proc -> SUBSET Pkg]
  /\ Modes \in [Proc -> SUBSET {"online", "offline"}]
  /\ Trusted \in [Proc -> [Pkg -> SUBSET Key]]
  /\ Kind \in [Pkg -> {"registry", "git", "toolchain"}]
  /\ Checksum \in [Pkg -> Digest]
  /\ Serves \in [Pkg -> SUBSET (Bytes \cup {Unavailable})]
  /\ Signs \in [Pkg -> SUBSET (Signature \cup {Unsigned, Unavailable})]
  /\ Files \in [Digest -> Nat \ {0}]
  /\ Readable \subseteq Digest
  /\ Meddling \subseteq {"edit", "delete", "delete_midway", "fault"}
  /\ Absent \notin Bytes \cup Signature \cup Tree /\ Other \notin Digest
  /\ Unavailable \notin Bytes /\ {Unsigned, Unavailable} \cap Signature = {}

Init ==
  /\ archive = [d \in Digest |-> Absent]
  /\ signature = [d \in Digest |-> Absent]
  /\ tree = [d \in Digest |-> Absent]
  /\ run = [p \in Proc |-> Idle]
  /\ outcome = [p \in Proc |-> [k \in Pkg |-> "none"]]

at(p, step) == run[p].step = step
sum(p)      == Checksum[run[p].pkg]
all(d)      == 1..Files[d]

-----------------------------------------------------------------------------
(* Leaving a step *)

Goto(p, step) == run' = [run EXCEPT ![p].step = step] /\ UNCHANGED outcome

End(p, how) ==
  /\ run' = [run EXCEPT ![p] = Idle]
  /\ outcome' = [outcome EXCEPT ![p][run[p].pkg] = how]

Start(p) ==
  /\ at(p, "idle")
  /\ \E k \in Wants[p], a \in Modes[p] :
       run' = [run EXCEPT ![p] = [Idle EXCEPT !.step = "holds", !.pkg = k, !.access = a]]
  /\ UNCHANGED <<files, outcome>>

(* Mutant: only the download that fills the store verifies a signature. *)
MutantTrustOnDownload(p) ==
  /\ at(p, "holds")
  /\ Goto(p, IF archive[sum(p)] # Absent THEN "open" ELSE "fetch")
  /\ UNCHANGED files

(* Sources::checkout: what the store already holds is not fetched. *)
Holds(p) ==
  /\ at(p, "holds")
  /\ Goto(p, IF archive[sum(p)] # Absent THEN "verify" ELSE "fetch")
  /\ UNCHANGED files

(* The toolchain's own packages are rendered from the binary, offline too.
   The answer is hashed before it is parsed and parsed before it is kept. *)
Fetch(p) ==
  /\ at(p, "fetch")
  /\ IF run[p].access = "offline" /\ Kind[run[p].pkg] # "toolchain"
     THEN End(p, "not_local")
     ELSE \E b \in Serves[run[p].pkg] :
            \/ b = Unavailable /\ End(p, "fetch_failed")
            \/ b \in Bytes \ {sum(p)} /\ End(p, "served_mismatch")
            \/ b = sum(p) /\ b \notin Readable /\ End(p, "malformed")
            \/ b = sum(p) /\ b \in Readable /\ Goto(p, "insert")
  /\ UNCHANGED files

(* Mutant: the archive is written under its final name. *)
MutantInsertInPlace(p) ==
  /\ at(p, "insert")
  /\ archive' = [archive EXCEPT ![sum(p)] = Other]
  /\ run' = [run EXCEPT ![p].step = "rename", ![p].staged = TRUE]
  /\ UNCHANGED <<signature, tree, outcome>>

(* Store::insert: an archive already present is left exactly as it is. *)
Insert(p) ==
  /\ at(p, "insert")
  /\ IF archive[sum(p)] # Absent
     THEN Goto(p, "verify")
     ELSE /\ run' = [run EXCEPT ![p].step = "rename", ![p].staged = TRUE]
          /\ UNCHANGED outcome
  /\ UNCHANGED files

RenameArchive(p) ==
  /\ at(p, "rename")
  /\ \/ /\ run[p].staged
        /\ archive' = [archive EXCEPT ![sum(p)] = sum(p)]
        /\ run' = [run EXCEPT ![p].step = "verify", ![p].staged = FALSE]
        /\ UNCHANGED outcome
     \/ ~run[p].staged /\ End(p, "io") /\ UNCHANGED archive
  /\ UNCHANGED <<signature, tree>>

-----------------------------------------------------------------------------
(* Sources::verify_signature *)

MustBeSigned(p, k) == Kind[k] = "registry" /\ Trusted[p][k] # {}

(* Mutant: a trusted name on a signature that does not verify is enough. *)
MutantJudgeByName(p, s) ==
  \/ s.key \notin Trusted[p][run[p].pkg] /\ End(p, "untrusted_key")
  \/ s.key \in Trusted[p][run[p].pkg] /\ Goto(p, "open")

(* signature::trust, over the statement the signature was made about. *)
Judge(p, s) ==
  LET trusted == Trusted[p][run[p].pkg] IN
    \/ s.key \notin trusted /\ End(p, "untrusted_key")
    \/ s.key \in trusted /\ s.of # sum(p) /\ End(p, "forged_signature")
    \/ s.key \in trusted /\ s.of = sum(p) /\ Goto(p, "open")

AskForSignature(p) ==
  \E s \in Signs[run[p].pkg] :
    \/ s = Unavailable /\ End(p, "fetch_failed")
    \/ s = Unsigned /\ End(p, "unsigned")
    \/ /\ s \in Signature
       /\ run' = [run EXCEPT ![p].step = "file", ![p].reply = s]
       /\ UNCHANGED outcome

VerifySignature(p) ==
  /\ at(p, "verify")
  /\ IF ~MustBeSigned(p, run[p].pkg) THEN Goto(p, "open")
     ELSE IF signature[sum(p)] # Absent THEN Judge(p, signature[sum(p)])
     ELSE IF run[p].access = "offline" THEN End(p, "unsigned")
     ELSE AskForSignature(p)
  /\ UNCHANGED files

(* Mutant: the signature is judged and not kept. *)
MutantSignatureNotFiled(p) ==
  /\ at(p, "file")
  /\ Judge(p, run[p].reply)
  /\ UNCHANGED files

(* The signature is filed with the archive before anyone judges it. *)
FileSignature(p) ==
  /\ at(p, "file")
  /\ signature' = [signature EXCEPT ![sum(p)] = run[p].reply]
  /\ Judge(p, run[p].reply)
  /\ UNCHANGED <<archive, tree>>

-----------------------------------------------------------------------------
(* Store::checkout *)

(* Mutant: stored bytes are trusted because of the name they are under. *)
MutantOpenUnhashed(p) ==
  /\ at(p, "open")
  /\ IF archive[sum(p)] = Absent THEN End(p, "not_local")
     ELSE /\ run' = [run EXCEPT ![p].step = "look", ![p].opened = archive[sum(p)]]
          /\ UNCHANGED outcome
  /\ UNCHANGED files

(* The archive is read and hashed on every checkout, before anything is
   unpacked from it. *)
OpenArchive(p) ==
  /\ at(p, "open")
  /\ LET b == archive[sum(p)] IN
       \/ b = Absent /\ End(p, "not_local")
       \/ b \in Bytes \ {sum(p)} /\ End(p, "store_mismatch")
       \/ /\ b = sum(p)
          /\ run' = [run EXCEPT ![p].step = "look", ![p].opened = b]
          /\ UNCHANGED outcome
  /\ UNCHANGED files

LookForTree(p) ==
  /\ at(p, "look")
  /\ IF tree[sum(p)] # Absent THEN End(p, "ok") ELSE Goto(p, "unpack")
  /\ UNCHANGED files

(* One file: its parent directories are created first, whether or not they
   existed a moment ago. *)
Unpack(p) ==
  /\ at(p, "unpack")
  /\ run' = [run EXCEPT
       ![p].scratch = @ \cup {run[p].next},
       ![p].next = @ + 1,
       ![p].step = IF run[p].next = Files[sum(p)] THEN "seal" ELSE "unpack"]
  /\ UNCHANGED <<files, outcome>>

Seal(p) ==
  /\ at(p, "seal")
  /\ IF run[p].scratch = {} THEN End(p, "io") ELSE Goto(p, "place")
  /\ UNCHANGED files

(* Mutant: losing the race to place the tree is an error. *)
MutantLoserFails(p) ==
  /\ at(p, "place")
  /\ IF run[p].scratch # {} /\ tree[sum(p)] = Absent
     THEN /\ tree' = [tree EXCEPT ![sum(p)] =
                        [of |-> run[p].opened, files |-> run[p].scratch]]
          /\ End(p, "ok")
     ELSE UNCHANGED tree /\ End(p, "io")
  /\ UNCHANGED <<archive, signature>>

(* rename(2) refuses a destination that is a directory with files in it; the
   tree somebody else placed first is then taken for this one. *)
PlaceTree(p) ==
  /\ at(p, "place")
  /\ IF run[p].scratch # {} /\ tree[sum(p)] = Absent
     THEN /\ tree' = [tree EXCEPT ![sum(p)] =
                        [of |-> run[p].opened, files |-> run[p].scratch]]
          /\ End(p, "ok")
     ELSE /\ UNCHANGED tree
          /\ End(p, IF tree[sum(p)] # Absent THEN "ok" ELSE "io")
  /\ UNCHANGED <<archive, signature>>

-----------------------------------------------------------------------------
(* What else happens to a store *)

(* A killed process, or a filesystem call that failed.  Its temporary files
   stay behind under names no other process uses, so nobody sees them. *)
Stop(p) ==
  /\ "fault" \in Meddling
  /\ ~at(p, "idle")
  /\ End(p, "stopped")
  /\ UNCHANGED files

EditArchive(d) ==
  /\ "edit" \in Meddling
  /\ archive[d] # Absent
  /\ archive' = [archive EXCEPT ![d] = Other]
  /\ UNCHANGED <<signature, tree, run, outcome>>

(* What a store_mismatch tells the user to do. *)
DeleteArchive(d) ==
  /\ "delete" \in Meddling
  /\ archive' = [archive EXCEPT ![d] = Absent]
  /\ UNCHANGED <<signature, tree, run, outcome>>

DeleteTree(d) ==
  /\ "delete" \in Meddling
  /\ tree' = [tree EXCEPT ![d] = Absent]
  /\ UNCHANGED <<archive, signature, run, outcome>>

(* rm -rf "$SLOPIUM_HOME": the temporary files go too. *)
DeleteStore ==
  /\ {"delete", "delete_midway"} \cap Meddling # {}
  /\ "delete_midway" \notin Meddling => \A p \in Proc : at(p, "idle")
  /\ archive' = [d \in Digest |-> Absent]
  /\ signature' = [d \in Digest |-> Absent]
  /\ tree' = [d \in Digest |-> Absent]
  /\ run' = [p \in Proc |-> [run[p] EXCEPT !.staged = FALSE, !.scratch = {}]]
  /\ UNCHANGED outcome

Checkout(p) ==
  \/ Holds(p) \/ Fetch(p) \/ Insert(p) \/ RenameArchive(p)
  \/ VerifySignature(p) \/ FileSignature(p)
  \/ OpenArchive(p) \/ LookForTree(p) \/ Unpack(p) \/ Seal(p) \/ PlaceTree(p)

Next ==
  \/ \E p \in Proc : Start(p) \/ Checkout(p) \/ Stop(p)
  \/ \E d \in Digest : EditArchive(d) \/ DeleteArchive(d) \/ DeleteTree(d)
  \/ DeleteStore

Spec == Init /\ [][Next]_vars

(* A started run keeps executing; nobody has to start one. *)
FairSpec == Spec /\ \A p \in Proc : WF_vars(Checkout(p))

-----------------------------------------------------------------------------
(* Properties *)

(* Every variable has its type; a process that is not idle has a package, and
   one that is to file a signature has been answered with one. *)
TypeOK ==
  /\ archive \in [Digest -> Bytes \cup {Absent}]
  /\ signature \in [Digest -> Signature \cup {Absent}]
  /\ tree \in [Digest -> Tree \cup {Absent}]
  /\ run \in [Proc -> Run]
  /\ \A p \in Proc : (~at(p, "idle") => run[p].pkg \in Pkg)
                    /\ (at(p, "file") => run[p].reply \in Signature)
  /\ outcome \in [Proc -> [Pkg -> Errors \cup {"none", "ok", "stopped"}]]

(* A tree under a digest is the whole package that digest names, whichever
   runs raced, were killed, or found the archive edited (store.rs: "sees
   either nothing or the finished tree, and never a directory missing half
   its modules"). *)
TreesWhole ==
  \A d \in Digest : tree[d] # Absent => tree[d] = [of |-> d, files |-> all(d)]

Placing == {"open", "look", "unpack", "seal", "place"}

(* Someone p trusts signed d, and some registry published that signature. *)
Vouched(p, k) ==
  \E j \in Pkg : \E s \in Signs[j] \cap Signature :
    Checksum[j] = Checksum[k] /\ s.of = Checksum[k] /\ s.key \in Trusted[p][k]

(* A project with trusted keys never builds a package nobody it trusts
   signed, even when another project, which trusts nobody, put the bytes in
   the shared store first (sources.rs, D-058). *)
TrustIsPerProject ==
  \A p \in Proc, k \in Pkg :
    (outcome[p][k] = "ok" \/ (run[p].step \in Placing /\ run[p].pkg = k))
      /\ MustBeSigned(p, k) => Vouched(p, k)

(* While nobody touches the store by hand, a package once checked out stays
   checked out, with the signature that let it through: the same project can
   build offline from then on (docs/packaging.md: "a project that has
   resolved once builds offline from the store"). *)
OfflineReplays ==
  \A p \in Proc, k \in Pkg :
    outcome[p][k] = "ok" =>
      LET d == Checksum[k] IN
        /\ archive[d] = d
        /\ tree[d] # Absent
        /\ MustBeSigned(p, k) =>
             /\ signature[d] # Absent
             /\ signature[d].key \in Trusted[p][k] /\ signature[d].of = d

(* No run changes an archive or a tree that is already there: an archive goes
   from absent to the bytes its digest names, a tree from absent to whole. *)
StoreIsAppendOnly ==
  [][\A d \in Digest :
       /\ archive'[d] # archive[d] => archive[d] = Absent /\ archive'[d] = d
       /\ tree'[d] # tree[d] => tree[d] = Absent]_vars

(* An online run that asks for a package gets it in the end, unless it is
   stopped, whatever the other runs are in the middle of or were killed at. *)
EveryCheckoutSucceeds ==
  \A p \in Proc, k \in Pkg :
    (at(p, "holds") /\ run[p].pkg = k /\ run[p].access = "online")
      ~> outcome[p][k] \in {"ok", "stopped"}

-----------------------------------------------------------------------------
(* The store implements the indivisible cache of ContentCache. *)

Cache == INSTANCE ContentCache WITH
  Entitled  <- [p \in Proc |-> [k \in Pkg |-> MustBeSigned(p, k) => Vouched(p, k)]],
  Forgets   <- "delete" \in Meddling,
  available <- {d \in Digest : tree[d] = [of |-> d, files |-> all(d)]},
  answer    <- [p \in Proc |-> [k \in Pkg |->
                 IF outcome[p][k] \in {"none", "ok"} THEN outcome[p][k] ELSE "refused"]]

(* Every checkout, with its races, crashes and edited archives, looks from
   outside like one step that gives a whole tree or refuses (store.rs). *)
ImplementsCache == Cache!Spec

-----------------------------------------------------------------------------
(* The inductive invariant behind TreesWhole *)

(* What a process unpacks was hashed before its first file was written. *)
OpenedBytesVerified ==
  \A p \in Proc :
    run[p].step \in {"look", "unpack", "seal", "place"} => run[p].opened = sum(p)

(* A temporary directory holds exactly the entries before the next one. *)
ScratchIsPrefix ==
  \A p \in Proc :
    /\ run[p].step \in Steps \ {"unpack", "seal", "place"} =>
         run[p].next = 1 /\ run[p].scratch = {}
    /\ at(p, "unpack") =>
         run[p].next \in all(sum(p)) /\ run[p].scratch = 1..(run[p].next - 1)
    /\ run[p].step \in {"seal", "place"} => run[p].scratch = all(sum(p))

StoreInv == TypeOK /\ TreesWhole /\ OpenedBytesVerified /\ ScratchIsPrefix
=============================================================================
