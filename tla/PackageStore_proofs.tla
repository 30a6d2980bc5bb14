------------------------ MODULE PackageStore_proofs ------------------------
(***************************************************************************)
(* StoreInv is inductive, for any number of processes, packages and         *)
(* digests, as long as nobody deletes the store while a run is using it.    *)
(***************************************************************************)
EXTENDS PackageStore, TLAPS

(* What StoreInv says of one process's run. *)
Good(r) ==
  /\ r \in Run
  /\ r.step # "idle" => r.pkg \in Pkg
  /\ r.step = "file" => r.reply \in Signature
  /\ r.step \in {"look", "unpack", "seal", "place"} => r.opened = Checksum[r.pkg]
  /\ r.step \in Steps \ {"unpack", "seal", "place"} => r.next = 1 /\ r.scratch = {}
  /\ r.step = "unpack" =>
       r.next \in all(Checksum[r.pkg]) /\ r.scratch = 1..(r.next - 1)
  /\ r.step \in {"seal", "place"} => r.scratch = all(Checksum[r.pkg])

(* What StoreInv says of the files, and of the outcomes. *)
FilesOK ==
  /\ archive \in [Digest -> Bytes \cup {Absent}]
  /\ signature \in [Digest -> Signature \cup {Absent}]
  /\ tree \in [Digest -> Tree \cup {Absent}]
  /\ TreesWhole

OutcomeOK == outcome \in [Proc -> [Pkg -> Errors \cup {"none", "ok", "stopped"}]]

RunOK == run \in [Proc -> Run] /\ \A p \in Proc : Good(run[p])

(* What the invariant says of the checkouts, each on its own. *)
LEMMA RunParts ==
  RunOK <=> /\ run \in [Proc -> Run]
            /\ \A p \in Proc : (~at(p, "idle") => run[p].pkg \in Pkg)
                              /\ (at(p, "file") => run[p].reply \in Signature)
            /\ OpenedBytesVerified /\ ScratchIsPrefix
<1>1. ASSUME RunOK
      PROVE  /\ run \in [Proc -> Run]
             /\ \A p \in Proc : (~at(p, "idle") => run[p].pkg \in Pkg)
                               /\ (at(p, "file") => run[p].reply \in Signature)
             /\ OpenedBytesVerified /\ ScratchIsPrefix
  <2>1. run \in [Proc -> Run] /\ \A p \in Proc : Good(run[p])
    BY <1>1 DEF RunOK
  <2>. QED BY <2>1, Zenon DEF Good, at, sum, OpenedBytesVerified, ScratchIsPrefix
<1>2. ASSUME run \in [Proc -> Run],
             \A p \in Proc : (~at(p, "idle") => run[p].pkg \in Pkg)
                             /\ (at(p, "file") => run[p].reply \in Signature),
             OpenedBytesVerified, ScratchIsPrefix
      PROVE  RunOK
  <2>1. ASSUME NEW p \in Proc PROVE Good(run[p])
    <3>1. run[p] \in Run
      BY <1>2
    <3>. QED BY <1>2, <3>1, Zenon DEF Good, at, sum, OpenedBytesVerified, ScratchIsPrefix
  <2>. QED BY <1>2, <2>1, Zenon DEF RunOK
<1>. QED BY <1>1, <1>2, Zenon

(* The invariant by what it says of the files, the outcomes and the checkouts. *)
LEMMA Parts == StoreInv <=> FilesOK /\ OutcomeOK /\ RunOK
  BY RunParts, Zenon DEF StoreInv, FilesOK, OutcomeOK, TypeOK

(* The same in the next state. *)
LEMMA RunPartsPrime ==
  RunOK' <=> /\ run' \in [Proc -> Run]
             /\ \A p \in Proc : (~at(p, "idle")' => run'[p].pkg \in Pkg)
                               /\ (at(p, "file")' => run'[p].reply \in Signature)
             /\ OpenedBytesVerified' /\ ScratchIsPrefix'
<1>1. ASSUME RunOK'
      PROVE  /\ run' \in [Proc -> Run]
             /\ \A p \in Proc : (~at(p, "idle")' => run'[p].pkg \in Pkg)
                               /\ (at(p, "file")' => run'[p].reply \in Signature)
             /\ OpenedBytesVerified' /\ ScratchIsPrefix'
  <2>1. run' \in [Proc -> Run] /\ \A p \in Proc : Good(run'[p])
    BY <1>1 DEF RunOK
  <2>. QED BY <2>1, Zenon DEF Good, at, sum, OpenedBytesVerified, ScratchIsPrefix
<1>2. ASSUME run' \in [Proc -> Run],
             \A p \in Proc : (~at(p, "idle")' => run'[p].pkg \in Pkg)
                             /\ (at(p, "file")' => run'[p].reply \in Signature),
             OpenedBytesVerified', ScratchIsPrefix'
      PROVE  RunOK'
  <2>1. ASSUME NEW p \in Proc PROVE Good(run'[p])
    <3>1. run'[p] \in Run
      BY <1>2
    <3>. QED BY <1>2, <3>1, Zenon DEF Good, at, sum, OpenedBytesVerified, ScratchIsPrefix
  <2>. QED BY <1>2, <2>1, Zenon DEF RunOK
<1>. QED BY <1>1, <1>2, Zenon

(* The same in the next state. *)
LEMMA PartsPrime == StoreInv' <=> FilesOK' /\ OutcomeOK' /\ RunOK'
  BY RunPartsPrime, Zenon DEF StoreInv, FilesOK, OutcomeOK, TypeOK

(* A process with nothing to do is in order. *)
LEMMA IdleIsGood == Good(Idle)
  BY DEF Good, Idle, Run, Steps

(* A process's run may become any good one. *)
LEMMA RunStep ==
  ASSUME RunOK, NEW p \in Proc, NEW r, Good(r), run' = [run EXCEPT ![p] = r]
  PROVE  RunOK'
  BY DEF RunOK, Good

(* Ending a checkout keeps the runs and the outcomes well formed. *)
LEMMA EndStep ==
  ASSUME RunOK, OutcomeOK, NEW p \in Proc, ~at(p, "idle"),
         NEW how \in Errors \cup {"ok", "stopped"}, End(p, how)
  PROVE  RunOK' /\ OutcomeOK'
<1>1. RunOK'
  BY IdleIsGood, RunStep DEF End
<1>2. run[p].pkg \in Pkg
  BY DEF RunOK, Good, at
<1>3. OutcomeOK'
  BY <1>2 DEF End, OutcomeOK
<1>. QED BY <1>1, <1>3

Quiet == {"idle", "holds", "fetch", "insert", "rename", "verify", "file", "open"}

(* So does moving between two steps that unpack nothing. *)
LEMMA GotoStep ==
  ASSUME RunOK, OutcomeOK, NEW p \in Proc, run[p].step \in Quiet \ {"idle"},
         NEW step \in Quiet \ {"file"}, Goto(p, step)
  PROVE  RunOK' /\ OutcomeOK'
<1>1. Good([run[p] EXCEPT !.step = step])
  BY DEF RunOK, Good, Quiet, Run, Steps
<1>2. run' = [run EXCEPT ![p] = [run[p] EXCEPT !.step = step]]
  BY DEF Goto
<1>3. RunOK'
  BY <1>1, <1>2, RunStep
<1>4. OutcomeOK'
  BY DEF Goto, OutcomeOK
<1>. QED BY <1>3, <1>4

(* Steps that leave the store alone leave it sound. *)
LEMMA FilesSame == ASSUME FilesOK, UNCHANGED files PROVE FilesOK'
  BY DEF FilesOK, files, TreesWhole

-----------------------------------------------------------------------------
(* One lemma per step of a checkout. *)

(* A checkout begins. *)
LEMMA StartStep ==
  ASSUME StoreInv, NEW p \in Proc, Start(p) PROVE StoreInv'
<1>1. PICK k \in Wants[p], a \in Modes[p] :
        run' = [run EXCEPT ![p] = [Idle EXCEPT !.step = "holds", !.pkg = k, !.access = a]]
  BY DEF Start
<1>2. k \in Pkg /\ a \in {"online", "offline"}
  BY StoreAssumption
<1>3. Good([Idle EXCEPT !.step = "holds", !.pkg = k, !.access = a])
  BY <1>2 DEF Good, Idle, Run, Steps
<1>4. RunOK'
  BY <1>1, <1>3, Parts, RunStep
<1>5. OutcomeOK' /\ FilesOK'
  BY Parts, FilesSame DEF Start, OutcomeOK
<1>. QED BY <1>4, <1>5, PartsPrime

(* Store::holds finds the archive there, or not. *)
LEMMA HoldsStep ==
  ASSUME StoreInv, NEW p \in Proc, Holds(p) PROVE StoreInv'
<1>1. PICK step \in {"verify", "fetch"} : Goto(p, step)
  BY DEF Holds
<1>2. RunOK' /\ OutcomeOK'
  BY <1>1, Parts, GotoStep DEF Holds, at, Quiet
<1>. QED BY <1>2, Parts, PartsPrime, FilesSame DEF Holds

(* An archive is fetched, or the registry cannot be reached. *)
LEMMA FetchStep ==
  ASSUME StoreInv, NEW p \in Proc, Fetch(p) PROVE StoreInv'
<1>1. \/ \E how \in {"not_local", "fetch_failed", "served_mismatch", "malformed"} : End(p, how)
      \/ Goto(p, "insert")
  BY DEF Fetch
<1>2. ~at(p, "idle") /\ run[p].step \in Quiet \ {"idle"}
  BY DEF Fetch, at, Quiet
<1>3. RunOK' /\ OutcomeOK'
  BY <1>1, <1>2, Parts, EndStep, GotoStep DEF Errors, Quiet
<1>. QED BY <1>3, Parts, PartsPrime, FilesSame DEF Fetch

(* Store::insert checks the digest and writes the archive to a scratch file. *)
LEMMA InsertStep ==
  ASSUME StoreInv, NEW p \in Proc, Insert(p) PROVE StoreInv'
<1>1. FilesOK'
  BY Parts, FilesSame DEF Insert
<1>2. CASE Goto(p, "verify")
  BY <1>1, <1>2, Parts, PartsPrime, GotoStep DEF Insert, at, Quiet
<1>3. CASE /\ run' = [run EXCEPT ![p].step = "rename", ![p].staged = TRUE]
           /\ UNCHANGED outcome
  <2>1. Good([run[p] EXCEPT !.step = "rename", !.staged = TRUE])
    BY Parts DEF RunOK, Good, Run, Steps, Insert, at
  <2>2. RunOK'
    BY <1>3, <2>1, Parts, RunStep
  <2>. QED BY <1>1, <1>3, <2>2, Parts, PartsPrime DEF OutcomeOK
<1>. QED BY <1>2, <1>3 DEF Insert

(* The archive that appears is the one its digest names; no tree changes. *)
LEMMA RenameArchiveStep ==
  ASSUME StoreInv, NEW p \in Proc, RenameArchive(p) PROVE StoreInv'
<1>1. run[p].pkg \in Pkg /\ sum(p) \in Digest
  BY Parts, StoreAssumption DEF RenameArchive, RunOK, Good, at, sum
<1>2. FilesOK'
  BY <1>1, Parts DEF RenameArchive, FilesOK, TreesWhole, Bytes
<1>3. CASE End(p, "io")
  BY <1>2, <1>3, Parts, PartsPrime, EndStep DEF RenameArchive, at, Errors
<1>4. CASE /\ run' = [run EXCEPT ![p].step = "verify", ![p].staged = FALSE]
           /\ UNCHANGED outcome
  <2>1. Good([run[p] EXCEPT !.step = "verify", !.staged = FALSE])
    BY Parts DEF RunOK, Good, Run, Steps, RenameArchive, at
  <2>2. RunOK'
    BY <1>4, <2>1, Parts, RunStep
  <2>. QED BY <1>2, <1>4, <2>2, Parts, PartsPrime DEF OutcomeOK
<1>. QED BY <1>3, <1>4 DEF RenameArchive

(* What is made of a signature touches no file. *)
LEMMA JudgeStep ==
  ASSUME StoreInv, NEW p \in Proc, run[p].step \in Quiet \ {"idle"}, NEW s, Judge(p, s)
  PROVE  RunOK' /\ OutcomeOK'
<1>1. \/ \E how \in {"untrusted_key", "forged_signature"} : End(p, how)
      \/ Goto(p, "open")
  BY DEF Judge
<1>. QED BY <1>1, Parts, EndStep, GotoStep DEF at, Errors, Quiet

(* A signature is looked for in the store and then at the registry. *)
LEMMA VerifySignatureStep ==
  ASSUME StoreInv, NEW p \in Proc, VerifySignature(p) PROVE StoreInv'
<1>1. FilesOK'
  BY Parts, FilesSame DEF VerifySignature
<1>2. run[p].step \in Quiet \ {"idle"} /\ ~at(p, "idle")
  BY DEF VerifySignature, at, Quiet
<1>3. CASE Goto(p, "open")
  BY <1>2, <1>3, Parts, GotoStep, <1>1, PartsPrime DEF Quiet
<1>4. CASE Judge(p, signature[sum(p)])
  BY <1>1, <1>2, <1>4, JudgeStep, PartsPrime
<1>5. CASE \E how \in {"unsigned", "fetch_failed"} : End(p, how)
  BY <1>1, <1>2, <1>5, Parts, PartsPrime, EndStep DEF Errors
<1>6. CASE \E s \in Signature :
             /\ run' = [run EXCEPT ![p].step = "file", ![p].reply = s]
             /\ UNCHANGED outcome
  <2>1. PICK s \in Signature : run' = [run EXCEPT ![p].step = "file", ![p].reply = s]
    BY <1>6
  <2>2. Good([run[p] EXCEPT !.step = "file", !.reply = s])
    BY <1>2, Parts DEF RunOK, Good, Run, Steps, Quiet
  <2>3. RunOK'
    BY <2>1, <2>2, Parts, RunStep
  <2>. QED BY <1>1, <1>6, <2>3, Parts, PartsPrime DEF OutcomeOK
<1>. QED BY <1>3, <1>4, <1>5, <1>6 DEF VerifySignature, AskForSignature

(* The signature that was fetched is filed in the store. *)
LEMMA FileSignatureStep ==
  ASSUME StoreInv, NEW p \in Proc, FileSignature(p) PROVE StoreInv'
<1>1. run[p].pkg \in Pkg /\ sum(p) \in Digest /\ run[p].reply \in Signature
  BY Parts, StoreAssumption DEF FileSignature, RunOK, Good, at, sum, Run
<1>2. FilesOK'
  BY <1>1, Parts DEF FileSignature, FilesOK, TreesWhole
<1>3. RunOK' /\ OutcomeOK'
  BY JudgeStep DEF FileSignature, at, Quiet
<1>. QED BY <1>2, <1>3, PartsPrime

(* The archive is read and its digest checked. *)
LEMMA OpenArchiveStep ==
  ASSUME StoreInv, NEW p \in Proc, OpenArchive(p) PROVE StoreInv'
<1>1. FilesOK'
  BY Parts, FilesSame DEF OpenArchive
<1>2. run[p].pkg \in Pkg /\ sum(p) \in Bytes
  BY Parts, StoreAssumption DEF OpenArchive, RunOK, Good, at, sum, Bytes
<1>3. CASE \E how \in {"not_local", "store_mismatch"} : End(p, how)
  BY <1>1, <1>3, Parts, PartsPrime, EndStep DEF OpenArchive, at, Errors
<1>4. CASE /\ run' = [run EXCEPT ![p].step = "look", ![p].opened = sum(p)]
           /\ UNCHANGED outcome
  <2>1. Good([run[p] EXCEPT !.step = "look", !.opened = sum(p)])
    BY <1>2, Parts DEF RunOK, Good, Run, Steps, OpenArchive, at, sum
  <2>2. RunOK'
    BY <1>4, <2>1, Parts, RunStep
  <2>. QED BY <1>1, <1>4, <2>2, Parts, PartsPrime DEF OutcomeOK
<1>. QED BY <1>3, <1>4 DEF OpenArchive

(* A sealed tree is taken for what the archive unpacks to. *)
LEMMA LookForTreeStep ==
  ASSUME StoreInv, NEW p \in Proc, LookForTree(p) PROVE StoreInv'
<1>1. FilesOK'
  BY Parts, FilesSame DEF LookForTree
<1>2. CASE End(p, "ok")
  BY <1>1, <1>2, Parts, PartsPrime, EndStep DEF LookForTree, at
<1>3. CASE Goto(p, "unpack")
  <2>1. run[p].pkg \in Pkg /\ Files[sum(p)] \in Nat \ {0}
    BY Parts, StoreAssumption DEF LookForTree, RunOK, Good, at, sum
  <2>2. Good([run[p] EXCEPT !.step = "unpack"])
    <3>1. /\ run[p].next = 1 /\ run[p].scratch = 1..(1 - 1)
          /\ run[p].opened = sum(p) /\ run[p] \in Run
      BY Parts DEF RunOK, Good, Steps, LookForTree, at, sum
    <3> DEFINE r == [run[p] EXCEPT !.step = "unpack"]
    <3>2. /\ r \in Run /\ r.step = "unpack" /\ r.next = 1 /\ r.scratch = 1..(1 - 1)
          /\ r.opened = sum(p) /\ r.pkg = run[p].pkg
      BY <3>1 DEF Run, Steps
    <3>3. Good(r) <=> r.next \in all(sum(p)) /\ r.scratch = 1..(r.next - 1)
      BY <2>1, <3>2, Zenon DEF Good, sum
    <3>4. r.next \in all(sum(p)) /\ r.scratch = 1..(r.next - 1)
      <4>1. 1 \in 1..Files[sum(p)]
        BY <2>1
      <4>. QED BY <3>2, <4>1, Zenon DEF all
    <3>. QED BY <3>3, <3>4, Zenon
  <2>3. run' = [run EXCEPT ![p] = [run[p] EXCEPT !.step = "unpack"]]
    BY <1>3 DEF Goto
  <2>4. RunOK'
    BY <2>2, <2>3, Parts, RunStep
  <2>. QED BY <1>1, <1>3, <2>4, Parts, PartsPrime DEF Goto, OutcomeOK
<1>. QED BY <1>2, <1>3 DEF LookForTree

(* The directory gains the entry after the ones it held. *)
LEMMA UnpackStep ==
  ASSUME StoreInv, NEW p \in Proc, Unpack(p) PROVE StoreInv'
<1> DEFINE n    == run[p].next
           r    == [run[p] EXCEPT !.scratch = @ \cup {n}, !.next = @ + 1,
                     !.step = IF n = Files[sum(p)] THEN "seal" ELSE "unpack"]
<1>1. /\ run[p] \in Run /\ run[p].step = "unpack" /\ run[p].pkg \in Pkg
      /\ Files[sum(p)] \in Nat \ {0}
      /\ n \in 1..Files[sum(p)] /\ run[p].scratch = 1..(n - 1)
      /\ run[p].opened = sum(p)
  BY Parts, StoreAssumption DEF Unpack, RunOK, Good, at, sum, all
<1>2. 1..(n - 1) \cup {n} = 1..n /\ n \in Nat /\ n + 1 \in Nat
  BY <1>1
<1>3. /\ r.scratch = 1..n /\ r.next = n + 1 /\ r.pkg = run[p].pkg
      /\ r.opened = run[p].opened
      /\ r.step = IF n = Files[sum(p)] THEN "seal" ELSE "unpack"
  BY <1>1, <1>2 DEF Run
<1>4. r \in Run
  BY <1>1, <1>2 DEF Run, Steps
<1>5. Good(r)
  BY <1>1, <1>2, <1>3, <1>4 DEF Good, all, sum
<1>6. run' = [run EXCEPT ![p] = r]
  BY <1>1 DEF Unpack
<1>7. RunOK'
  BY <1>5, <1>6, Parts, RunStep
<1>. QED BY <1>7, Parts, PartsPrime, FilesSame DEF Unpack, OutcomeOK

(* The scratch tree is sealed once all of it is there. *)
LEMMA SealStep ==
  ASSUME StoreInv, NEW p \in Proc, Seal(p) PROVE StoreInv'
<1>1. FilesOK'
  BY Parts, FilesSame DEF Seal
<1>2. CASE End(p, "io")
  BY <1>1, <1>2, Parts, PartsPrime, EndStep DEF Seal, at, Errors
<1>3. CASE Goto(p, "place")
  <2>1. Good([run[p] EXCEPT !.step = "place"])
    BY Parts DEF RunOK, Good, Run, Steps, Seal, at
  <2>2. run' = [run EXCEPT ![p] = [run[p] EXCEPT !.step = "place"]]
    BY <1>3 DEF Goto
  <2>3. RunOK'
    BY <2>1, <2>2, Parts, RunStep
  <2>. QED BY <1>1, <1>3, <2>3, Parts, PartsPrime DEF Goto, OutcomeOK
<1>. QED BY <1>2, <1>3 DEF Seal

(* What is placed is every file of the archive whose bytes were verified. *)
LEMMA PlaceTreeStep ==
  ASSUME StoreInv, NEW p \in Proc, PlaceTree(p) PROVE StoreInv'
<1>1. /\ sum(p) \in Digest /\ run[p].opened = sum(p)
      /\ run[p].scratch = all(sum(p))
  BY Parts, StoreAssumption DEF PlaceTree, RunOK, Good, at, sum
<1>2. [of |-> sum(p), files |-> all(sum(p))] \in Tree
  BY <1>1 DEF Tree, Bytes, all
<1>3. FilesOK'
  <2>1. CASE UNCHANGED tree
    BY <2>1, Parts, FilesSame DEF PlaceTree, files
  <2>2. CASE tree' = [tree EXCEPT ![sum(p)] = [of |-> sum(p), files |-> all(sum(p))]]
    BY <1>1, <1>2, <2>2, Parts DEF PlaceTree, FilesOK, TreesWhole
  <2>. QED BY <1>1, <2>1, <2>2 DEF PlaceTree
<1>4. \E how \in {"ok", "io"} : End(p, how)
  BY DEF PlaceTree
<1>. QED BY <1>3, <1>4, Parts, PartsPrime, EndStep DEF PlaceTree, at, Errors

-----------------------------------------------------------------------------
(* A checkout that is killed leaves what it has written. *)
LEMMA StopStep ==
  ASSUME StoreInv, NEW p \in Proc, Stop(p) PROVE StoreInv'
  BY Parts, PartsPrime, FilesSame, EndStep DEF Stop

(* Edited archives and deleted files leave every remaining tree whole. *)
LEMMA MeddlingStep ==
  ASSUME StoreInv, NEW d \in Digest, EditArchive(d) \/ DeleteArchive(d) \/ DeleteTree(d)
  PROVE  StoreInv'
<1>1. FilesOK'
  BY Parts DEF EditArchive, DeleteArchive, DeleteTree, FilesOK, TreesWhole, Bytes
<1>2. RunOK' /\ OutcomeOK'
  BY Parts DEF EditArchive, DeleteArchive, DeleteTree, RunOK, OutcomeOK, Good
<1>. QED BY <1>1, <1>2, PartsPrime

(* The store is deleted between two runs. *)
LEMMA DeleteStoreStep ==
  ASSUME StoreInv, DeleteStore, \A p \in Proc : at(p, "idle") PROVE StoreInv'
<1>1. FilesOK'
  BY DEF DeleteStore, FilesOK, TreesWhole
<1>2. ASSUME NEW p \in Proc PROVE Good(run'[p]) /\ run'[p] \in Run
  <2>1. run[p] \in Run /\ run[p].step = "idle" /\ run[p].next = 1
    BY Parts DEF RunOK, Good, at, Steps
  <2>2. run'[p] = [run[p] EXCEPT !.staged = FALSE, !.scratch = {}]
    BY DEF DeleteStore
  <2>. QED BY <2>1, <2>2 DEF Good, Run, Steps
<1>3. RunOK'
  BY <1>2 DEF DeleteStore, RunOK, Good
<1>. QED BY <1>1, <1>3, Parts, PartsPrime DEF DeleteStore, OutcomeOK

-----------------------------------------------------------------------------
(* An empty store is sound. *)
LEMMA InitHolds == Init => StoreInv
<1>. SUFFICES ASSUME Init PROVE FilesOK /\ OutcomeOK /\ RunOK
  BY Parts
<1>1. FilesOK /\ OutcomeOK
  BY DEF Init, FilesOK, TreesWhole, OutcomeOK
<1>2. RunOK
  BY IdleIsGood DEF Init, RunOK, Good
<1>. QED BY <1>1, <1>2

(* StoreInv is inductive.  The one step that breaks it is deleting the store
   under a run, so that is assumed away here and nowhere else. *)
LEMMA NextKeepsInv ==
  ASSUME "delete_midway" \notin Meddling
  PROVE  StoreInv /\ [Next]_vars => StoreInv'
<1>. SUFFICES ASSUME StoreInv, [Next]_vars PROVE StoreInv'
  OBVIOUS
<1>1. CASE UNCHANGED vars
  <2>1. FilesOK'
    BY <1>1, Parts, FilesSame DEF vars
  <2>2. OutcomeOK' /\ RunOK'
    BY <1>1, Parts DEF vars, OutcomeOK, RunOK
  <2>. QED BY <2>1, <2>2, PartsPrime
<1>2. ASSUME NEW p \in Proc, Start(p) \/ Checkout(p) \/ Stop(p) PROVE StoreInv'
  <2>1. CASE Start(p)            BY <2>1, StartStep
  <2>2. CASE Holds(p)            BY <2>2, HoldsStep
  <2>3. CASE Fetch(p)            BY <2>3, FetchStep
  <2>4. CASE Insert(p)           BY <2>4, InsertStep
  <2>5. CASE RenameArchive(p)    BY <2>5, RenameArchiveStep
  <2>6. CASE VerifySignature(p)  BY <2>6, VerifySignatureStep
  <2>7. CASE FileSignature(p)    BY <2>7, FileSignatureStep
  <2>8. CASE OpenArchive(p)      BY <2>8, OpenArchiveStep
  <2>9. CASE LookForTree(p)      BY <2>9, LookForTreeStep
  <2>10. CASE Unpack(p)          BY <2>10, UnpackStep
  <2>11. CASE Seal(p)            BY <2>11, SealStep
  <2>12. CASE PlaceTree(p)       BY <2>12, PlaceTreeStep
  <2>13. CASE Stop(p)            BY <2>13, StopStep
  <2>. QED BY <1>2, <2>1, <2>2, <2>3, <2>4, <2>5, <2>6, <2>7, <2>8, <2>9,
              <2>10, <2>11, <2>12, <2>13 DEF Checkout
<1>3. ASSUME NEW d \in Digest, EditArchive(d) \/ DeleteArchive(d) \/ DeleteTree(d)
      PROVE  StoreInv'
  BY <1>3, MeddlingStep
<1>4. CASE DeleteStore
  BY <1>4, DeleteStoreStep DEF DeleteStore
<1>. QED BY <1>1, <1>2, <1>3, <1>4, Zenon DEF Next

(* However many runs share a store, and whoever kills them or edits it, every
   tree in it is whole, as long as it is not deleted under a run. *)
THEOREM StoreIsSound ==
  ASSUME "delete_midway" \notin Meddling
  PROVE  Spec => [](TypeOK /\ TreesWhole)
<1>1. StoreInv => TypeOK /\ TreesWhole
  BY DEF StoreInv
<1>. QED BY <1>1, InitHolds, NextKeepsInv, PTL DEF Spec

-----------------------------------------------------------------------------
(***************************************************************************)
(* Trust.  Nothing is assumed of the store here: it may be edited, deleted   *)
(* under a run, and hold whatever other projects put in it.                  *)
(***************************************************************************)

(* Some registry published s for the archive d. *)
Published(s, d) == \E j \in Pkg : Checksum[j] = d /\ s \in Signs[j] \cap Signature

(* p may build k as far as signatures go. *)
MayBuild(p, k) == MustBeSigned(p, k) => Vouched(p, k)

TrustedRun(p, r) ==
  /\ r \in Run
  /\ r.step # "idle" => r.pkg \in Pkg
  /\ r.step = "file" => Published(r.reply, Checksum[r.pkg])
  /\ r.step \in Placing => MayBuild(p, r.pkg)

RunsTrusted == run \in [Proc -> Run] /\ \A p \in Proc : TrustedRun(p, run[p])

OutcomesTrusted ==
  /\ OutcomeOK
  /\ \A p \in Proc, k \in Pkg : outcome[p][k] = "ok" => MayBuild(p, k)

SignaturesPublished ==
  /\ signature \in [Digest -> Signature \cup {Absent}]
  /\ \A d \in Digest : signature[d] # Absent => Published(signature[d], d)

(* The inductive invariant behind TrustIsPerProject. *)
TrustInv == RunsTrusted /\ OutcomesTrusted /\ SignaturesPublished

(* A process's run may become any that trusts what it should. *)
LEMMA TrustedRunStep ==
  ASSUME RunsTrusted, NEW p \in Proc, NEW r, TrustedRun(p, r), run' = [run EXCEPT ![p] = r]
  PROVE  RunsTrusted'
  BY DEF RunsTrusted, TrustedRun, MayBuild, MustBeSigned, Vouched, Published

(* Each process's run does. *)
LEMMA TrustedRunIs ==
  ASSUME RunsTrusted, NEW p \in Proc
  PROVE  run[p] \in Run /\ TrustedRun(p, run[p])
  BY DEF RunsTrusted

(* A checkout may end well only where the signature was found good. *)
LEMMA TrustedEnd ==
  ASSUME TrustInv, NEW p \in Proc, ~at(p, "idle"),
         NEW how \in Errors \cup {"ok", "stopped"}, how = "ok" => run[p].step \in Placing,
         End(p, how)
  PROVE  RunsTrusted' /\ OutcomesTrusted'
<1>1. TrustedRun(p, Idle)
  BY DEF TrustedRun, Idle, Run, Steps, Placing
<1>2. RunsTrusted'
  BY <1>1, TrustedRunStep DEF End, TrustInv
<1>3. run[p].pkg \in Pkg /\ (how = "ok" => MayBuild(p, run[p].pkg))
  BY TrustedRunIs DEF TrustInv, TrustedRun, at
<1>4. OutcomeOK'
  BY <1>3 DEF End, TrustInv, OutcomesTrusted, OutcomeOK
<1>5. ASSUME NEW q \in Proc, NEW k \in Pkg, outcome'[q][k] = "ok" PROVE MayBuild(q, k)
  <2>1. CASE q = p /\ k = run[p].pkg
    <3>1. how = "ok"
      BY <1>3, <1>5, <2>1 DEF End, TrustInv, OutcomesTrusted, OutcomeOK
    <3>. QED BY <1>3, <2>1, <3>1
  <2>2. CASE ~(q = p /\ k = run[p].pkg)
    <3>1. outcome'[q][k] = outcome[q][k]
      BY <1>3, <2>2 DEF End, TrustInv, OutcomesTrusted, OutcomeOK
    <3>. QED BY <1>5, <3>1 DEF TrustInv, OutcomesTrusted
  <2>. QED BY <2>1, <2>2
<1>. QED BY <1>2, <1>4, <1>5 DEF OutcomesTrusted, MayBuild, MustBeSigned, Vouched

(* Locals other than the package may change as long as the step may be taken. *)
LEMMA TrustedMove ==
  ASSUME TrustInv, NEW p \in Proc, ~at(p, "idle"), NEW r \in Run, r.pkg = run[p].pkg,
         r.step \notin {"idle", "file"}, r.step \in Placing => MayBuild(p, run[p].pkg),
         run' = [run EXCEPT ![p] = r], UNCHANGED outcome
  PROVE  RunsTrusted' /\ OutcomesTrusted'
<1>1. TrustedRun(p, r)
  BY TrustedRunIs DEF TrustInv, TrustedRun, at
<1>2. RunsTrusted'
  BY <1>1, TrustedRunStep DEF TrustInv
<1>. QED BY <1>2 DEF TrustInv, OutcomesTrusted, OutcomeOK, MayBuild, MustBeSigned, Vouched

(* And the step, as `?` and an early return take it. *)
LEMMA TrustedGoto ==
  ASSUME TrustInv, NEW p \in Proc, ~at(p, "idle"), NEW step \in Steps \ {"idle", "file"},
         step \in Placing => MayBuild(p, run[p].pkg), Goto(p, step)
  PROVE  RunsTrusted' /\ OutcomesTrusted'
<1>. DEFINE r == [run[p] EXCEPT !.step = step]
<1>1. run[p] \in Run
  BY TrustedRunIs DEF TrustInv
<1>2. r \in Run /\ r.pkg = run[p].pkg /\ r.step = step
  BY <1>1 DEF Run
<1>3. run' = [run EXCEPT ![p] = r] /\ UNCHANGED outcome
  BY DEF Goto
<1>. HIDE DEF r
<1>. QED BY <1>2, <1>3, TrustedMove

(* A trusted key over the very digest that was resolved, on a signature some
   registry published for it, is what Vouched asks for. *)
LEMMA JudgeTrusts ==
  ASSUME TrustInv, NEW p \in Proc, ~at(p, "idle"), NEW s, Published(s, sum(p)), Judge(p, s)
  PROVE  RunsTrusted' /\ OutcomesTrusted'
<1>1. CASE \E how \in {"untrusted_key", "forged_signature"} : End(p, how)
  BY <1>1, TrustedEnd DEF Errors
<1>2. CASE Goto(p, "open") /\ s.key \in Trusted[p][run[p].pkg] /\ s.of = sum(p)
  <2>1. MayBuild(p, run[p].pkg)
    BY <1>2 DEF MayBuild, Vouched, Published, sum
  <2>. QED BY <1>2, <2>1, TrustedGoto DEF Steps
<1>. QED BY <1>1, <1>2 DEF Judge

(* Signatures that are filed stay ones somebody published. *)
LEMMA SignaturesStay ==
  ASSUME TrustInv, UNCHANGED signature PROVE SignaturesPublished'
  BY DEF TrustInv, SignaturesPublished, Published

(* Steps that touch neither signatures, runs nor outcomes keep TrustInv. *)
LEMMA TrustStays ==
  ASSUME TrustInv, UNCHANGED <<signature, run, outcome>> PROVE TrustInv'
  BY DEF TrustInv, RunsTrusted, TrustedRun, OutcomesTrusted, OutcomeOK,
     SignaturesPublished, Published, MayBuild, MustBeSigned, Vouched

(* A checkout begins by forgetting what an earlier one has verified. *)
LEMMA StartTrusts ==
  ASSUME TrustInv, NEW p \in Proc, Start(p) PROVE TrustInv'
<1>1. PICK k \in Wants[p], a \in Modes[p] :
        run' = [run EXCEPT ![p] = [Idle EXCEPT !.step = "holds", !.pkg = k, !.access = a]]
  BY DEF Start
<1>2. k \in Pkg /\ a \in {"online", "offline"}
  BY StoreAssumption
<1>3. TrustedRun(p, [Idle EXCEPT !.step = "holds", !.pkg = k, !.access = a])
  BY <1>2 DEF TrustedRun, Idle, Run, Steps, Placing
<1>4. RunsTrusted'
  BY <1>1, <1>3, TrustedRunStep DEF TrustInv
<1>5. OutcomesTrusted'
  BY DEF Start, TrustInv, OutcomesTrusted, OutcomeOK, MayBuild, MustBeSigned, Vouched
<1>. QED BY <1>4, <1>5, SignaturesStay DEF Start, files, TrustInv

(* The steps before the signature is looked at. *)
LEMMA GettingTrusts ==
  ASSUME TrustInv, NEW p \in Proc, Holds(p) \/ Fetch(p) \/ Insert(p) \/ RenameArchive(p)
  PROVE  TrustInv'
<1>1. ~at(p, "idle") /\ UNCHANGED signature /\ run[p] \in Run
  BY TrustedRunIs DEF Holds, Fetch, Insert, RenameArchive, at, files, TrustInv
<1>2. CASE \E how \in Errors : End(p, how)
  BY <1>1, <1>2, TrustedEnd, SignaturesStay DEF TrustInv, Errors
<1>3. CASE \E step \in {"verify", "fetch", "insert"} : Goto(p, step)
  BY <1>1, <1>3, TrustedGoto, SignaturesStay DEF TrustInv, Steps, Placing
<1>4. CASE \E step \in {"rename", "verify"}, staged \in BOOLEAN :
             /\ run' = [run EXCEPT ![p].step = step, ![p].staged = staged]
             /\ UNCHANGED outcome
  <2>1. PICK step \in {"rename", "verify"}, staged \in BOOLEAN :
             /\ run' = [run EXCEPT ![p].step = step, ![p].staged = staged]
             /\ UNCHANGED outcome
    BY <1>4
  <2>. DEFINE r == [run[p] EXCEPT !.step = step, !.staged = staged]
  <2>2. r \in Run /\ r.pkg = run[p].pkg /\ r.step = step
    BY <1>1 DEF Run, Steps
  <2>3. run' = [run EXCEPT ![p] = r]
    BY <2>1
  <2>. HIDE DEF r
  <2>. QED BY <1>1, <2>1, <2>2, <2>3, TrustedMove, SignaturesStay DEF TrustInv, Placing
<1>5. Holds(p) => \E step \in {"verify", "fetch"} : Goto(p, step)
  BY DEF Holds
<1>6. Fetch(p) => (\E how \in Errors : End(p, how)) \/ Goto(p, "insert")
  BY DEF Fetch, Errors
<1>7. Insert(p) \/ RenameArchive(p) =>
        \/ Goto(p, "verify") \/ End(p, "io")
        \/ /\ run' = [run EXCEPT ![p].step = "rename", ![p].staged = TRUE]
           /\ UNCHANGED outcome
        \/ /\ run' = [run EXCEPT ![p].step = "verify", ![p].staged = FALSE]
           /\ UNCHANGED outcome
  BY DEF Insert, RenameArchive
<1>. QED BY <1>2, <1>3, <1>4, <1>5, <1>6, <1>7 DEF Errors

(* A checkout goes on only with a signature its project accepts. *)
LEMMA VerifySignatureTrusts ==
  ASSUME TrustInv, NEW p \in Proc, VerifySignature(p) PROVE TrustInv'
<1>1. /\ ~at(p, "idle") /\ UNCHANGED signature /\ run[p] \in Run /\ run[p].pkg \in Pkg
      /\ sum(p) \in Digest
  BY TrustedRunIs, StoreAssumption DEF VerifySignature, at, files, TrustInv, TrustedRun, sum
<1>2. CASE ~MustBeSigned(p, run[p].pkg) /\ Goto(p, "open")
  BY <1>1, <1>2, TrustedGoto, SignaturesStay DEF TrustInv, MayBuild, Steps
<1>3. CASE signature[sum(p)] # Absent /\ Judge(p, signature[sum(p)])
  BY <1>1, <1>3, JudgeTrusts, SignaturesStay DEF TrustInv, SignaturesPublished
<1>4. CASE \E how \in {"unsigned", "fetch_failed"} : End(p, how)
  BY <1>1, <1>4, TrustedEnd, SignaturesStay DEF TrustInv, Errors
<1>5. CASE \E s \in Signs[run[p].pkg] \cap Signature :
             /\ run' = [run EXCEPT ![p].step = "file", ![p].reply = s]
             /\ UNCHANGED outcome
  <2>1. PICK s \in Signs[run[p].pkg] \cap Signature :
             run' = [run EXCEPT ![p].step = "file", ![p].reply = s]
    BY <1>5
  <2>. DEFINE r == [run[p] EXCEPT !.step = "file", !.reply = s]
  <2>2. r \in Run /\ r.pkg = run[p].pkg /\ r.step = "file" /\ r.reply = s
    BY <1>1 DEF Run, Steps
  <2>3. run' = [run EXCEPT ![p] = r]
    BY <2>1
  <2>4. Published(s, Checksum[run[p].pkg])
    BY <1>1 DEF Published
  <2>. HIDE DEF r
  <2>5. TrustedRun(p, r)
    BY <1>1, <2>2, <2>4 DEF TrustedRun, Placing
  <2>6. RunsTrusted'
    BY <2>3, <2>5, TrustedRunStep DEF TrustInv
  <2>. QED BY <1>1, <1>5, <2>6, SignaturesStay DEF TrustInv, OutcomesTrusted, OutcomeOK,
           MayBuild, MustBeSigned, Vouched
<1>. QED BY <1>2, <1>3, <1>4, <1>5 DEF VerifySignature, AskForSignature

(* What is filed is what the registry has sent. *)
LEMMA FileSignatureTrusts ==
  ASSUME TrustInv, NEW p \in Proc, FileSignature(p) PROVE TrustInv'
<1>1. ~at(p, "idle") /\ run[p].pkg \in Pkg /\ sum(p) \in Digest /\ Published(run[p].reply, sum(p))
  BY TrustedRunIs, StoreAssumption DEF FileSignature, at, TrustInv, TrustedRun, sum
<1>2. run[p].reply \in Signature
  BY <1>1 DEF Published
<1>3. SignaturesPublished'
  BY <1>1, <1>2 DEF FileSignature, TrustInv, SignaturesPublished, Published
<1>. QED BY <1>1, <1>3, JudgeTrusts DEF FileSignature, TrustInv

(* The steps after it: what let a run begin them lasts while they go on. *)
LEMMA PlacingTrusts ==
  ASSUME TrustInv, NEW p \in Proc,
         OpenArchive(p) \/ LookForTree(p) \/ Unpack(p) \/ Seal(p) \/ PlaceTree(p)
  PROVE  TrustInv'
<1>1. /\ ~at(p, "idle") /\ UNCHANGED signature /\ run[p].step \in Placing
      /\ run[p] \in Run /\ run[p].pkg \in Pkg /\ sum(p) \in Digest /\ MayBuild(p, run[p].pkg)
  <2>1. ~at(p, "idle") /\ UNCHANGED signature /\ run[p].step \in Placing
    BY DEF OpenArchive, LookForTree, Unpack, Seal, PlaceTree, at, files, Placing
  <2>. QED BY <2>1, TrustedRunIs, StoreAssumption DEF at, TrustInv, TrustedRun, sum
<1>2. CASE \E how \in Errors \cup {"ok"} : End(p, how)
  BY <1>1, <1>2, TrustedEnd, SignaturesStay DEF TrustInv
<1>3. CASE \E step \in {"unpack", "place"} : Goto(p, step)
  BY <1>1, <1>3, TrustedGoto, SignaturesStay DEF TrustInv, Steps
<1>4. ASSUME NEW r \in Run, r.pkg = run[p].pkg, r.step \notin {"idle", "file"},
             run' = [run EXCEPT ![p] = r], UNCHANGED outcome
      PROVE  TrustInv'
  BY <1>1, <1>4, TrustedMove, SignaturesStay DEF TrustInv
<1>5. CASE /\ run' = [run EXCEPT ![p].step = "look", ![p].opened = sum(p)]
           /\ UNCHANGED outcome
  <2>. DEFINE r == [run[p] EXCEPT !.step = "look", !.opened = sum(p)]
  <2>1. r \in Run /\ r.pkg = run[p].pkg /\ r.step = "look"
    BY <1>1 DEF Run, Steps, Bytes
  <2>2. run' = [run EXCEPT ![p] = r]
    BY <1>5
  <2>. HIDE DEF r
  <2>. QED BY <1>4, <1>5, <2>1, <2>2
<1>6. CASE Unpack(p)
  <2>. DEFINE r == [run[p] EXCEPT !.scratch = @ \cup {run[p].next}, !.next = @ + 1,
                     !.step = IF run[p].next = Files[sum(p)] THEN "seal" ELSE "unpack"]
  <2>1. /\ run[p].scratch \cup {run[p].next} \in SUBSET Nat /\ run[p].next + 1 \in Nat
        /\ (IF run[p].next = Files[sum(p)] THEN "seal" ELSE "unpack") \in {"seal", "unpack"}
    BY <1>1 DEF Run
  <2>2. r \in Run /\ r.pkg = run[p].pkg /\ r.step \in {"seal", "unpack"}
    BY <1>1, <2>1 DEF Run, Steps
  <2>3. run' = [run EXCEPT ![p] = r] /\ UNCHANGED outcome
    BY <1>6 DEF Unpack
  <2>. HIDE DEF r
  <2>. QED BY <1>4, <2>2, <2>3
<1>7. OpenArchive(p) \/ LookForTree(p) \/ Seal(p) \/ PlaceTree(p) =>
        \/ \E how \in Errors \cup {"ok"} : End(p, how)
        \/ \E step \in {"unpack", "place"} : Goto(p, step)
        \/ /\ run' = [run EXCEPT ![p].step = "look", ![p].opened = sum(p)]
           /\ UNCHANGED outcome
  BY DEF OpenArchive, LookForTree, Seal, PlaceTree, Errors
<1>. QED BY <1>2, <1>3, <1>5, <1>6, <1>7

(* Whatever is done to the store by hand, no signature is put there. *)
LEMMA MeddlingTrusts ==
  ASSUME TrustInv,
         (\E d \in Digest : EditArchive(d) \/ DeleteArchive(d) \/ DeleteTree(d)) \/ DeleteStore
  PROVE  TrustInv'
<1>1. CASE \E d \in Digest : EditArchive(d) \/ DeleteArchive(d) \/ DeleteTree(d)
  BY <1>1, TrustStays DEF EditArchive, DeleteArchive, DeleteTree
<1>2. CASE DeleteStore
  <2>1. ASSUME NEW p \in Proc PROVE run'[p] \in Run /\ TrustedRun(p, run'[p])
    <3>1. run[p] \in Run /\ TrustedRun(p, run[p])
      BY TrustedRunIs DEF TrustInv
    <3>. DEFINE r == [run[p] EXCEPT !.staged = FALSE, !.scratch = {}]
    <3>2. r \in Run /\ r.step = run[p].step /\ r.pkg = run[p].pkg /\ r.reply = run[p].reply
      BY <3>1 DEF Run
    <3>3. run'[p] = r
      BY <1>2 DEF DeleteStore
    <3>. HIDE DEF r
    <3>. QED BY <3>1, <3>2, <3>3 DEF TrustedRun
  <2>2. RunsTrusted'
    BY <1>2, <2>1 DEF DeleteStore, RunsTrusted, TrustedRun, MayBuild, MustBeSigned, Vouched,
       Published
  <2>3. OutcomesTrusted' /\ SignaturesPublished'
    BY <1>2 DEF DeleteStore, TrustInv, OutcomesTrusted, OutcomeOK, SignaturesPublished,
       Published, MayBuild, MustBeSigned, Vouched
  <2>. QED BY <2>2, <2>3 DEF TrustInv
<1>. QED BY <1>1, <1>2

(* TrustInv holds of an empty store. *)
LEMMA TrustInit == Init => TrustInv
  BY DEF Init, TrustInv, RunsTrusted, TrustedRun, Idle, Run, Steps, Placing, OutcomesTrusted,
     OutcomeOK, SignaturesPublished

(* Every step keeps TrustInv. *)
LEMMA NextKeepsTrust == TrustInv /\ [Next]_vars => TrustInv'
<1>. SUFFICES ASSUME TrustInv, [Next]_vars PROVE TrustInv'
  OBVIOUS
<1>1. CASE UNCHANGED vars
  BY <1>1, TrustStays DEF vars, files
<1>2. ASSUME NEW p \in Proc, Start(p) \/ Checkout(p) \/ Stop(p) PROVE TrustInv'
  <2>1. CASE Start(p)
    BY <2>1, StartTrusts
  <2>2. CASE Holds(p) \/ Fetch(p) \/ Insert(p) \/ RenameArchive(p)
    BY <2>2, GettingTrusts
  <2>3. CASE VerifySignature(p)
    BY <2>3, VerifySignatureTrusts
  <2>4. CASE FileSignature(p)
    BY <2>4, FileSignatureTrusts
  <2>5. CASE OpenArchive(p) \/ LookForTree(p) \/ Unpack(p) \/ Seal(p) \/ PlaceTree(p)
    BY <2>5, PlacingTrusts
  <2>6. CASE Stop(p)
    BY <2>6, TrustedEnd, SignaturesStay DEF Stop, files, TrustInv
  <2>. QED BY <1>2, <2>1, <2>2, <2>3, <2>4, <2>5, <2>6 DEF Checkout
<1>3. CASE (\E d \in Digest : EditArchive(d) \/ DeleteArchive(d) \/ DeleteTree(d)) \/ DeleteStore
  BY <1>3, MeddlingTrusts
<1>. QED BY <1>1, <1>2, <1>3 DEF Next

(* A project with trusted keys never builds a package that nobody it trusts
   signed (sources.rs verify_signature, D-058): whatever other projects put in
   the shared store, and whatever is edited or deleted there, even under a run. *)
THEOREM TrustIsSound == Spec => []TrustIsPerProject
<1>1. TrustInv => TrustIsPerProject
  BY DEF TrustInv, RunsTrusted, TrustedRun, OutcomesTrusted, TrustIsPerProject, MayBuild
<1>. QED BY <1>1, TrustInit, NextKeepsTrust, PTL DEF Spec

-----------------------------------------------------------------------------
(***************************************************************************)
(* Rebuilding offline, and what runs leave alone.  Here nobody meddles with  *)
(* the store by hand; runs may be killed anywhere.                          *)
(***************************************************************************)

NobodyMeddles == Meddling \subseteq {"fault"}

Accepts(p, k, s) == s # Absent /\ s.key \in Trusted[p][k] /\ s.of = Checksum[k]

(* Whoever accepts one signature that is published for an archive accepts every
   one: otherwise two runs that both found no signature in the store can file
   theirs one over the other. *)
SignersAgree ==
  \A p \in Proc, k \in Pkg : MustBeSigned(p, k) =>
    \A s, t \in Signature :
      Published(s, Checksum[k]) /\ Published(t, Checksum[k]) /\ Accepts(p, k, s)
        => Accepts(p, k, t)

Accepted(p, k) == MustBeSigned(p, k) => Accepts(p, k, signature[Checksum[k]])

(* The same of the signature there is after the step. *)
AcceptedNow(p, k) == MustBeSigned(p, k) => Accepts(p, k, signature'[Checksum[k]])

ArchivesWhole == \A d \in Digest : archive[d] \in {Absent, d}

ReplayRun(p, r) ==
  /\ r.step \in {"verify", "file"} \cup Placing => archive[Checksum[r.pkg]] = Checksum[r.pkg]
  /\ r.step \in Placing => Accepted(p, r.pkg)

RunsReplay == \A p \in Proc : ReplayRun(p, run[p])

Replays(p, k) ==
  archive[Checksum[k]] = Checksum[k] /\ tree[Checksum[k]] # Absent /\ Accepted(p, k)

OutcomesReplay == \A p \in Proc, k \in Pkg : outcome[p][k] = "ok" => Replays(p, k)

(* The inductive invariant behind OfflineReplays. *)
ReplayInv == StoreInv /\ TrustInv /\ ArchivesWhole /\ RunsReplay /\ OutcomesReplay

(* The step of StoreIsAppendOnly, ... *)
Appends ==
  \A d \in Digest :
    /\ archive'[d] # archive[d] => archive[d] = Absent /\ archive'[d] = d
    /\ tree'[d] # tree[d] => tree[d] = Absent

(* ... and what it says of signatures: one that p accepted gives way to none
   that p does not. *)
SignaturesLast ==
  \A p \in Proc, k \in Pkg : Accepted(p, k) => Accepted(p, k)'

(* The checksums of a lock are digests. *)
LEMMA DigestsAre ==
  /\ \A d \in Digest : d # Absent
  /\ \A k \in Pkg : Checksum[k] \in Digest
  BY StoreAssumption DEF Bytes

(* What a run at work knows of itself. *)
LEMMA AtWork ==
  ASSUME StoreInv, NEW p \in Proc, ~at(p, "idle")
  PROVE  run[p] \in Run /\ run[p].pkg \in Pkg /\ sum(p) \in Digest /\ sum(p) # Absent
  BY Parts, DigestsAre DEF RunOK, Good, at, sum

(* Renaming a scratch archive into place replaces nothing, or the same bytes. *)
LEMMA RenameAppends ==
  ASSUME StoreInv, ArchivesWhole, NEW p \in Proc, RenameArchive(p) PROVE Appends
<1>1. sum(p) \in Digest
  BY AtWork DEF RenameArchive, at
<1>2. archive \in [Digest -> Bytes \cup {Absent}]
  BY Parts DEF FilesOK
<1>. QED BY <1>1, <1>2 DEF RenameArchive, ArchivesWhole, Appends

(* Renaming a scratch tree into place replaces nothing. *)
LEMMA PlaceAppends ==
  ASSUME StoreInv, NEW p \in Proc, PlaceTree(p) PROVE Appends
<1>1. sum(p) \in Digest
  BY AtWork DEF PlaceTree, at
<1>2. tree \in [Digest -> Tree \cup {Absent}]
  BY Parts DEF FilesOK
<1>. QED BY <1>1, <1>2 DEF PlaceTree, Appends

(* Where nobody meddles, every step only adds to the store. *)
LEMMA NextAppends ==
  ASSUME NobodyMeddles, StoreInv, ArchivesWhole, [Next]_vars PROVE Appends
<1>1. CASE UNCHANGED <<archive, tree>>
  BY <1>1 DEF Appends
<1>2. CASE \E p \in Proc : RenameArchive(p) \/ PlaceTree(p)
  BY <1>2, RenameAppends, PlaceAppends
<1>3. \/ UNCHANGED <<archive, tree>>
      \/ \E p \in Proc : RenameArchive(p) \/ PlaceTree(p)
  <2>1. CASE UNCHANGED vars
    BY <2>1 DEF vars, files
  <2>2. CASE \E p \in Proc : Start(p) \/ Checkout(p) \/ Stop(p)
    BY <2>2 DEF Start, Checkout, Stop, Holds, Fetch, Insert, VerifySignature, FileSignature,
       OpenArchive, LookForTree, Unpack, Seal, files
  <2>3. ~(\E d \in Digest : EditArchive(d) \/ DeleteArchive(d) \/ DeleteTree(d)) /\ ~DeleteStore
    BY DEF NobodyMeddles, EditArchive, DeleteArchive, DeleteTree, DeleteStore
  <2>. QED BY <2>1, <2>2, <2>3 DEF Next
<1>. QED BY <1>1, <1>2, <1>3

(* Filing a signature takes none away that a project accepted. *)
LEMMA FilingLasts ==
  ASSUME SignersAgree, StoreInv, TrustInv, NEW p \in Proc, FileSignature(p)
  PROVE  SignaturesLast
<1>1. sum(p) \in Digest /\ Published(run[p].reply, sum(p)) /\ run[p].reply \in Signature
  BY AtWork, TrustedRunIs DEF FileSignature, at, TrustInv, TrustedRun, sum, Published
<1>2. ASSUME NEW q \in Proc, NEW k \in Pkg, MustBeSigned(q, k),
             Accepts(q, k, signature[Checksum[k]])
      PROVE  Accepts(q, k, signature'[Checksum[k]])
  <2>1. Checksum[k] \in Digest /\ signature \in [Digest -> Signature \cup {Absent}]
    BY DigestsAre DEF TrustInv, SignaturesPublished
  <2>2. CASE Checksum[k] # sum(p)
    BY <1>1, <1>2, <2>1, <2>2 DEF FileSignature
  <2>3. CASE Checksum[k] = sum(p)
    <3>1. signature'[Checksum[k]] = run[p].reply
      BY <2>1, <2>3 DEF FileSignature
    <3>2. /\ signature[Checksum[k]] \in Signature
          /\ Published(signature[Checksum[k]], Checksum[k])
      BY <1>2, <2>1 DEF Accepts, TrustInv, SignaturesPublished
    <3>. QED BY <1>1, <1>2, <2>3, <3>1, <3>2 DEF SignersAgree
  <2>. QED BY <2>2, <2>3
<1>. QED BY <1>2 DEF SignaturesLast, Accepted, MustBeSigned, Accepts

(* Nor does a step that leaves signatures alone. *)
LEMMA SignatureKept == ASSUME UNCHANGED signature PROVE SignaturesLast
  BY DEF SignaturesLast, Accepted, MustBeSigned, Accepts

(* Where nobody meddles and signers agree, no step does. *)
LEMMA NextKeepsSignatures ==
  ASSUME NobodyMeddles, SignersAgree, StoreInv, TrustInv, [Next]_vars PROVE SignaturesLast
<1>1. CASE \E p \in Proc : FileSignature(p)
  BY <1>1, FilingLasts
<1>2. UNCHANGED signature \/ \E p \in Proc : FileSignature(p)
  <2>1. CASE UNCHANGED vars
    BY <2>1 DEF vars, files
  <2>2. CASE \E p \in Proc : Start(p) \/ Checkout(p) \/ Stop(p)
    BY <2>2 DEF Start, Checkout, Stop, Holds, Fetch, Insert, RenameArchive, VerifySignature,
       OpenArchive, LookForTree, Unpack, Seal, PlaceTree, files
  <2>3. ~(\E d \in Digest : EditArchive(d) \/ DeleteArchive(d) \/ DeleteTree(d)) /\ ~DeleteStore
    BY DEF NobodyMeddles, EditArchive, DeleteArchive, DeleteTree, DeleteStore
  <2>. QED BY <2>1, <2>2, <2>3 DEF Next
<1>. QED BY <1>1, <1>2, SignatureKept

(* What holds of a package goes on holding while files only appear. *)
LEMMA WholeLasts ==
  ASSUME Appends, SignaturesLast
  PROVE  /\ \A d \in Digest : archive[d] = d => archive'[d] = d
         /\ \A p \in Proc, k \in Pkg : Replays(p, k) => Replays(p, k)'
<1>1. ASSUME NEW d \in Digest, archive[d] = d PROVE archive'[d] = d
  BY <1>1, DigestsAre DEF Appends
<1>2. ASSUME NEW d \in Digest, tree[d] # Absent PROVE tree'[d] # Absent
  BY <1>2 DEF Appends
<1>. QED BY <1>1, <1>2, DigestsAre DEF Replays, SignaturesLast

(* In a store that only grows, archives stay what their names say. *)
LEMMA ArchivesStayWhole ==
  ASSUME ArchivesWhole, Appends PROVE ArchivesWhole'
  BY DEF ArchivesWhole, Appends

(* The runs that do not move keep what they rely on. *)
LEMMA ReplayMove ==
  ASSUME StoreInv, RunsReplay, Appends, SignaturesLast, NEW p \in Proc, NEW r,
         run' = [run EXCEPT ![p] = r], ReplayRun(p, r)'
  PROVE  RunsReplay'
<1>1. ASSUME NEW q \in Proc PROVE ReplayRun(q, run[q])'
  <2>1. CASE q = p
    <3>1. run'[q] = r
      BY <2>1, Parts DEF RunOK
    <3>. QED BY <2>1, <3>1 DEF ReplayRun
  <2>2. CASE q # p
    <3>1. run'[q] = run[q] /\ ReplayRun(q, run[q])
      BY <2>2, Parts DEF RunOK, RunsReplay
    <3>2. run[q].step \in {"verify", "file"} \cup Placing =>
            run[q].pkg \in Pkg /\ Checksum[run[q].pkg] \in Digest
      BY AtWork DEF at, Placing, sum
    <3>. QED BY <3>1, <3>2, WholeLasts DEF ReplayRun, SignaturesLast, Placing
  <2>. QED BY <2>1, <2>2
<1>. QED BY <1>1 DEF RunsReplay

(* And what was checked out can be checked out again. *)
LEMMA OutcomesStay ==
  ASSUME OutcomesReplay, Appends, SignaturesLast, UNCHANGED outcome PROVE OutcomesReplay'
  BY WholeLasts DEF OutcomesReplay

(* A checkout ends well with everything in the store that it was given. *)
LEMMA ReplayEnd ==
  ASSUME StoreInv, RunsReplay, OutcomesReplay, Appends, SignaturesLast,
         NEW p \in Proc, ~at(p, "idle"), NEW how, End(p, how),
         how = "ok" => run[p].step \in Placing /\ tree'[sum(p)] # Absent
  PROVE  RunsReplay' /\ OutcomesReplay'
<1>1. ReplayRun(p, Idle)'
  BY DEF ReplayRun, Idle, Placing
<1>2. RunsReplay'
  BY <1>1, ReplayMove DEF End
<1>3. run[p].pkg \in Pkg /\ sum(p) \in Digest
  BY AtWork
<1>4. ASSUME NEW q \in Proc, NEW k \in Pkg, outcome'[q][k] = "ok" PROVE Replays(q, k)'
  <2>1. CASE q = p /\ k = run[p].pkg
    <3>1. how = "ok"
      BY <1>3, <1>4, <2>1, Parts DEF End, OutcomeOK
    <3>2. archive[sum(p)] = sum(p) /\ Accepted(p, k)
      BY <2>1, <3>1 DEF RunsReplay, ReplayRun, sum
    <3>3. archive'[sum(p)] = sum(p) /\ Accepted(p, k)'
      BY <1>3, <3>2, WholeLasts DEF SignaturesLast
    <3>. QED BY <2>1, <3>1, <3>3 DEF Replays, sum
  <2>2. CASE ~(q = p /\ k = run[p].pkg)
    <3>1. outcome'[q][k] = outcome[q][k]
      BY <1>3, <2>2, Parts DEF End, OutcomeOK
    <3>. QED BY <1>4, <3>1, WholeLasts DEF OutcomesReplay
  <2>. QED BY <2>1, <2>2
<1>. QED BY <1>2, <1>4 DEF OutcomesReplay

(* A run goes on, with the same package. *)
LEMMA ReplayGoOn ==
  ASSUME StoreInv, RunsReplay, OutcomesReplay, Appends, SignaturesLast,
         NEW p \in Proc, ~at(p, "idle"), NEW r, r.pkg = run[p].pkg,
         run' = [run EXCEPT ![p] = r], UNCHANGED outcome,
         r.step \in {"verify", "file"} \cup Placing => archive'[sum(p)] = sum(p),
         r.step \in Placing => AcceptedNow(p, run[p].pkg)
  PROVE  RunsReplay' /\ OutcomesReplay'
<1>1. ReplayRun(p, r)'
  BY DEF ReplayRun, sum, Accepted, AcceptedNow, MustBeSigned, Accepts
<1>. QED BY <1>1, ReplayMove, OutcomesStay

(* A checkout that goes on has what it relies on in the store. *)
LEMMA ReplayGoto ==
  ASSUME StoreInv, RunsReplay, OutcomesReplay, Appends, SignaturesLast,
         NEW p \in Proc, ~at(p, "idle"), NEW step, Goto(p, step),
         step \in {"verify", "file"} \cup Placing => archive[sum(p)] = sum(p),
         step \in Placing => AcceptedNow(p, run[p].pkg)
  PROVE  RunsReplay' /\ OutcomesReplay'
<1>. DEFINE r == [run[p] EXCEPT !.step = step]
<1>1. run[p] \in Run /\ sum(p) \in Digest
  BY AtWork
<1>2. r.pkg = run[p].pkg /\ r.step = step
  BY <1>1 DEF Run
<1>3. run' = [run EXCEPT ![p] = r] /\ UNCHANGED outcome
  BY DEF Goto
<1>4. step \in {"verify", "file"} \cup Placing => archive'[sum(p)] = sum(p)
  BY <1>1, WholeLasts
<1>. HIDE DEF r
<1>. QED BY <1>2, <1>3, <1>4, ReplayGoOn

(* Where a run is at work on an archive it knows to be whole. *)
LEMMA KnownWhole ==
  ASSUME RunsReplay, NEW p \in Proc, run[p].step \in {"verify", "file"} \cup Placing
  PROVE  /\ archive[sum(p)] = sum(p)
         /\ run[p].step \in Placing => Accepted(p, run[p].pkg)
  BY DEF RunsReplay, ReplayRun, sum

(* So it is while the archive is got, *)
LEMMA GettingReplays ==
  ASSUME ReplayInv, Appends, SignaturesLast, NEW p \in Proc,
         Holds(p) \/ Fetch(p) \/ Insert(p) \/ RenameArchive(p)
  PROVE  RunsReplay' /\ OutcomesReplay'
<1>. USE DEF ReplayInv
<1>1. ~at(p, "idle")
  BY DEF Holds, Fetch, Insert, RenameArchive, at
<1>2. /\ run[p] \in Run /\ run[p].pkg \in Pkg /\ sum(p) \in Digest /\ sum(p) # Absent
      /\ archive[sum(p)] \in {Absent, sum(p)}
  BY <1>1, AtWork DEF ArchivesWhole
<1>3. CASE \E how \in Errors : End(p, how)
  BY <1>1, <1>3, ReplayEnd DEF Errors
<1>4. CASE \E step \in {"fetch", "insert"} : Goto(p, step)
  BY <1>1, <1>4, ReplayGoto DEF Placing
<1>5. CASE archive[sum(p)] # Absent /\ Goto(p, "verify")
  BY <1>1, <1>2, <1>5, ReplayGoto DEF Placing
<1>6. CASE /\ run' = [run EXCEPT ![p].step = "rename", ![p].staged = TRUE]
           /\ UNCHANGED outcome
  <2>. DEFINE r == [run[p] EXCEPT !.step = "rename", !.staged = TRUE]
  <2>1. r.pkg = run[p].pkg /\ r.step = "rename" /\ run' = [run EXCEPT ![p] = r]
    BY <1>2, <1>6 DEF Run
  <2>. HIDE DEF r
  <2>. QED BY <1>1, <1>6, <2>1, ReplayGoOn DEF Placing
<1>7. CASE /\ run' = [run EXCEPT ![p].step = "verify", ![p].staged = FALSE]
           /\ UNCHANGED outcome /\ archive' = [archive EXCEPT ![sum(p)] = sum(p)]
  <2>. DEFINE r == [run[p] EXCEPT !.step = "verify", !.staged = FALSE]
  <2>1. r.pkg = run[p].pkg /\ r.step = "verify" /\ run' = [run EXCEPT ![p] = r]
    BY <1>2, <1>7 DEF Run
  <2>2. archive'[sum(p)] = sum(p)
    BY <1>2, <1>7, Parts DEF FilesOK
  <2>. HIDE DEF r
  <2>. QED BY <1>1, <1>7, <2>1, <2>2, ReplayGoOn DEF Placing
<1>8. Holds(p) \/ Fetch(p) =>
        \/ archive[sum(p)] # Absent /\ Goto(p, "verify")
        \/ \E step \in {"fetch", "insert"} : Goto(p, step)
        \/ \E how \in Errors : End(p, how)
  BY DEF Holds, Fetch, Errors
<1>9. Insert(p) \/ RenameArchive(p) =>
        \/ archive[sum(p)] # Absent /\ Goto(p, "verify")
        \/ End(p, "io")
        \/ /\ run' = [run EXCEPT ![p].step = "rename", ![p].staged = TRUE]
           /\ UNCHANGED outcome
        \/ /\ run' = [run EXCEPT ![p].step = "verify", ![p].staged = FALSE]
           /\ UNCHANGED outcome /\ archive' = [archive EXCEPT ![sum(p)] = sum(p)]
  BY DEF Insert, RenameArchive
<1>. QED BY <1>3, <1>4, <1>5, <1>6, <1>7, <1>8, <1>9 DEF Errors

(* while a signature is judged, *)
LEMMA JudgeReplays ==
  ASSUME ReplayInv, Appends, SignaturesLast, NEW p \in Proc, at(p, "verify") \/ at(p, "file"),
         NEW s \in Signature, Judge(p, s), signature'[sum(p)] = s
  PROVE  RunsReplay' /\ OutcomesReplay'
<1>. USE DEF ReplayInv
<1>1. ~at(p, "idle") /\ archive[sum(p)] = sum(p)
  BY KnownWhole DEF at
<1>2. CASE \E how \in {"untrusted_key", "forged_signature"} : End(p, how)
  BY <1>1, <1>2, ReplayEnd
<1>3. CASE s.key \in Trusted[p][run[p].pkg] /\ s.of = sum(p) /\ Goto(p, "open")
  <2>1. s # Absent
    BY StoreAssumption
  <2>2. AcceptedNow(p, run[p].pkg)
    BY <1>3, <2>1 DEF AcceptedNow, Accepts, sum
  <2>. QED BY <1>1, <1>3, <2>2, ReplayGoto DEF Placing
<1>. QED BY <1>2, <1>3 DEF Judge

(* when it is looked for, *)
LEMMA VerifySignatureReplays ==
  ASSUME ReplayInv, Appends, SignaturesLast, NEW p \in Proc, VerifySignature(p)
  PROVE  RunsReplay' /\ OutcomesReplay'
<1>. USE DEF ReplayInv
<1>1. /\ ~at(p, "idle") /\ at(p, "verify") /\ UNCHANGED signature
      /\ run[p] \in Run /\ sum(p) \in Digest /\ archive[sum(p)] = sum(p)
  BY AtWork, KnownWhole DEF VerifySignature, at, files
<1>2. CASE ~MustBeSigned(p, run[p].pkg) /\ Goto(p, "open")
  BY <1>1, <1>2, ReplayGoto DEF AcceptedNow, Placing
<1>3. CASE signature[sum(p)] # Absent /\ Judge(p, signature[sum(p)])
  BY <1>1, <1>3, JudgeReplays DEF TrustInv, SignaturesPublished
<1>4. CASE \E how \in {"unsigned", "fetch_failed"} : End(p, how)
  BY <1>1, <1>4, ReplayEnd
<1>5. CASE \E s \in Signature :
             /\ run' = [run EXCEPT ![p].step = "file", ![p].reply = s]
             /\ UNCHANGED outcome
  <2>1. PICK s \in Signature : run' = [run EXCEPT ![p].step = "file", ![p].reply = s]
    BY <1>5
  <2>. DEFINE r == [run[p] EXCEPT !.step = "file", !.reply = s]
  <2>2. r.pkg = run[p].pkg /\ r.step = "file" /\ run' = [run EXCEPT ![p] = r]
    BY <1>1, <2>1 DEF Run
  <2>3. archive'[sum(p)] = sum(p)
    BY <1>1, WholeLasts
  <2>. HIDE DEF r
  <2>. QED BY <1>1, <1>5, <2>2, <2>3, ReplayGoOn DEF Placing
<1>. QED BY <1>2, <1>3, <1>4, <1>5 DEF VerifySignature, AskForSignature

(* when it is filed, *)
LEMMA FileSignatureReplays ==
  ASSUME ReplayInv, Appends, SignaturesLast, NEW p \in Proc, FileSignature(p)
  PROVE  RunsReplay' /\ OutcomesReplay'
<1>. USE DEF ReplayInv
<1>1. at(p, "file") /\ sum(p) \in Digest /\ run[p].reply \in Signature
  BY AtWork, TrustedRunIs DEF FileSignature, at, TrustInv, TrustedRun, Published
<1>2. signature'[sum(p)] = run[p].reply
  BY <1>1 DEF FileSignature, TrustInv, SignaturesPublished
<1>. QED BY <1>1, <1>2, JudgeReplays DEF FileSignature

(* From opening the archive on: the signature was accepted, the archive is
   whole, and the checkout ends well only over a tree. *)
LEMMA PlacingReplays ==
  ASSUME ReplayInv, Appends, SignaturesLast, NEW p \in Proc,
         OpenArchive(p) \/ LookForTree(p) \/ Unpack(p) \/ Seal(p) \/ PlaceTree(p)
  PROVE  RunsReplay' /\ OutcomesReplay'
<1>. USE DEF ReplayInv
<1>1. ~at(p, "idle") /\ run[p].step \in Placing /\ UNCHANGED signature
  BY DEF OpenArchive, LookForTree, Unpack, Seal, PlaceTree, at, files, Placing
<1>2. /\ run[p] \in Run /\ run[p].pkg \in Pkg /\ sum(p) \in Digest
      /\ archive[sum(p)] = sum(p) /\ Accepted(p, run[p].pkg)
  BY <1>1, AtWork, KnownWhole
<1>3. archive'[sum(p)] = sum(p) /\ AcceptedNow(p, run[p].pkg)
  BY <1>1, <1>2, WholeLasts DEF Accepted, AcceptedNow
<1>4. CASE \E how \in Errors : End(p, how)
  BY <1>1, <1>4, ReplayEnd DEF Errors
<1>5. CASE \E step \in {"unpack", "place"} : Goto(p, step)
  BY <1>1, <1>2, <1>3, <1>5, ReplayGoto
<1>6. CASE End(p, "ok") /\ tree'[sum(p)] # Absent
  BY <1>1, <1>6, ReplayEnd
<1>7. ASSUME NEW r, r.pkg = run[p].pkg, run' = [run EXCEPT ![p] = r], UNCHANGED outcome
      PROVE  RunsReplay' /\ OutcomesReplay'
  BY <1>1, <1>3, <1>7, ReplayGoOn
<1>8. CASE /\ run' = [run EXCEPT ![p].step = "look", ![p].opened = sum(p)]
           /\ UNCHANGED outcome
  <2>. DEFINE r == [run[p] EXCEPT !.step = "look", !.opened = sum(p)]
  <2>1. r.pkg = run[p].pkg /\ run' = [run EXCEPT ![p] = r]
    BY <1>2, <1>8 DEF Run
  <2>. HIDE DEF r
  <2>. QED BY <1>7, <1>8, <2>1
<1>9. CASE Unpack(p)
  <2>. DEFINE r == [run[p] EXCEPT !.scratch = @ \cup {run[p].next}, !.next = @ + 1,
                     !.step = IF run[p].next = Files[sum(p)] THEN "seal" ELSE "unpack"]
  <2>1. r.pkg = run[p].pkg
    BY <1>2 DEF Run
  <2>2. run' = [run EXCEPT ![p] = r] /\ UNCHANGED outcome
    BY <1>9 DEF Unpack
  <2>. HIDE DEF r
  <2>. QED BY <1>7, <2>1, <2>2
<1>10. OpenArchive(p) \/ Seal(p) =>
        \/ \E how \in Errors : End(p, how)
        \/ Goto(p, "place")
        \/ /\ run' = [run EXCEPT ![p].step = "look", ![p].opened = sum(p)]
           /\ UNCHANGED outcome
  BY DEF OpenArchive, Seal, Errors
<1>11. LookForTree(p) => Goto(p, "unpack") \/ (End(p, "ok") /\ tree'[sum(p)] # Absent)
  BY DEF LookForTree, files
<1>12. PlaceTree(p) => (End(p, "ok") /\ tree'[sum(p)] # Absent) \/ End(p, "io")
  <2>1. ASSUME PlaceTree(p), run[p].scratch # {}, tree[sum(p)] = Absent
        PROVE  tree'[sum(p)] # Absent
    <3>1. tree \in [Digest -> Tree \cup {Absent}]
      BY Parts DEF FilesOK
    <3>2. /\ tree'[sum(p)] = [of |-> sum(p), files |-> all(sum(p))]
          /\ [of |-> sum(p), files |-> all(sum(p))] \in Tree
      BY <1>2, <2>1, <3>1, Parts DEF PlaceTree, RunOK, Good, at, sum, Tree, Bytes, all
    <3>. QED BY <3>2, StoreAssumption
  <2>. QED BY <2>1 DEF PlaceTree
<1>. QED BY <1>4, <1>5, <1>6, <1>8, <1>9, <1>10, <1>11, <1>12 DEF Errors

(* and when a checkout starts. *)
LEMMA StartReplays ==
  ASSUME ReplayInv, Appends, SignaturesLast, NEW p \in Proc, Start(p)
  PROVE  RunsReplay' /\ OutcomesReplay'
<1>. USE DEF ReplayInv
<1>1. PICK k \in Wants[p], a \in Modes[p] :
        run' = [run EXCEPT ![p] = [Idle EXCEPT !.step = "holds", !.pkg = k, !.access = a]]
  BY DEF Start
<1>. DEFINE r == [Idle EXCEPT !.step = "holds", !.pkg = k, !.access = a]
<1>2. r.step = "holds"
  BY DEF Idle
<1>3. ReplayRun(p, r)'
  BY <1>2 DEF ReplayRun, Placing
<1>4. RunsReplay'
  BY <1>1, <1>3, ReplayMove
<1>. QED BY <1>4, OutcomesStay DEF Start

(* Every step keeps ReplayInv, where nobody meddles and signers agree. *)
LEMMA NextKeepsReplay ==
  ASSUME NobodyMeddles, SignersAgree
  PROVE  ReplayInv /\ [Next]_vars => ReplayInv' /\ Appends
<1>. SUFFICES ASSUME ReplayInv, [Next]_vars PROVE ReplayInv' /\ Appends
  OBVIOUS
<1>. USE DEF ReplayInv
<1>1. "delete_midway" \notin Meddling
  BY DEF NobodyMeddles
<1>2. StoreInv' /\ TrustInv' /\ Appends /\ SignaturesLast
  BY <1>1, NextKeepsInv, NextKeepsTrust, NextAppends, NextKeepsSignatures
<1>3. ArchivesWhole'
  BY <1>2, ArchivesStayWhole
<1>4. CASE UNCHANGED vars
  BY <1>2, <1>3, <1>4 DEF vars, files, RunsReplay, ReplayRun, OutcomesReplay, Replays, Accepted,
     Accepts, MustBeSigned
<1>5. ASSUME NEW p \in Proc, Start(p) \/ Checkout(p) \/ Stop(p)
      PROVE  RunsReplay' /\ OutcomesReplay'
  <2>1. CASE Start(p)
    BY <1>2, <2>1, StartReplays
  <2>2. CASE Holds(p) \/ Fetch(p) \/ Insert(p) \/ RenameArchive(p)
    BY <1>2, <2>2, GettingReplays
  <2>3. CASE VerifySignature(p)
    BY <1>2, <2>3, VerifySignatureReplays
  <2>4. CASE FileSignature(p)
    BY <1>2, <2>4, FileSignatureReplays
  <2>5. CASE OpenArchive(p) \/ LookForTree(p) \/ Unpack(p) \/ Seal(p) \/ PlaceTree(p)
    BY <1>2, <2>5, PlacingReplays
  <2>6. CASE Stop(p)
    BY <1>2, <2>6, ReplayEnd DEF Stop
  <2>. QED BY <1>5, <2>1, <2>2, <2>3, <2>4, <2>5, <2>6 DEF Checkout
<1>6. ~(\E d \in Digest : EditArchive(d) \/ DeleteArchive(d) \/ DeleteTree(d)) /\ ~DeleteStore
  BY DEF NobodyMeddles, EditArchive, DeleteArchive, DeleteTree, DeleteStore
<1>. QED BY <1>2, <1>3, <1>4, <1>5, <1>6 DEF Next

(* ReplayInv holds of an empty store. *)
LEMMA ReplayInit == Init => ReplayInv
<1>1. ASSUME Init PROVE ArchivesWhole /\ RunsReplay /\ OutcomesReplay
  BY <1>1 DEF Init, Idle, ArchivesWhole, RunsReplay, ReplayRun, OutcomesReplay, Placing
<1>. QED BY <1>1, InitHolds, TrustInit DEF ReplayInv

(* While nobody touches the store by hand, a package once checked out stays
   there, whole, with a signature its project accepts, so that the project
   builds offline from then on (docs/packaging.md); runs may race and be killed
   anywhere, but whoever accepts one published signature must accept the others
   of that archive. *)
THEOREM OfflineIsSound ==
  ASSUME NobodyMeddles, SignersAgree PROVE Spec => []OfflineReplays
<1>1. ReplayInv => OfflineReplays
  BY DEF ReplayInv, OutcomesReplay, Replays, Accepted, Accepts, OfflineReplays
<1>2. ReplayInv /\ [Next]_vars => ReplayInv'
  BY NextKeepsReplay
<1>. QED BY <1>1, <1>2, ReplayInit, PTL DEF Spec

(* store.rs insert and place: no run changes an archive or a tree that is
   already there. *)
THEOREM RunsOnlyAdd == ASSUME NobodyMeddles PROVE Spec => StoreIsAppendOnly
<1>. DEFINE Inv == StoreInv /\ ArchivesWhole
<1>1. Init => Inv
  BY ReplayInit DEF ReplayInv
<1>2. "delete_midway" \notin Meddling
  BY DEF NobodyMeddles
<1>3. Inv /\ [Next]_vars => Inv' /\ [Appends]_vars
  BY <1>2, NextKeepsInv, NextAppends, ArchivesStayWhole
<1>. HIDE DEF Inv
<1>4. Spec => [][Appends]_vars
  BY <1>1, <1>3, PTL DEF Spec
<1>. QED BY <1>4 DEF StoreIsAppendOnly, Appends

-----------------------------------------------------------------------------
(***************************************************************************)
(* The store implements ContentCache: a checkout is given or refused in the  *)
(* step that ends it, trees are forgotten when they are deleted, and every   *)
(* other step is invisible.                                                 *)
(***************************************************************************)

Available == {d \in Digest : tree[d] = [of |-> d, files |-> all(d)]}

Answer ==
  [p \in Proc |-> [k \in Pkg |->
    IF outcome[p][k] \in {"none", "ok"} THEN outcome[p][k] ELSE "refused"]]

CacheInv == StoreInv /\ TrustInv

(* The variables of the abstract cache, by the expressions that refine them. *)
LEMMA CacheVars == Cache!vars = <<Available, Answer>> /\ Cache!vars' = <<Available', Answer'>>
  BY DEF Cache!vars, Available, Answer

(* A tree with all of an archive's files is one. *)
LEMMA WholeTree ==
  \A d \in Digest : [of |-> d, files |-> all(d)] \in Tree /\ [of |-> d, files |-> all(d)] # Absent
<1>1. \A d \in Digest : [of |-> d, files |-> all(d)] \in Tree
  BY DEF Tree, Bytes, all
<1>. QED BY <1>1, StoreAssumption

(* What the abstract cache has is what there are sealed trees of. *)
LEMMA AvailableIs == StoreInv => Available = {d \in Digest : tree[d] # Absent}
  BY WholeTree DEF StoreInv, TreesWhole, Available

(* An empty store is an empty cache. *)
LEMMA CacheInit == Init => Cache!Init
<1>. SUFFICES ASSUME Init PROVE Cache!Init
  OBVIOUS
<1>1. Available = {}
  BY WholeTree DEF Init, Available
<1>2. Answer = [p \in Proc |-> [k \in Pkg |-> "none"]]
  BY DEF Init, Answer
<1>. QED BY <1>1, <1>2, Zenon DEF Cache!Init, Available, Answer

(* Only the step that ends a checkout shows, as its answer. *)
LEMMA EndAnswers ==
  ASSUME OutcomeOK, NEW p \in Proc, run[p].pkg \in Pkg, NEW how \in Errors \cup {"ok", "stopped"},
         End(p, how)
  PROVE  Answer' = [Answer EXCEPT ![p][run[p].pkg] = IF how = "ok" THEN "ok" ELSE "refused"]
<1>1. outcome' = [outcome EXCEPT ![p][run[p].pkg] = how]
  BY DEF End
<1>2. how \in {"none", "ok"} <=> how = "ok"
  BY DEF Errors
<1>. QED BY <1>1, <1>2 DEF OutcomeOK, Answer

(* While the trees stay, so does what the cache has. *)
LEMMA TreesStay == ASSUME UNCHANGED tree PROVE Available' = Available
  BY DEF Available

(* While the outcomes stay, so do its answers. *)
LEMMA OutcomesKept == ASSUME UNCHANGED outcome PROVE Answer' = Answer
  BY DEF Answer

(* Giving and refusing are steps of the cache. *)
LEMMA CacheNext ==
  ASSUME NEW p \in Proc, NEW k \in Pkg, Cache!Give(p, k) \/ Cache!Refuse(p, k)
  PROVE  Cache!Next
  BY DEF Cache!Next

(* A checkout that fails or is stopped is a request refused. *)
LEMMA RefuseStep ==
  ASSUME CacheInv, NEW p \in Proc, ~at(p, "idle"), NEW how \in Errors \cup {"stopped"},
         End(p, how), UNCHANGED tree
  PROVE  Cache!Next
<1>1. run[p].pkg \in Pkg /\ OutcomeOK
  BY AtWork, Parts DEF CacheInv
<1>2. how # "ok"
  BY DEF Errors
<1>3. Answer' = [Answer EXCEPT ![p][run[p].pkg] = "refused"]
  BY <1>1, <1>2, EndAnswers
<1>4. Available' = Available
  BY TreesStay
<1>5. PICK k \in Pkg : k = run[p].pkg
  BY <1>1
<1>6. Cache!Refuse(p, k)
  BY <1>3, <1>4, <1>5, Zenon DEF Cache!Refuse, Available, Answer
<1>. QED BY <1>6, CacheNext

(* A checkout that ends well gives the package asked for. *)
LEMMA GiveStep ==
  ASSUME CacheInv, NEW p \in Proc, run[p].step \in Placing, End(p, "ok"),
         Available' = Available \cup {sum(p)}
  PROVE  Cache!Next
<1>1. run[p].pkg \in Pkg /\ OutcomeOK
  BY AtWork, Parts DEF CacheInv, at, Placing
<1>2. MayBuild(p, run[p].pkg)
  BY TrustedRunIs DEF CacheInv, TrustInv, TrustedRun
<1>3. Answer' = [Answer EXCEPT ![p][run[p].pkg] = "ok"]
  BY <1>1, EndAnswers
<1>4. [q \in Proc |-> [k \in Pkg |-> MustBeSigned(q, k) => Vouched(q, k)]][p][run[p].pkg]
  BY <1>1, <1>2 DEF MayBuild
<1>5. PICK k \in Pkg : k = run[p].pkg
  BY <1>1
<1>6. Cache!Give(p, k)
  BY <1>3, <1>4, <1>5, Zenon DEF Cache!Give, Available, Answer, sum
<1>. QED BY <1>6, CacheNext

(* Trees that are deleted are forgotten. *)
LEMMA ForgetStep ==
  ASSUME "delete" \in Meddling, Available' \subseteq Available, UNCHANGED outcome
  PROVE  Cache!Next
<1>1. Answer' = Answer
  BY OutcomesKept
<1>2. Cache!Forget
  BY <1>1, Zenon DEF Cache!Forget, Available, Answer
<1>. QED BY <1>2, Zenon DEF Cache!Next

(* What touches neither trees nor outcomes is nothing to the cache. *)
LEMMA QuietStep == ASSUME UNCHANGED <<tree, outcome>> PROVE UNCHANGED Cache!vars
  BY TreesStay, OutcomesKept, CacheVars

(* Every step of a checkout is one of the cache, or nothing to it. *)
LEMMA CheckoutImplements ==
  ASSUME CacheInv, NEW p \in Proc, Start(p) \/ Checkout(p) \/ Stop(p)
  PROVE  Cache!Next \/ UNCHANGED Cache!vars
<1>1. CASE UNCHANGED <<tree, outcome>>
  BY <1>1, QuietStep
<1>2. CASE ~at(p, "idle") /\ UNCHANGED tree /\ \E how \in Errors \cup {"stopped"} : End(p, how)
  BY <1>2, RefuseStep
<1>3. CASE LookForTree(p) /\ End(p, "ok")
  <2>1. sum(p) \in Digest /\ tree[sum(p)] # Absent /\ UNCHANGED tree /\ run[p].step \in Placing
    <3>1. ~(End(p, "ok") /\ Goto(p, "unpack"))
      <4>1. run[p] \in Run /\ run[p].pkg \in Pkg /\ run \in [Proc -> Run]
        BY <1>3, AtWork, Parts DEF CacheInv, LookForTree, at, RunOK
      <4>. QED BY <4>1 DEF End, Goto, Idle, Run
    <3>. QED BY <1>3, <3>1, AtWork DEF CacheInv, LookForTree, at, files, Placing
  <2>2. Available' = Available \cup {sum(p)}
    BY <2>1, TreesStay, AvailableIs DEF CacheInv
  <2>. QED BY <1>3, <2>1, <2>2, GiveStep
<1>4. CASE PlaceTree(p) /\ End(p, "ok")
  <2>1. sum(p) \in Digest /\ run[p].step \in Placing /\ tree \in [Digest -> Tree \cup {Absent}]
    BY <1>4, AtWork, Parts DEF CacheInv, PlaceTree, at, Placing, FilesOK
  <2>2. run[p].opened = sum(p) /\ run[p].scratch = all(sum(p))
    BY <1>4, Parts DEF CacheInv, PlaceTree, RunOK, Good, at, sum
  <2>3. CASE tree' = [tree EXCEPT ![sum(p)] = [of |-> sum(p), files |-> all(sum(p))]]
    BY <1>4, <2>1, <2>3, GiveStep DEF Available
  <2>4. CASE UNCHANGED tree /\ tree[sum(p)] # Absent
    <3>1. Available' = Available \cup {sum(p)}
      BY <2>1, <2>4, TreesStay, AvailableIs DEF CacheInv
    <3>. QED BY <1>4, <2>1, <3>1, GiveStep
  <2>5. UNCHANGED tree /\ End(p, "io") => FALSE
    <3>1. run[p].pkg \in Pkg /\ outcome \in [Proc -> [Pkg -> Errors \cup {"none", "ok", "stopped"}]]
      BY <1>4, AtWork, Parts DEF CacheInv, PlaceTree, at, OutcomeOK
    <3>. QED BY <1>4, <3>1 DEF End
  <2>. QED BY <1>4, <2>2, <2>3, <2>4, <2>5 DEF PlaceTree
<1>5. Start(p) \/ Holds(p) \/ Insert(p) \/ RenameArchive(p) \/ Unpack(p) =>
        UNCHANGED <<tree, outcome>> \/ (~at(p, "idle") /\ UNCHANGED tree /\ End(p, "io"))
  BY DEF Start, Holds, Insert, RenameArchive, Unpack, Goto, files, at
<1>6. Fetch(p) \/ VerifySignature(p) \/ FileSignature(p) \/ OpenArchive(p) \/ Seal(p) \/ Stop(p) =>
        \/ UNCHANGED <<tree, outcome>>
        \/ ~at(p, "idle") /\ UNCHANGED tree /\ \E how \in Errors \cup {"stopped"} : End(p, how)
  BY DEF Fetch, VerifySignature, AskForSignature, FileSignature, Judge, OpenArchive, Seal, Stop,
     Goto, files, at, Errors
<1>7. LookForTree(p) => UNCHANGED <<tree, outcome>> \/ End(p, "ok")
  BY DEF LookForTree, Goto, files
<1>8. PlaceTree(p) =>
        \/ End(p, "ok")
        \/ ~at(p, "idle") /\ UNCHANGED tree /\ End(p, "io")
  BY DEF PlaceTree, at
<1>. QED BY <1>1, <1>2, <1>3, <1>4, <1>5, <1>6, <1>7, <1>8 DEF Checkout, Errors

(* So is every step, if the store is deleted only between runs. *)
LEMMA NextImplements ==
  ASSUME "delete_midway" \notin Meddling, CacheInv, [Next]_vars
  PROVE  [Cache!Next]_Cache!vars
<1>1. CASE UNCHANGED vars
  BY <1>1, QuietStep DEF vars, files
<1>2. CASE \E p \in Proc : Start(p) \/ Checkout(p) \/ Stop(p)
  BY <1>2, CheckoutImplements
<1>3. CASE \E d \in Digest : EditArchive(d) \/ DeleteArchive(d)
  BY <1>3, QuietStep DEF EditArchive, DeleteArchive
<1>4. CASE \E d \in Digest : DeleteTree(d)
  <2>1. PICK d \in Digest : DeleteTree(d)
    BY <1>4
  <2>2. tree \in [Digest -> Tree \cup {Absent}]
    BY Parts DEF CacheInv, FilesOK
  <2>3. Available' \subseteq Available
    BY <2>1, <2>2, WholeTree DEF DeleteTree, Available
  <2>. QED BY <2>1, <2>3, ForgetStep DEF DeleteTree
<1>5. CASE DeleteStore
  <2>1. Available' \subseteq Available
    BY <1>5, WholeTree DEF DeleteStore, Available
  <2>. QED BY <1>5, <2>1, ForgetStep DEF DeleteStore
<1>. QED BY <1>1, <1>2, <1>3, <1>4, <1>5 DEF Next

(* Every checkout, with its races, crashes and edited archives, looks from
   outside like one step that gives a whole tree or refuses (store.rs), as long
   as the store is not deleted under a run. *)
THEOREM StoreImplementsCache ==
  ASSUME "delete_midway" \notin Meddling PROVE Spec => ImplementsCache
<1>1. Init => CacheInv
  BY InitHolds, TrustInit DEF CacheInv
<1>2. CacheInv /\ [Next]_vars => CacheInv'
  BY NextKeepsInv, NextKeepsTrust DEF CacheInv
<1>3. CacheInv /\ [Next]_vars => [Cache!Next]_Cache!vars
  BY NextImplements
<1>. QED BY <1>1, <1>2, <1>3, CacheInit, PTL DEF Spec, ImplementsCache, Cache!Spec
=============================================================================
