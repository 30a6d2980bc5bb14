------------------------------ MODULE Registry ------------------------------
(***************************************************************************)
(* `slopium publish` into a directory registry (main.rs): an archive, a     *)
(* signature and one appended index line, written by publishers that know   *)
(* nothing of each other and may be killed between any two writes.  Nothing *)
(* keeps two publishers of one version apart.                               *)
(*                                                                          *)
(* One package: its index file is a sequence of lines' texts and line ends, *)
(* because `writeln!` on a file hands the two to the system separately.     *)
(***************************************************************************)
EXTENDS Naturals, Sequences

CONSTANTS
  Publisher,   \* processes that publish
  Version,     \* versions of the package
  Bytes,       \* contents an archive of it may have
  MaxKills,    \* bound: publishers killed or failing
  None,        \* no such file, no such value
  Torn,        \* a file whose writer has not finished
  EOL          \* the end of an index line

VARIABLES
  archive,     \* packages/<name>/<name>-<version>.sl.tar
  signature,   \* the .sig beside it: the version and bytes it states
  index,       \* index/<prefix>/<name>.json
  run,         \* each publisher's locals
  kills        \* how many publishers were killed

vars == <<archive, signature, index, run, kills>>

Entry == [version : Version, checksum : Bytes]

(* The lines of the index: a text that no line end separates from the text
   before it is part of the same line, and two objects on a line are no JSON. *)
Entries == {index[i] : i \in {j \in DOMAIN index : index[j] # EOL}}
IsReadable ==
  \A i \in 1 .. Len(index) - 1 : index[i] = EOL \/ index[i + 1] = EOL

Idle == [step |-> "idle", version |-> None, bytes |-> None]

Init ==
  /\ archive = [v \in Version |-> None]
  /\ signature = [v \in Version |-> None]
  /\ index = <<>>
  /\ run = [p \in Publisher |-> Idle]
  /\ kills = 0

Goto(p, step) == run' = [run EXCEPT ![p].step = step]
End(p) == run' = [run EXCEPT ![p] = Idle]

Mine(p) == [version |-> run[p].version, checksum |-> run[p].bytes]

-----------------------------------------------------------------------------
(* Mutant: the index is not asked whether the version is there. *)
MutantNoCheck(p) ==
  /\ run[p] = Idle
  /\ \E v \in Version, b \in Bytes :
       /\ run' = [run EXCEPT ![p] = [step |-> "archive", version |-> v, bytes |-> b]]
  /\ UNCHANGED <<archive, signature, index, kills>>

(* The package is packed and the index is read: one that cannot be read, or
   that publishes the version already, is refused. *)
Check(p) ==
  /\ run[p] = Idle
  /\ IsReadable
  /\ \E v \in Version, b \in Bytes :
       /\ \A e \in Entries : e.version # v
       /\ run' = [run EXCEPT ![p] = [step |-> "archive", version |-> v, bytes |-> b]]
  /\ UNCHANGED <<archive, signature, index, kills>>

(* Mutant: the index line is appended before the files it names are there. *)
MutantIndexFirst(p) ==
  /\ run[p].step = "archive"
  /\ index' = Append(index, Mine(p))
  /\ archive' = [archive EXCEPT ![run[p].version] = Torn]
  /\ Goto(p, "writing")
  /\ UNCHANGED <<signature, kills>>

(* write_under(&archive): created or truncated, then written. *)
StartArchive(p) ==
  /\ run[p].step = "archive"
  /\ archive' = [archive EXCEPT ![run[p].version] = Torn]
  /\ Goto(p, "writing")
  /\ UNCHANGED <<signature, index, kills>>

FinishArchive(p) ==
  /\ run[p].step = "writing"
  /\ archive' = [archive EXCEPT ![run[p].version] = run[p].bytes]
  /\ Goto(p, "signature")
  /\ UNCHANGED <<signature, index, kills>>

StartSignature(p) ==
  /\ run[p].step = "signature"
  /\ signature' = [signature EXCEPT ![run[p].version] = Torn]
  /\ Goto(p, "signing")
  /\ UNCHANGED <<archive, index, kills>>

FinishSignature(p) ==
  /\ run[p].step = "signing"
  /\ signature' = [signature EXCEPT ![run[p].version] = Mine(p)]
  /\ Goto(p, "line")
  /\ UNCHANGED <<archive, index, kills>>

(* Mutant: the index file is written anew instead of appended to. *)
MutantRewriteIndex(p) ==
  /\ run[p].step = "line"
  /\ index' = <<Mine(p)>>
  /\ Goto(p, "eol")
  /\ UNCHANGED <<archive, signature, kills>>

AppendLine(p) ==
  /\ run[p].step = "line"
  /\ index' = Append(index, Mine(p))
  /\ Goto(p, "eol")
  /\ UNCHANGED <<archive, signature, kills>>

AppendEnd(p) ==
  /\ run[p].step = "eol"
  /\ index' = Append(index, EOL)
  /\ End(p)
  /\ UNCHANGED <<archive, signature, kills>>

(* The publisher is killed, or a write fails. *)
Stop(p) ==
  /\ run[p] # Idle
  /\ kills < MaxKills
  /\ kills' = kills + 1
  /\ End(p)
  /\ UNCHANGED <<archive, signature, index>>

PublisherNext(p) ==
  \/ Check(p) \/ StartArchive(p) \/ FinishArchive(p)
  \/ StartSignature(p) \/ FinishSignature(p)
  \/ AppendLine(p) \/ AppendEnd(p) \/ Stop(p)
Next == \E p \in Publisher : PublisherNext(p)

Spec == Init /\ [][Next]_vars

=============================================================================
