------------------------- MODULE RegistryLives_proofs -------------------------
(***************************************************************************)
(* What the registry and its readers promise, for any number of publishers, *)
(* versions, contents and runs.  Each side has an invariant of its own: the *)
(* publishers' says nothing of the runs, and of a version nothing once two  *)
(* publishers were at work on it at once; the runs' needs of the publishers *)
(* only that the index grows.                                               *)
(***************************************************************************)
EXTENDS RegistryLives, TLAPS

Writing == {"archive", "writing", "signature", "signing", "line", "eol"}

(* The publisher of p still has its index line to write. *)
Unlisted == Writing \ {"eol"}

PublisherRun ==
  [step : Writing \cup {"idle"}, version : Version \cup {None}, bytes : Bytes \cup {None}]

RegistryTypeOK ==
  /\ archive \in [Version -> Bytes \cup {None, Torn}]
  /\ signature \in [Version -> P!Entry \cup {None, Torn}]
  /\ index \in Seq(P!Entry \cup {EOL})
  /\ publishers \in [Publisher -> PublisherRun]
  /\ \A p \in Publisher : publishers[p].step # "idle" =>
       publishers[p].version \in Version /\ publishers[p].bytes \in Bytes

(* A version that two publishers are at work on is contested. *)
Apart ==
  \A p, q \in Publisher :
    /\ publishers[p].step # "idle" /\ publishers[q].step # "idle" /\ p # q
    /\ publishers[p].version = publishers[q].version
    => publishers[p].version \in contested

(* What a publisher has yet to list is not listed, unless another was at it. *)
NotListedYet ==
  \A p \in Publisher :
    publishers[p].step \in Unlisted /\ publishers[p].version \notin contested =>
      \A i \in DOMAIN index : index[i] # EOL => index[i].version # publishers[p].version

(* What a publisher has written is what it will name, with the same exception. *)
FilesAreMine ==
  \A p \in Publisher : publishers[p].version \notin contested =>
    /\ publishers[p].step \in {"signature", "signing", "line"} =>
         archive[publishers[p].version] = publishers[p].bytes
    /\ publishers[p].step = "line" => signature[publishers[p].version] = P!Mine(p)

(* IndexedIsServed, line by line. *)
LinesAreServed ==
  \A i \in DOMAIN index : index[i] # EOL /\ index[i].version \notin contested =>
    archive[index[i].version] = index[i].checksum /\ signature[index[i].version] = index[i]

RegistryInv ==
  /\ RegistryTypeOK /\ Apart /\ NotListedYet /\ FilesAreMine
  /\ LinesAreServed /\ OneEntryPerVersion

Answers == 1 .. Edition \cup {Gone}

ReaderRun ==
  [step : {"idle", "ready", "read", "fetched", "written"},
   access : {None, "online", "offline"},
   got : Nat \cup {None, Gone}, memo : Nat \cup {None, Gone},
   asked : SUBSET (Nat \cup {None, Gone}), alone : BOOLEAN]

(* A run was told nothing, or one answer, which it remembers; what it fetched
   and has not reported is an answer, and a file if it is to be cached. *)
ReaderOK(r) ==
  /\ r \in ReaderRun
  /\ r.memo \in Answers \cup {None}
  /\ r.asked = IF r.memo = None THEN {} ELSE {r.memo}
  /\ r.step \in {"read", "fetched", "written"} => r.memo = None
  /\ r.step = "fetched" => r.got \in Answers
  /\ r.step = "written" => r.got \in 1 .. Edition

(* What the last online run was told is what the cache holds, even while other
   runs go on. *)
CacheFollows == last # None => cache = IF last = Gone THEN None ELSE last

ReaderInv ==
  /\ runs \in [Run -> ReaderRun] /\ \A r \in Run : ReaderOK(runs[r])
  /\ CacheIsWhole /\ CacheFollows

CrowdOK == crowd \in Crowds

(* The inductive invariant of the system. *)
LivesInv == RegistryInv /\ ReaderInv /\ CrowdOK

-----------------------------------------------------------------------------
(* The publishers. *)

(* An entry of the index is no newline. *)
LEMMA EntryIsNoEnd == \A e \in P!Entry : e # EOL
  BY RegistryAssumption DEF P!Entry

(* What is indexed is served just when every line of the index has its archive. *)
LEMMA LinesAre == IndexedIsServed <=> LinesAreServed
  BY DEF IndexedIsServed, P!Entries, LinesAreServed

(* An empty registry is sound. *)
LEMMA RegistryInit == Init => RegistryInv
<1>1. ASSUME Init PROVE RegistryInv
  <2>1. /\ archive = [v \in Version |-> None]
        /\ signature = [v \in Version |-> None]
        /\ index = <<>>
        /\ publishers = [p \in Publisher |-> P!Idle]
    BY <1>1 DEF Init, P!Init
  <2>2. \A p \in Publisher : publishers[p].step = "idle"
    BY <2>1 DEF P!Idle
  <2>3. RegistryTypeOK
    BY <2>1 DEF RegistryTypeOK, P!Idle, PublisherRun
  <2>4. DOMAIN index = {}
    BY <2>1
  <2>. QED
    BY <2>2, <2>3, <2>4 DEF RegistryInv, Apart, NotListedYet, FilesAreMine, LinesAreServed,
       OneEntryPerVersion, Unlisted, Writing
<1>. QED BY <1>1

(* A publisher's move: its locals become r, the others' stay. *)
LEMMA MoveRun ==
  ASSUME RegistryTypeOK, NEW p \in Publisher, NEW r \in PublisherRun,
         r.step # "idle" => r.version \in Version /\ r.bytes \in Bytes,
         publishers' = [publishers EXCEPT ![p] = r]
  PROVE  /\ publishers' \in [Publisher -> PublisherRun]
         /\ \A q \in Publisher : publishers'[q].step # "idle" =>
              publishers'[q].version \in Version /\ publishers'[q].bytes \in Bytes
         /\ publishers'[p] = r
         /\ \A q \in Publisher \ {p} : publishers'[q] = publishers[q]
  BY DEF RegistryTypeOK

(* Going on to the next step changes nothing else of the locals. *)
LEMMA GotoRun ==
  ASSUME RegistryTypeOK, NEW p \in Publisher, publishers[p].step # "idle",
         NEW step \in Writing, P!Goto(p, step)
  PROVE  /\ publishers' \in [Publisher -> PublisherRun]
         /\ \A q \in Publisher : publishers'[q].step # "idle" =>
              publishers'[q].version \in Version /\ publishers'[q].bytes \in Bytes
         /\ publishers'[p].step = step
         /\ publishers'[p].version = publishers[p].version
         /\ publishers'[p].bytes = publishers[p].bytes
         /\ \A q \in Publisher \ {p} : publishers'[q] = publishers[q]
<1>1. publishers[p] \in PublisherRun
  BY DEF RegistryTypeOK
<1>. DEFINE r == [publishers[p] EXCEPT !.step = step]
<1>2. /\ r \in PublisherRun
      /\ r.step = step /\ r.version = publishers[p].version /\ r.bytes = publishers[p].bytes
  BY <1>1 DEF PublisherRun
<1>3. publishers' = [publishers EXCEPT ![p] = r]
  BY DEF P!Goto
<1>4. publishers[p].version \in Version /\ publishers[p].bytes \in Bytes
  BY DEF RegistryTypeOK
<1>. HIDE DEF r
<1>. QED BY <1>2, <1>3, <1>4, MoveRun

(* A publisher whose locals are put back is out of every other's way. *)
LEMMA EndRun ==
  ASSUME RegistryTypeOK, NEW p \in Publisher, P!End(p)
  PROVE  /\ publishers' \in [Publisher -> PublisherRun]
         /\ \A q \in Publisher : publishers'[q].step # "idle" =>
              publishers'[q].version \in Version /\ publishers'[q].bytes \in Bytes
         /\ publishers'[p].step = "idle"
         /\ \A q \in Publisher \ {p} : publishers'[q] = publishers[q]
<1>1. P!Idle \in PublisherRun /\ P!Idle.step = "idle"
  BY DEF P!Idle, PublisherRun
<1>2. publishers' = [publishers EXCEPT ![p] = P!Idle]
  BY DEF P!End
<1>. QED BY <1>1, <1>2, MoveRun

(* Types hold whoever overlaps whom, and the index never shrinks. *)
LEMMA PublishingTypes ==
  ASSUME RegistryTypeOK, CrowdOK, Publishing
  PROVE  RegistryTypeOK' /\ Len(index') >= Len(index)
<1>1. PICK p \in Publisher : P!PublisherNext(p)
  BY RegistryAssumption DEF Publishing, CrowdOK
<1>2. ASSUME publishers[p].step # "idle"
      PROVE  /\ publishers[p].version \in Version /\ publishers[p].bytes \in Bytes
             /\ P!Mine(p) \in P!Entry
  BY <1>2 DEF RegistryTypeOK, P!Mine, P!Entry
<1>3. index \in Seq(P!Entry \cup {EOL}) /\ Len(index) \in Nat
  BY DEF RegistryTypeOK
<1>4. CASE P!Check(p)
  <2>1. PICK v \in Version, b \in Bytes :
          publishers' = [publishers EXCEPT ![p] =
                         [step |-> "archive", version |-> v, bytes |-> b]]
    BY <1>4 DEF P!Check
  <2>. DEFINE r == [step |-> "archive", version |-> v, bytes |-> b]
  <2>2. r \in PublisherRun /\ r.version = v /\ r.bytes = b
    BY DEF PublisherRun, Writing
  <2>3. publishers' = [publishers EXCEPT ![p] = r]
    BY <2>1
  <2>. HIDE DEF r
  <2>4. /\ publishers' \in [Publisher -> PublisherRun]
        /\ \A q \in Publisher : publishers'[q].step # "idle" =>
              publishers'[q].version \in Version /\ publishers'[q].bytes \in Bytes
    BY <2>2, <2>3, MoveRun
  <2>. QED BY <1>3, <1>4, <2>4 DEF P!Check, RegistryTypeOK
<1>5. ASSUME P!StartArchive(p) \/ P!FinishArchive(p) \/ P!StartSignature(p)
               \/ P!FinishSignature(p) \/ P!AppendLine(p)
      PROVE  RegistryTypeOK' /\ Len(index') >= Len(index)
  <2>1. publishers[p].step # "idle" /\ \E step \in Writing : P!Goto(p, step)
    BY <1>5 DEF P!StartArchive, P!FinishArchive, P!StartSignature, P!FinishSignature,
       P!AppendLine, Writing
  <2>2. /\ publishers' \in [Publisher -> PublisherRun]
        /\ \A q \in Publisher : publishers'[q].step # "idle" =>
              publishers'[q].version \in Version /\ publishers'[q].bytes \in Bytes
    BY <2>1, GotoRun
  <2>3. archive' \in [Version -> Bytes \cup {None, Torn}]
    BY <1>2, <1>5, <2>1 DEF P!StartArchive, P!FinishArchive, P!StartSignature,
       P!FinishSignature, P!AppendLine, RegistryTypeOK
  <2>4. signature' \in [Version -> P!Entry \cup {None, Torn}]
    BY <1>2, <1>5, <2>1 DEF P!StartArchive, P!FinishArchive, P!StartSignature,
       P!FinishSignature, P!AppendLine, RegistryTypeOK
  <2>5. UNCHANGED index \/ index' = Append(index, P!Mine(p))
    BY <1>5 DEF P!StartArchive, P!FinishArchive, P!StartSignature,
       P!FinishSignature, P!AppendLine
  <2>6. index' \in Seq(P!Entry \cup {EOL}) /\ Len(index') >= Len(index)
    BY <1>2, <1>3, <2>1, <2>5
  <2>. QED BY <2>2, <2>3, <2>4, <2>6 DEF RegistryTypeOK
<1>6. CASE P!AppendEnd(p) \/ P!Stop(p)
  <2>1. P!End(p) /\ UNCHANGED <<archive, signature>>
        /\ (UNCHANGED index \/ index' = Append(index, EOL))
    BY <1>6 DEF P!AppendEnd, P!Stop
  <2>2. index' \in Seq(P!Entry \cup {EOL}) /\ Len(index') >= Len(index)
    BY <1>3, <2>1
  <2>3. /\ publishers' \in [Publisher -> PublisherRun]
        /\ \A q \in Publisher : publishers'[q].step # "idle" =>
              publishers'[q].version \in Version /\ publishers'[q].bytes \in Bytes
    BY <2>1, EndRun
  <2>. QED BY <2>1, <2>2, <2>3 DEF RegistryTypeOK
<1>. QED BY <1>1, <1>4, <1>5, <1>6 DEF P!PublisherNext

(* What a step does to the record of overlapping publishers: it adds those that
   overlap after it. *)
Recording == contested \subseteq contested' /\ Apart'

(* A publisher's step records all of them. *)
LEMMA PublishingRecords ==
  ASSUME RegistryTypeOK', Publishing PROVE Recording
<1>1. contested' = contested \cup Overlapping'
  BY DEF Publishing
<1>2. ASSUME NEW p \in Publisher, NEW q \in Publisher, p # q,
             publishers'[p].step # "idle",
             publishers'[p].version = publishers'[q].version
      PROVE  publishers'[p].version \in contested'
  <2>1. publishers'[p].version \in Version
    BY <1>2 DEF RegistryTypeOK
  <2>. QED BY <1>1, <1>2, <2>1 DEF Overlapping
<1>. QED BY <1>1, <1>2 DEF Recording, Apart

(* A publisher goes on only with a version that no line lists. *)
LEMMA CheckStep ==
  ASSUME RegistryInv, Recording, NEW p \in Publisher, P!Check(p) PROVE RegistryInv'
<1>1. PICK v \in Version, b \in Bytes :
        /\ \A e \in P!Entries : e.version # v
        /\ publishers' = [publishers EXCEPT ![p] =
                           [step |-> "archive", version |-> v, bytes |-> b]]
  BY DEF P!Check
<1>. DEFINE r == [step |-> "archive", version |-> v, bytes |-> b]
<1>2. /\ r \in PublisherRun
      /\ r.step = "archive" /\ r.version = v /\ r.bytes = b
  BY DEF PublisherRun, Writing
<1>3. publishers' = [publishers EXCEPT ![p] = r]
  BY <1>1
<1>. HIDE DEF r
<1>4. UNCHANGED <<archive, signature, index>>
  BY DEF P!Check
<1>5. /\ publishers' \in [Publisher -> PublisherRun]
      /\ \A q \in Publisher : publishers'[q].step # "idle" =>
            publishers'[q].version \in Version /\ publishers'[q].bytes \in Bytes
      /\ publishers'[p] = r
      /\ \A q \in Publisher \ {p} : publishers'[q] = publishers[q]
  BY <1>2, <1>3, MoveRun DEF RegistryInv
<1>6. RegistryTypeOK'
  BY <1>4, <1>5 DEF RegistryInv, RegistryTypeOK
<1>7. Apart'
  BY DEF Recording
<1>8. NotListedYet'
  <2>1. \A i \in DOMAIN index : index[i] # EOL => index[i].version # v
    BY <1>1 DEF P!Entries
  <2>. QED BY <1>2, <1>4, <1>5, <2>1 DEF RegistryInv, NotListedYet, Recording
<1>9. FilesAreMine'
  BY <1>2, <1>4, <1>5 DEF RegistryInv, FilesAreMine, P!Mine, Recording
<1>10. LinesAreServed' /\ OneEntryPerVersion'
  BY <1>4 DEF Recording, RegistryInv, LinesAreServed, OneEntryPerVersion
<1>. QED BY <1>6, <1>7, <1>8, <1>9, <1>10 DEF RegistryInv

(* A publisher that has its line to write changes one of its files and goes on:
   no line names that file, and no other publisher is at work on it, or its
   version is contested. *)
LEMMA FileStep ==
  ASSUME RegistryInv, Recording, NEW p \in Publisher, publishers[p].step \in Unlisted,
         NEW step \in Unlisted, P!Goto(p, step), UNCHANGED index,
         NEW a \in Bytes \cup {None, Torn}, NEW s \in P!Entry \cup {None, Torn},
         archive' = [archive EXCEPT ![publishers[p].version] = a],
         signature' = [signature EXCEPT ![publishers[p].version] = s],
         publishers[p].version \notin contested =>
           /\ step \in {"signature", "signing", "line"} => a = publishers[p].bytes
           /\ step = "line" => s = P!Mine(p)
  PROVE  RegistryInv'
<1>. DEFINE v == publishers[p].version
<1>1. publishers[p].step # "idle" /\ step \in Writing
  BY DEF Unlisted, Writing
<1>2. v \in Version
  BY <1>1 DEF RegistryInv, RegistryTypeOK
<1>3. /\ publishers' \in [Publisher -> PublisherRun]
      /\ \A q \in Publisher : publishers'[q].step # "idle" =>
            publishers'[q].version \in Version /\ publishers'[q].bytes \in Bytes
      /\ publishers'[p].step = step
      /\ publishers'[p].version = publishers[p].version
      /\ publishers'[p].bytes = publishers[p].bytes
      /\ \A q \in Publisher \ {p} : publishers'[q] = publishers[q]
  BY <1>1, GotoRun DEF RegistryInv
<1>4. RegistryTypeOK'
  BY <1>2, <1>3 DEF RegistryInv, RegistryTypeOK
<1>5. Apart'
  BY DEF Recording
<1>6. NotListedYet'
  BY <1>3 DEF RegistryInv, NotListedYet, Recording
<1>7. /\ archive'[v] = a /\ signature'[v] = s
      /\ \A w \in Version \ {v} : archive'[w] = archive[w] /\ signature'[w] = signature[w]
  BY <1>2 DEF RegistryInv, RegistryTypeOK
<1>8. FilesAreMine'
  <2>1. P!Mine(p)' = P!Mine(p)
    BY <1>3 DEF P!Mine
  <2>2. ASSUME NEW q \in Publisher \ {p}, publishers'[q].step # "idle",
               publishers'[q].version \notin contested'
        PROVE  publishers'[q].version \in Version \ {v} /\ P!Mine(q)' = P!Mine(q)
    BY <1>1, <1>3, <2>2 DEF RegistryInv, Apart, P!Mine, Recording
  <2>3. ASSUME NEW q \in Publisher, publishers'[q].version \notin contested'
        PROVE  /\ publishers'[q].step \in {"signature", "signing", "line"} =>
                    archive'[publishers'[q].version] = publishers'[q].bytes
               /\ publishers'[q].step = "line" =>
                    signature'[publishers'[q].version] = P!Mine(q)'
    <3>1. CASE q = p
      BY <1>3, <1>7, <2>1, <2>3, <3>1 DEF Recording
    <3>2. CASE q # p
      BY <1>3, <1>7, <2>2, <2>3, <3>2 DEF RegistryInv, FilesAreMine, Recording
    <3>. QED BY <3>1, <3>2
  <2>. QED BY <2>3 DEF FilesAreMine
<1>9. LinesAreServed'
  <2>1. ASSUME NEW i \in DOMAIN index, index[i] # EOL, index[i].version \notin contested
        PROVE  index[i].version \in Version \ {v}
    <3>1. index[i] \in P!Entry
      BY <2>1 DEF RegistryInv, RegistryTypeOK
    <3>. QED BY <2>1, <3>1 DEF RegistryInv, NotListedYet, P!Entry
  <2>. QED BY <1>7, <2>1 DEF RegistryInv, LinesAreServed, Recording
<1>10. OneEntryPerVersion'
  BY DEF Recording, RegistryInv, OneEntryPerVersion
<1>. QED BY <1>4, <1>5, <1>6, <1>8, <1>9, <1>10 DEF RegistryInv

(* A file that stays is one that is written with what it holds. *)
LEMMA FilesStay ==
  ASSUME RegistryInv, NEW p \in Publisher, publishers[p].step # "idle"
  PROVE  LET v == publishers[p].version
         IN  /\ v \in Version /\ publishers[p].bytes \in Bytes /\ P!Mine(p) \in P!Entry
             /\ archive = [archive EXCEPT ![v] = archive[v]]
             /\ signature = [signature EXCEPT ![v] = signature[v]]
             /\ archive[v] \in Bytes \cup {None, Torn}
             /\ signature[v] \in P!Entry \cup {None, Torn}
  BY DEF RegistryInv, RegistryTypeOK, P!Mine, P!Entry

(* Writing the archive of a version that is not listed touches no line's archive.
   *)
LEMMA StartArchiveStep ==
  ASSUME RegistryInv, Recording, NEW p \in Publisher, P!StartArchive(p) PROVE RegistryInv'
<1>1. publishers[p].step = "archive"
  BY DEF P!StartArchive
<1>2. archive' = [archive EXCEPT ![publishers[p].version] = Torn]
  BY DEF P!StartArchive
<1>3. signature' = [signature EXCEPT ![publishers[p].version] = signature[publishers[p].version]]
  BY <1>1, FilesStay DEF P!StartArchive
<1>4. P!Goto(p, "writing") /\ UNCHANGED index /\ publishers[p].step \in Unlisted
      /\ "writing" \in Unlisted
  BY <1>1 DEF P!StartArchive, Unlisted, Writing
<1>5. Torn \in Bytes \cup {None, Torn} /\ signature[publishers[p].version] \in P!Entry \cup {None, Torn}
  BY <1>1, FilesStay
<1>. QED BY <1>2, <1>3, <1>4, <1>5, FileStep

(* What is written then is the publisher's own. *)
LEMMA FinishArchiveStep ==
  ASSUME RegistryInv, Recording, NEW p \in Publisher, P!FinishArchive(p) PROVE RegistryInv'
<1>1. publishers[p].step = "writing"
  BY DEF P!FinishArchive
<1>2. archive' = [archive EXCEPT ![publishers[p].version] = publishers[p].bytes]
  BY DEF P!FinishArchive
<1>3. signature' = [signature EXCEPT ![publishers[p].version] = signature[publishers[p].version]]
  BY <1>1, FilesStay DEF P!FinishArchive
<1>4. P!Goto(p, "signature") /\ UNCHANGED index /\ publishers[p].step \in Unlisted
      /\ "signature" \in Unlisted
  BY <1>1 DEF P!FinishArchive, Unlisted, Writing
<1>5. publishers[p].bytes \in Bytes \cup {None, Torn} /\ signature[publishers[p].version] \in P!Entry \cup {None, Torn}
  BY <1>1, FilesStay
<1>. QED BY <1>2, <1>3, <1>4, <1>5, FileStep

(* So it is with the signature, when it is begun *)
LEMMA StartSignatureStep ==
  ASSUME RegistryInv, Recording, NEW p \in Publisher, P!StartSignature(p) PROVE RegistryInv'
<1>1. publishers[p].step = "signature"
  BY DEF P!StartSignature
<1>2. archive' = [archive EXCEPT ![publishers[p].version] = archive[publishers[p].version]]
  BY <1>1, FilesStay DEF P!StartSignature
<1>3. signature' = [signature EXCEPT ![publishers[p].version] = Torn]
  BY DEF P!StartSignature
<1>4. P!Goto(p, "signing") /\ UNCHANGED index /\ publishers[p].step \in Unlisted
      /\ "signing" \in Unlisted
  BY <1>1 DEF P!StartSignature, Unlisted, Writing
<1>5. /\ archive[publishers[p].version] \in Bytes \cup {None, Torn}
      /\ Torn \in P!Entry \cup {None, Torn}
  BY <1>1, FilesStay
<1>6. publishers[p].version \notin contested =>
        archive[publishers[p].version] = publishers[p].bytes
  BY <1>1 DEF RegistryInv, FilesAreMine
<1>. QED BY <1>2, <1>3, <1>4, <1>5, <1>6, FileStep

(* and when it is written. *)
LEMMA FinishSignatureStep ==
  ASSUME RegistryInv, Recording, NEW p \in Publisher, P!FinishSignature(p) PROVE RegistryInv'
<1>1. publishers[p].step = "signing"
  BY DEF P!FinishSignature
<1>2. archive' = [archive EXCEPT ![publishers[p].version] = archive[publishers[p].version]]
  BY <1>1, FilesStay DEF P!FinishSignature
<1>3. signature' = [signature EXCEPT ![publishers[p].version] = P!Mine(p)]
  BY DEF P!FinishSignature
<1>4. P!Goto(p, "line") /\ UNCHANGED index /\ publishers[p].step \in Unlisted
      /\ "line" \in Unlisted
  BY <1>1 DEF P!FinishSignature, Unlisted, Writing
<1>5. /\ archive[publishers[p].version] \in Bytes \cup {None, Torn}
      /\ P!Mine(p) \in P!Entry \cup {None, Torn}
  BY <1>1, FilesStay
<1>6. publishers[p].version \notin contested =>
        archive[publishers[p].version] = publishers[p].bytes
  BY <1>1 DEF RegistryInv, FilesAreMine
<1>. QED BY <1>2, <1>3, <1>4, <1>5, <1>6, FileStep

(* The line joins an index that does not list the version, and names files that
   hold what it says, or its version is contested. *)
LEMMA AppendLineStep ==
  ASSUME RegistryInv, Recording, NEW p \in Publisher, P!AppendLine(p) PROVE RegistryInv'
<1>. DEFINE v == publishers[p].version
            n == Len(index) + 1
            mine == P!Mine(p)
<1>1. /\ publishers[p].step = "line" /\ index' = Append(index, mine)
      /\ P!Goto(p, "eol") /\ UNCHANGED <<archive, signature>>
  BY DEF P!AppendLine
<1>2. /\ v \in Version /\ publishers[p].bytes \in Bytes
      /\ mine \in P!Entry /\ mine.version = v /\ mine.checksum = publishers[p].bytes
  BY <1>1, FilesStay DEF P!Mine
<1>3. index \in Seq(P!Entry \cup {EOL}) /\ Len(index) \in Nat
  BY DEF RegistryInv, RegistryTypeOK
<1>. HIDE DEF mine
<1>4. /\ index' \in Seq(P!Entry \cup {EOL})
      /\ DOMAIN index' = DOMAIN index \cup {n}
      /\ index'[n] = mine
      /\ \A i \in DOMAIN index : i # n /\ index'[i] = index[i]
  BY <1>1, <1>2, <1>3
<1>5. /\ publishers' \in [Publisher -> PublisherRun]
      /\ \A q \in Publisher : publishers'[q].step # "idle" =>
            publishers'[q].version \in Version /\ publishers'[q].bytes \in Bytes
      /\ publishers'[p].step = "eol"
      /\ publishers'[p].version = v
      /\ \A q \in Publisher \ {p} : publishers'[q] = publishers[q]
  BY <1>1, GotoRun DEF RegistryInv, Writing
<1>6. RegistryTypeOK'
  BY <1>1, <1>4, <1>5 DEF RegistryInv, RegistryTypeOK
<1>7. Apart'
  BY DEF Recording
<1>8. NotListedYet'
  <2>1. ASSUME NEW q \in Publisher, publishers'[q].step \in Unlisted,
               publishers'[q].version \notin contested'
        PROVE  /\ q # p /\ publishers'[q] = publishers[q] /\ publishers[q].version # v
               /\ publishers[q].version \notin contested
    BY <1>1, <1>5, <2>1 DEF RegistryInv, Apart, Unlisted, Writing, Recording
  <2>2. ASSUME NEW q \in Publisher, publishers'[q].step \in Unlisted,
               publishers'[q].version \notin contested',
               NEW i \in DOMAIN index', index'[i] # EOL
        PROVE  index'[i].version # publishers'[q].version
    BY <1>2, <1>4, <2>1, <2>2 DEF RegistryInv, NotListedYet
  <2>. QED BY <2>2 DEF NotListedYet
<1>9. FilesAreMine'
  BY <1>1, <1>5 DEF RegistryInv, FilesAreMine, P!Mine, Recording
<1>10. LinesAreServed'
  <2>1. v \notin contested => archive[v] = mine.checksum /\ signature[v] = mine
    BY <1>1, <1>2 DEF RegistryInv, FilesAreMine, mine
  <2>. QED BY <1>1, <1>2, <1>4, <2>1 DEF RegistryInv, LinesAreServed, Recording
<1>11. OneEntryPerVersion'
  <2>1. v \notin contested => \A i \in DOMAIN index : index[i] # EOL => index[i].version # v
    BY <1>1 DEF RegistryInv, NotListedYet, Unlisted, Writing
  <2>. QED
    BY <1>2, <1>4, <2>1 DEF RegistryInv, OneEntryPerVersion, Recording
<1>. QED BY <1>6, <1>7, <1>8, <1>9, <1>10, <1>11 DEF RegistryInv

(* A line's end is no line, and a publisher that ends has none to write. *)
LEMMA EndStep ==
  ASSUME RegistryInv, Recording, NEW p \in Publisher, P!End(p), UNCHANGED <<archive, signature>>,
         index' = Append(index, EOL) \/ UNCHANGED index
  PROVE  RegistryInv'
<1>1. index \in Seq(P!Entry \cup {EOL})
  BY DEF RegistryInv, RegistryTypeOK
<1>2. /\ index' \in Seq(P!Entry \cup {EOL})
      /\ \A i \in DOMAIN index' : index'[i] # EOL => i \in DOMAIN index /\ index'[i] = index[i]
  BY <1>1
<1>3. /\ publishers' \in [Publisher -> PublisherRun]
      /\ \A q \in Publisher : publishers'[q].step # "idle" =>
            publishers'[q].version \in Version /\ publishers'[q].bytes \in Bytes
      /\ publishers'[p].step = "idle"
      /\ \A q \in Publisher \ {p} : publishers'[q] = publishers[q]
  BY EndRun DEF RegistryInv
<1>4. RegistryTypeOK'
  BY <1>2, <1>3 DEF RegistryInv, RegistryTypeOK
<1>5. Apart'
  BY DEF Recording
<1>6. NotListedYet'
  BY <1>2, <1>3 DEF RegistryInv, NotListedYet, Unlisted, Writing, Recording
<1>7. FilesAreMine'
  BY <1>3 DEF RegistryInv, FilesAreMine, P!Mine, Recording
<1>8. LinesAreServed' /\ OneEntryPerVersion'
  BY <1>2 DEF RegistryInv, LinesAreServed, OneEntryPerVersion, Recording
<1>. QED BY <1>4, <1>5, <1>6, <1>7, <1>8 DEF RegistryInv

(* Every step of a publisher keeps RegistryInv. *)
LEMMA PublishingStep ==
  ASSUME RegistryInv, CrowdOK, Publishing PROVE RegistryInv'
<1>. Recording
  BY PublishingTypes, PublishingRecords DEF RegistryInv
<1>1. PICK p \in Publisher : P!PublisherNext(p)
  BY RegistryAssumption DEF Publishing, CrowdOK
<1>2. CASE P!Check(p)
  BY <1>2, CheckStep
<1>3. CASE P!StartArchive(p)
  BY <1>3, StartArchiveStep
<1>4. CASE P!FinishArchive(p)
  BY <1>4, FinishArchiveStep
<1>5. CASE P!StartSignature(p)
  BY <1>5, StartSignatureStep
<1>6. CASE P!FinishSignature(p)
  BY <1>6, FinishSignatureStep
<1>7. CASE P!AppendLine(p)
  BY <1>7, AppendLineStep
<1>8. CASE P!AppendEnd(p)
  BY <1>8, EndStep DEF P!AppendEnd
<1>9. CASE P!Stop(p)
  BY <1>9, EndStep DEF P!Stop
<1>. QED
  BY <1>1, <1>2, <1>3, <1>4, <1>5, <1>6, <1>7, <1>8, <1>9 DEF P!PublisherNext

(* So does any step that leaves the registry alone. *)
LEMMA RegistryStays ==
  ASSUME RegistryInv, UNCHANGED <<registryVars, contested>> PROVE RegistryInv'
  BY DEF registryVars, RegistryInv, RegistryTypeOK, Apart, NotListedYet, FilesAreMine,
     P!Mine, LinesAreServed, OneEntryPerVersion

-----------------------------------------------------------------------------
(* What the index is to its readers: it only grows, and no line's archive is
   touched again unless its version is contested. *)
Kept ==
  /\ Len(index') >= Len(index) /\ \A i \in DOMAIN index : index'[i] = index[i]
  /\ \A e \in P!Entries : e.version \notin contested =>
       archive'[e.version] = archive[e.version]

(* A publisher that touches an archive has its line to write. *)
LEMMA ArchiveKept ==
  ASSUME RegistryInv, NEW p \in Publisher, publishers[p].step \in Unlisted, NEW a,
         archive' = [archive EXCEPT ![publishers[p].version] = a], UNCHANGED index
  PROVE  Kept
<1>1. ASSUME NEW e \in P!Entries, e.version \notin contested
      PROVE  archive'[e.version] = archive[e.version]
  <2>1. PICK i \in DOMAIN index : index[i] = e /\ e # EOL
    BY DEF P!Entries
  <2>2. e \in P!Entry
    BY <2>1 DEF RegistryInv, RegistryTypeOK
  <2>3. e.version # publishers[p].version /\ e.version \in Version
    BY <1>1, <2>1, <2>2 DEF RegistryInv, NotListedYet, P!Entry
  <2>. QED BY <2>3 DEF RegistryInv, RegistryTypeOK
<1>2. Len(index) \in Nat
  BY DEF RegistryInv, RegistryTypeOK
<1>. QED BY <1>1, <1>2 DEF Kept

(* A step that at most appends to the index takes nothing from its readers. *)
LEMMA IndexKept ==
  ASSUME RegistryInv, UNCHANGED archive,
         UNCHANGED index \/ \E x \in P!Entry \cup {EOL} : index' = Append(index, x)
  PROVE  Kept
<1>1. index \in Seq(P!Entry \cup {EOL})
  BY DEF RegistryInv, RegistryTypeOK
<1>. QED BY <1>1 DEF Kept

(* No step of a publisher does. *)
LEMMA PublishingKeeps ==
  ASSUME RegistryInv, CrowdOK, Publishing PROVE Kept
<1>1. PICK p \in Publisher : P!PublisherNext(p)
  BY RegistryAssumption DEF Publishing, CrowdOK
<1>2. CASE P!StartArchive(p)
  BY <1>2, ArchiveKept DEF P!StartArchive, Unlisted, Writing
<1>3. CASE P!FinishArchive(p)
  BY <1>3, ArchiveKept DEF P!FinishArchive, Unlisted, Writing
<1>4. CASE P!Check(p) \/ P!StartSignature(p) \/ P!FinishSignature(p) \/ P!Stop(p)
  BY <1>4, IndexKept DEF P!Check, P!StartSignature, P!FinishSignature, P!Stop
<1>5. CASE P!AppendLine(p)
  <2>1. P!Mine(p) \in P!Entry
    BY <1>5, FilesStay DEF P!AppendLine
  <2>. QED BY <1>5, <2>1, IndexKept DEF P!AppendLine
<1>6. CASE P!AppendEnd(p)
  BY <1>6, IndexKept DEF P!AppendEnd
<1>. QED
  BY <1>1, <1>2, <1>3, <1>4, <1>5, <1>6 DEF P!PublisherNext

(* Nor does one that leaves the registry alone. *)
LEMMA StayingKeeps == ASSUME RegistryInv, UNCHANGED registryVars PROVE Kept
  BY IndexKept DEF registryVars

-----------------------------------------------------------------------------
(* The readers. *)

(* A reader with nothing to do is in order. *)
LEMMA IdleReader == C!Idle \in ReaderRun /\ ReaderOK(C!Idle)
  BY RegistryAssumption DEF C!Idle, ReaderRun, ReaderOK

(* At first no copy is cached and no run knows of one. *)
LEMMA ReaderInit == Init => ReaderInv
<1>1. ASSUME Init PROVE ReaderInv
  <2>1. /\ cache = None /\ last = None /\ index = <<>>
        /\ runs = [r \in Run |-> C!Idle]
    BY <1>1 DEF Init, P!Init, C!Init
  <2>. QED
    BY <2>1, IdleReader DEF ReaderInv, CacheIsWhole, C!CacheIsWhole, CacheFollows
<1>. QED BY <1>1

(* One run moves to locals that are well formed; nothing of the cache changes. *)
LEMMA ReaderMove ==
  ASSUME runs \in [Run -> ReaderRun], \A r \in Run : ReaderOK(runs[r]), UNCHANGED index,
         NEW r \in Run, NEW l, ReaderOK(l), runs' = [runs EXCEPT ![r] = l]
  PROVE  runs' \in [Run -> ReaderRun] /\ \A q \in Run : ReaderOK(runs[q])'
  BY DEF ReaderOK, Answers, Edition

(* A run that was told nothing yet is told an answer. *)
LEMMA AnsweredOK ==
  ASSUME NEW r \in Run, runs[r] \in ReaderRun, ReaderOK(runs[r]),
         NEW answer \in Answers, runs[r].memo \in {None, answer}
  PROVE  ReaderOK(C!Answered(r, answer))
<1>. DEFINE l == C!Answered(r, answer)
<1>1. answer \in Nat \cup {Gone} /\ answer # None
  BY RegistryAssumption DEF Answers
<1>2. /\ l.step = "ready" /\ l.access = runs[r].access /\ l.got = None /\ l.memo = answer
      /\ l.asked = runs[r].asked \cup {answer} /\ l.alone = runs[r].alone
      /\ l \in ReaderRun
  BY <1>1 DEF C!Answered, ReaderRun
<1>3. l.asked = {answer}
  BY <1>2 DEF ReaderOK
<1>. HIDE DEF l
<1>4. ReaderOK(l)
  BY <1>1, <1>2, <1>3 DEF ReaderOK
<1>. QED BY <1>4 DEF l

(* The whole and the followed cache stay so when no file of it changes, ... *)
LEMMA CacheStays ==
  ASSUME CacheIsWhole, CacheFollows, UNCHANGED <<cache, index>>, last' \in {last, None}
  PROVE  CacheIsWhole' /\ CacheFollows'
  BY DEF CacheIsWhole, C!CacheIsWhole, CacheFollows, Edition

(* ... and when it becomes what a run was told. *)
LEMMA CacheMoves ==
  ASSUME UNCHANGED index, NEW got \in Answers, last' \in {got, None},
         cache' = IF got = Gone THEN None ELSE got
  PROVE  CacheIsWhole' /\ CacheFollows'
  BY RegistryAssumption DEF CacheIsWhole, C!CacheIsWhole, CacheFollows, Edition, Answers

(* A run begins with no index read. *)
LEMMA StartRun ==
  ASSUME ReaderInv, UNCHANGED index, NEW r \in Run, C!Start(r) PROVE ReaderInv'
<1>1. PICK access \in {"online", "offline"} :
        runs' = [q \in Run |->
          IF q = r THEN [C!Idle EXCEPT !.step = "ready", !.access = access,
                                       !.alone = \A o \in Run : runs[o] = C!Idle]
          ELSE [runs[q] EXCEPT !.alone = FALSE]]
  BY DEF C!Start
<1>2. (\A o \in Run : runs[o] = C!Idle) \in BOOLEAN
  OBVIOUS
<1>3. ASSUME NEW b \in BOOLEAN
      PROVE  LET l == [C!Idle EXCEPT !.step = "ready", !.access = access, !.alone = b]
             IN  ReaderOK(l)
  BY RegistryAssumption DEF C!Idle, ReaderRun, ReaderOK
<1>4. ASSUME NEW q \in Run PROVE ReaderOK([runs[q] EXCEPT !.alone = FALSE])
  <2>1. runs[q] \in ReaderRun /\ ReaderOK(runs[q])
    BY DEF ReaderInv
  <2>. DEFINE l == [runs[q] EXCEPT !.alone = FALSE]
  <2>2. /\ l \in ReaderRun
        /\ l.step = runs[q].step /\ l.got = runs[q].got /\ l.memo = runs[q].memo
        /\ l.asked = runs[q].asked
    BY <2>1 DEF ReaderRun
  <2>. HIDE DEF l
  <2>3. ReaderOK(l)
    BY <2>1, <2>2 DEF ReaderOK
  <2>. QED BY <2>3 DEF l
<1>5. \A q \in Run : ReaderOK(runs'[q])
  BY <1>1, <1>2, <1>3, <1>4
<1>6. runs' \in [Run -> ReaderRun]
  BY <1>1, <1>5 DEF ReaderOK
<1>7. \A q \in Run : ReaderOK(runs[q])'
  BY <1>5 DEF ReaderOK, Answers, Edition
<1>8. CacheIsWhole' /\ CacheFollows'
  BY CacheStays DEF C!Start, ReaderInv
<1>. QED BY <1>6, <1>7, <1>8 DEF ReaderInv

(* A run that ends or is killed leaves the cached copy as it is. *)
LEMMA QuitRun ==
  ASSUME ReaderInv, UNCHANGED <<index, cache, last>>, NEW r \in Run, C!Quit(r)
  PROVE  ReaderInv'
<1>1. runs' = [runs EXCEPT ![r] = C!Idle]
  BY DEF C!Quit
<1>2. runs' \in [Run -> ReaderRun] /\ \A q \in Run : ReaderOK(runs[q])'
  BY <1>1, IdleReader, ReaderMove DEF ReaderInv
<1>. QED BY <1>2, CacheStays DEF ReaderInv

(* An answer that leaves the cache as it is. *)
LEMMA AnswerRun ==
  ASSUME ReaderInv, NEW r \in Run, NEW answer \in Answers, runs[r].memo \in {None, answer},
         runs' = [runs EXCEPT ![r] = C!Answered(r, answer)],
         UNCHANGED <<index, cache>>, last' \in {last, None}
  PROVE  ReaderInv'
<1>1. runs' \in [Run -> ReaderRun] /\ \A q \in Run : ReaderOK(runs[q])'
  BY AnsweredOK, ReaderMove DEF ReaderInv
<1>. QED BY <1>1, CacheStays DEF ReaderInv

(* An answer that the cache is brought in line with. *)
LEMMA CachedRun ==
  ASSUME ReaderInv, NEW r \in Run, runs[r].got \in Answers, runs[r].memo = None,
         runs' = [runs EXCEPT ![r] = C!Answered(r, runs[r].got)],
         UNCHANGED index, C!Told(r, TRUE),
         cache' = IF runs[r].got = Gone THEN None ELSE runs[r].got
  PROVE  ReaderInv'
<1>1. runs' \in [Run -> ReaderRun] /\ \A q \in Run : ReaderOK(runs[q])'
  BY AnsweredOK, ReaderMove DEF ReaderInv
<1>2. last' \in {runs[r].got, None}
  BY DEF C!Told
<1>. QED BY <1>1, <1>2, CacheMoves DEF ReaderInv

(* A run that was told nothing yet goes on to another step of asking. *)
LEMMA StepRun ==
  ASSUME ReaderInv, UNCHANGED <<index, cache, last>>, NEW r \in Run, runs[r].memo = None,
         NEW l \in ReaderRun, l.memo = None, l.asked = runs[r].asked,
         l.step = "fetched" => l.got \in Answers, l.step = "written" => l.got \in 1 .. Edition,
         runs' = [runs EXCEPT ![r] = l]
  PROVE  ReaderInv'
<1>1. ReaderOK(l)
  BY DEF ReaderInv, ReaderOK
<1>2. runs' \in [Run -> ReaderRun] /\ \A q \in Run : ReaderOK(runs[q])'
  BY <1>1, ReaderMove DEF ReaderInv
<1>. QED BY <1>2, CacheStays DEF ReaderInv

(* What the registry serves is the index, up to its last whole line. *)
LEMMA ServedIsAnswer == ASSUME RegistryTypeOK PROVE Served \in Answers
<1>1. Len(index) \in Nat /\ (index # <<>> => Len(index) > 0)
  BY DEF RegistryTypeOK
<1>. QED BY <1>1 DEF Served, Answers, Edition

(* A run asks for an index, from what it has read or from the registry. *)
LEMMA AskRun ==
  ASSUME ReaderInv, UNCHANGED index, NEW r \in Run, C!Ask(r) PROVE ReaderInv'
<1>1. runs[r] \in ReaderRun /\ ReaderOK(runs[r])
  BY DEF ReaderInv
<1>2. CASE runs[r].memo # None
  <2>1. runs' = [runs EXCEPT ![r] = C!Answered(r, runs[r].memo)]
    BY <1>2 DEF C!Ask
  <2>2. runs[r].memo \in Answers
    BY <1>1, <1>2 DEF ReaderOK
  <2>. QED BY <2>1, <2>2, AnswerRun DEF C!Ask
<1>3. CASE runs[r].memo = None
  <2>. DEFINE l == [runs[r] EXCEPT !.step = "read"]
  <2>1. runs' = [runs EXCEPT ![r] = l]
    BY <1>3 DEF C!Ask
  <2>2. l \in ReaderRun /\ l.step = "read" /\ l.memo = None /\ l.asked = runs[r].asked
    BY <1>1, <1>3 DEF ReaderRun
  <2>. HIDE DEF l
  <2>. QED BY <1>3, <2>1, <2>2, StepRun DEF C!Ask
<1>. QED BY <1>2, <1>3

(* It reads a directory registry's index as it is at once. *)
LEMMA ReadDirectoryRun ==
  ASSUME RegistryTypeOK, ReaderInv, UNCHANGED index, NEW r \in Run, C!ReadDirectory(r)
  PROVE  ReaderInv'
<1>1. runs[r].memo = None
  BY DEF ReaderInv, ReaderOK, C!ReadDirectory
<1>. QED BY <1>1, ServedIsAnswer, AnswerRun DEF C!ReadDirectory

(* Offline it reads the cached copy. *)
LEMMA ReadCacheRun ==
  ASSUME ReaderInv, UNCHANGED index, NEW r \in Run, C!ReadCache(r) PROVE ReaderInv'
<1>1. runs[r].memo = None
  BY DEF ReaderInv, ReaderOK, C!ReadCache
<1>2. CASE cache = None
  BY <1>2, QuitRun DEF C!ReadCache
<1>3. CASE cache # None
  <2>1. cache \in Answers
    BY <1>3 DEF ReaderInv, CacheIsWhole, C!CacheIsWhole, Answers
  <2>. QED BY <1>1, <1>3, <2>1, AnswerRun DEF C!ReadCache
<1>. QED BY <1>2, <1>3

(* Online it fetches what is served. *)
LEMMA FetchRun ==
  ASSUME RegistryTypeOK, ReaderInv, UNCHANGED index, NEW r \in Run, C!Fetch(r) PROVE ReaderInv'
<1>1. runs[r] \in ReaderRun /\ runs[r].memo = None
  BY DEF ReaderInv, ReaderOK, C!Fetch
<1>2. CASE C!Quit(r)
  BY <1>2, QuitRun DEF C!Fetch
<1>3. CASE runs' = [runs EXCEPT ![r].step = "fetched", ![r].got = Served]
  <2>. DEFINE l == [runs[r] EXCEPT !.step = "fetched", !.got = Served]
  <2>1. runs' = [runs EXCEPT ![r] = l]
    BY <1>3 DEF ReaderInv
  <2>2. Served \in Nat \cup {None, Gone}
    BY ServedIsAnswer DEF Answers
  <2>3. /\ l \in ReaderRun /\ l.step = "fetched" /\ l.memo = None /\ l.asked = runs[r].asked
        /\ l.got = Served
    BY <1>1, <2>2 DEF ReaderRun
  <2>. HIDE DEF l
  <2>. QED BY <1>1, <2>1, <2>3, ServedIsAnswer, StepRun DEF C!Fetch
<1>. QED BY <1>2, <1>3 DEF C!Fetch, C!interpret

(* What it fetched goes to the cache: an index that is gone is dropped from it, *)
LEMMA DropCopyRun ==
  ASSUME ReaderInv, UNCHANGED index, NEW r \in Run, C!DropCopy(r) PROVE ReaderInv'
<1>1. runs[r].memo = None /\ runs[r].got = Gone /\ Gone \in Answers
  BY DEF ReaderInv, ReaderOK, C!DropCopy, Answers
<1>2. CASE cache' = None /\ C!Told(r, TRUE)
  BY <1>1, <1>2, CachedRun DEF C!DropCopy
<1>3. CASE cache' = cache /\ C!Told(r, FALSE)
  BY <1>1, <1>3, AnswerRun DEF C!DropCopy, C!Told
<1>. QED BY <1>2, <1>3 DEF C!DropCopy

(* and another is written to a scratch file *)
LEMMA WriteCopyRun ==
  ASSUME ReaderInv, UNCHANGED index, NEW r \in Run, C!WriteCopy(r) PROVE ReaderInv'
<1>1. /\ runs[r] \in ReaderRun /\ runs[r].memo = None
      /\ runs[r].got \in 1 .. Edition /\ runs[r].got \in Answers
  BY DEF ReaderInv, ReaderOK, C!WriteCopy, Answers
<1>2. CASE runs' = [runs EXCEPT ![r].step = "written"] /\ last' = last
  <2>. DEFINE l == [runs[r] EXCEPT !.step = "written"]
  <2>1. runs' = [runs EXCEPT ![r] = l]
    BY <1>2 DEF ReaderInv
  <2>2. /\ l \in ReaderRun /\ l.step = "written" /\ l.memo = None /\ l.asked = runs[r].asked
        /\ l.got = runs[r].got
    BY <1>1 DEF ReaderRun
  <2>. HIDE DEF l
  <2>. QED BY <1>1, <1>2, <2>1, <2>2, StepRun DEF C!WriteCopy
<1>3. CASE runs' = [runs EXCEPT ![r] = C!Answered(r, runs[r].got)] /\ C!Told(r, FALSE)
  BY <1>1, <1>3, AnswerRun DEF C!WriteCopy, C!Told
<1>. QED BY <1>2, <1>3 DEF C!WriteCopy

(* and renamed over the cached one. *)
LEMMA RenameCopyRun ==
  ASSUME ReaderInv, UNCHANGED index, NEW r \in Run, C!RenameCopy(r) PROVE ReaderInv'
<1>1. runs[r].memo = None /\ runs[r].got \in 1 .. Edition
  BY DEF ReaderInv, ReaderOK, C!RenameCopy
<1>2. runs[r].got \in Answers /\ runs[r].got # Gone
  BY <1>1, RegistryAssumption DEF Answers
<1>3. runs' = [runs EXCEPT ![r] = C!Answered(r, runs[r].got)] /\ UNCHANGED index
  BY DEF C!RenameCopy
<1>4. CASE cache' = runs[r].got /\ C!Told(r, TRUE)
  BY <1>1, <1>2, <1>3, <1>4, CachedRun
<1>5. CASE cache' = cache /\ C!Told(r, FALSE)
  BY <1>1, <1>2, <1>3, <1>5, AnswerRun DEF C!Told
<1>. QED BY <1>4, <1>5 DEF C!RenameCopy

(* Every step of a reader keeps ReaderInv. *)
LEMMA ReadingStep ==
  ASSUME RegistryTypeOK, ReaderInv, CrowdOK, Reading PROVE ReaderInv'
<1>1. PICK r \in Run : C!RunNext(r)
  BY RegistryAssumption DEF Reading, CrowdOK
<1>2. UNCHANGED index
  BY DEF Reading, registryVars
<1>3. CASE C!Start(r)
  BY <1>2, <1>3, StartRun
<1>4. CASE C!Ask(r)
  BY <1>2, <1>4, AskRun
<1>5. CASE C!ReadDirectory(r)
  BY <1>2, <1>5, ReadDirectoryRun
<1>6. CASE C!ReadCache(r)
  BY <1>2, <1>6, ReadCacheRun
<1>7. CASE C!Fetch(r)
  BY <1>2, <1>7, FetchRun
<1>8. CASE C!DropCopy(r)
  BY <1>2, <1>8, DropCopyRun
<1>9. CASE C!WriteCopy(r)
  BY <1>2, <1>9, WriteCopyRun
<1>10. CASE C!RenameCopy(r)
  BY <1>2, <1>10, RenameCopyRun
<1>11. CASE C!Stop(r)
  BY <1>2, <1>11, QuitRun DEF C!Stop
<1>. QED
  BY <1>1, <1>3, <1>4, <1>5, <1>6, <1>7, <1>8, <1>9, <1>10, <1>11 DEF C!RunNext

(* A growing index makes no answer wrong that was one. *)
LEMMA ReadersStay ==
  ASSUME RegistryTypeOK, RegistryTypeOK', Len(index') >= Len(index), ReaderInv,
         UNCHANGED clientVars
  PROVE  ReaderInv'
<1>1. Edition \in Nat /\ Edition' \in Nat /\ Edition <= Edition'
  BY DEF RegistryTypeOK, Edition
<1>2. UNCHANGED <<runs, cache, last>>
  BY DEF clientVars
<1>3. ASSUME NEW r \in Run PROVE ReaderOK(runs[r])'
  <2>1. ReaderOK(runs[r])
    BY DEF ReaderInv
  <2>. QED BY <1>1, <1>2, <2>1 DEF ReaderOK, Answers
<1>4. CacheIsWhole'
  BY <1>1, <1>2 DEF ReaderInv, CacheIsWhole, C!CacheIsWhole
<1>. QED BY <1>2, <1>3, <1>4 DEF ReaderInv, CacheFollows

-----------------------------------------------------------------------------
(* The system. *)

(* The part of the invariant that holds whoever publishes what. *)
SharedInv == RegistryTypeOK /\ ReaderInv /\ CrowdOK

(* An empty registry with no reader satisfies LivesInv. *)
LEMMA LivesInit == Init => LivesInv
  BY RegistryInit, ReaderInit DEF Init, LivesInv, CrowdOK

(* What holds however publishers overlap is kept by every step, *)
LEMMA SharedStep == ASSUME SharedInv, [Next]_vars PROVE SharedInv'
<1>. USE DEF SharedInv, CrowdOK
<1>1. CASE Publishing
  BY <1>1, PublishingTypes, ReadersStay DEF Publishing
<1>2. CASE Reading
  BY <1>2, ReadingStep DEF Reading, registryVars, RegistryTypeOK
<1>3. CASE Withdraw \/ UNCHANGED vars
  <2>1. UNCHANGED <<registryVars, clientVars, crowd>>
    BY <1>3 DEF Withdraw, vars
  <2>2. RegistryTypeOK' /\ Len(index') >= Len(index)
    BY <2>1 DEF registryVars, RegistryTypeOK
  <2>. QED BY <2>1, <2>2, ReadersStay
<1>. QED BY <1>1, <1>2, <1>3 DEF Next

(* and so is LivesInv. *)
LEMMA LivesStep ==
  ASSUME LivesInv, [Next]_vars PROVE LivesInv' /\ Kept
<1>. USE DEF LivesInv, CrowdOK
<1>1. SharedInv'
  BY SharedStep DEF SharedInv, RegistryInv
<1>2. CASE Publishing
  BY <1>1, <1>2, PublishingStep, PublishingKeeps DEF SharedInv
<1>3. CASE UNCHANGED <<registryVars, contested>>
  BY <1>1, <1>3, RegistryStays, StayingKeeps DEF SharedInv
<1>. QED BY <1>2, <1>3 DEF Next, Reading, Withdraw, vars

(* The readers' invariant and the types hold in every state. *)
THEOREM ReadersInvariant == Spec => []SharedInv
<1>1. Init => SharedInv
  BY LivesInit DEF LivesInv, RegistryInv, SharedInv
<1>2. SharedInv /\ [Next]_vars => SharedInv'
  BY SharedStep
<1>. QED BY <1>1, <1>2, PTL DEF Spec

(* LivesInv holds in every state of the registry and its readers.  main.rs
   publish keeps nobody out of a version that another is publishing: what the
   invariant says of a version it says until that has happened to it. *)
THEOREM RegistryLivesInvariant == Spec => []LivesInv
<1>1. LivesInv /\ [Next]_vars => LivesInv'
  BY LivesStep
<1>. QED BY <1>1, LivesInit, PTL DEF Spec

(* main.rs publish: whatever the index publishes is there, whole, with the bytes
   its line names and a signature over exactly those, whoever was killed where,
   unless two publishers were at work on the version at once: the files are
   written before the line, and nobody else writes them. *)
THEOREM PublishedIsServed == Spec => []IndexedIsServed
<1>1. LivesInv => IndexedIsServed
  BY LinesAre DEF LivesInv, RegistryInv
<1>. QED BY <1>1, RegistryLivesInvariant, PTL

(* main.rs publish: a version is published twice only by publishers who were at
   work on it at once, between the check and the line: however many publishers
   are killed where, and however often and with whatever bytes it is attempted
   again, nothing else does it, and versions beside it are not touched. *)
THEOREM PublishedOnce == Spec => []OneEntryPerVersion
<1>1. LivesInv => OneEntryPerVersion
  BY DEF LivesInv, RegistryInv
<1>. QED BY <1>1, RegistryLivesInvariant, PTL

(* main.rs publish: no step of anyone takes a line back, or touches the bytes a
   line names unless two publishers were at work on its version at once. *)
THEOREM PublicationLasts == Spec => PublishedIsForever
<1>1. LivesInv /\ [Next]_vars => [Kept]_vars
  BY LivesStep
<1>2. Spec => [][Kept]_vars
  BY <1>1, RegistryLivesInvariant, PTL DEF Spec
<1>. QED BY <1>2 DEF PublishedIsForever, Kept

(* registry.rs cache_index_file: the cached index is a whole one that the
   registry served, whoever is writing it or was killed writing it. *)
THEOREM CachedIsWhole == Spec => []CacheIsWhole
<1>1. SharedInv => CacheIsWhole
  BY DEF SharedInv, ReaderInv
<1>. QED BY <1>1, ReadersInvariant, PTL

(* registry.rs index_file: when no run is going on, an offline run reads what
   the last online run was told. *)
THEOREM OfflineReadsOnline == Spec => []OfflineFollowsOnline
<1>1. SharedInv => OfflineFollowsOnline
  BY DEF SharedInv, ReaderInv, CacheFollows, OfflineFollowsOnline, C!OfflineFollowsOnline
<1>. QED BY <1>1, ReadersInvariant, PTL

(* registry.rs versions: a run is told one thing, however often it asks and
   whatever is published meanwhile. *)
THEOREM RunsSeeOneIndex == Spec => []RunSeesOneIndex
<1>1. ASSUME SharedInv, NEW r \in Run, NEW a \in runs[r].asked, NEW b \in runs[r].asked
      PROVE  a = b
  <2>1. runs[r].asked \subseteq {runs[r].memo}
    BY <1>1 DEF SharedInv, ReaderInv, ReaderOK
  <2>. QED BY <1>1, <2>1
<1>2. SharedInv => RunSeesOneIndex
  BY <1>1 DEF RunSeesOneIndex, C!RunSeesOneIndex
<1>. QED BY <1>2, ReadersInvariant, PTL

(* What a run is told, online, offline or from a directory, names only archives
   that the registry holds with those very bytes, with the same exception. *)
THEOREM ToldArchivesAreServed == Spec => []ToldIsServed
<1>1. ASSUME LivesInv, NEW r \in Run, NEW told \in runs[r].asked \ {Gone},
             NEW i \in 1 .. told, index[i] # EOL, index[i].version \notin contested
      PROVE  archive[index[i].version] = index[i].checksum
  <2>1. told \in 1 .. Len(index)
    BY <1>1 DEF LivesInv, ReaderInv, ReaderOK, Answers, Edition
  <2>2. i \in DOMAIN index
    BY <1>1, <2>1 DEF LivesInv, RegistryInv, RegistryTypeOK
  <2>. QED BY <1>1, <2>2 DEF LivesInv, RegistryInv, LinesAreServed
<1>2. LivesInv => ToldIsServed
  BY <1>1 DEF ToldIsServed
<1>. QED BY <1>2, RegistryLivesInvariant, PTL
=============================================================================
