--------------------------- MODULE Lockfile_proofs ---------------------------
(***************************************************************************)
(* The lock that stands after commands that took turns is the last answer,  *)
(* a build in peace finds it again and so does --locked, for any trees,     *)
(* registries and selection of versions that is stable: LockInv is          *)
(* inductive.                                                               *)
(***************************************************************************)
EXTENDS Lockfile, FiniteSetTheorems, WellFoundedInduction, TLAPS

Resolves(r) == r.step \in {"resolve", "write", "writing"}
Writes(r) == r.step \in {"write", "writing"}

(* What a command's locals are when it has got that far. *)
RunOK(r) ==
  /\ r = [f \in DOMAIN Idle |-> r[f]]
  /\ r.step \in {"edit", "editing"} => r.at \in Directory
  /\ r.step \in {"enlist", "open"} => r.then \in Directory
  /\ r.then \in Directory \cup {None}
  /\ Resolves(r) =>
       /\ r.mode \in Modes /\ r.root \in Directory /\ r.needs \in Manifest
       /\ r.existing \in Lock \cup {None}
  /\ Writes(r) => r.found \in Lock

Answers == [needs : Manifest \cup {None}, lock : Lock \cup {None}, peace : BOOLEAN]

LockTypeOK ==
  /\ life \in DOMAIN Lives /\ registry \in Registry
  /\ DOMAIN file \subseteq Directory /\ DOMAIN tree \subseteq Directory
  /\ lock \in [Directory -> Lock \cup {None, Torn}]
  /\ run = [s \in Session |-> run[s]] /\ \A s \in Session : RunOK(run[s])
  /\ agreed \in [Directory -> Answers]
  /\ alone \in Session \cup {None}

(* A command that is said to be alone is, and while anything stands in peace
   whatever runs is alone. *)
OneAtATime ==
  /\ alone # None => \A s \in Session \ {alone} : run[s] = Idle
  /\ alone = None /\ (\E d \in Directory : agreed[d].peace) => \A s \in Session : run[s] = Idle

(* What a command takes for the lock of a root. *)
Readable(l) == IF l = Torn THEN None ELSE l

(* What a command alone has read of the lock is still there, or being replaced
   by its answer. *)
AloneOK ==
  alone # None =>
    /\ run[alone].step \in {"resolve", "write"} =>
         run[alone].existing = Readable(lock[run[alone].root])
    /\ run[alone].step = "writing" => lock[run[alone].root] = Torn
    /\ Writes(run[alone]) => run[alone].found = agreed[run[alone].root].lock

(* What is in peace is what the last command has found, unless it is still to
   be written. *)
PeaceKept ==
  \A d \in Directory : agreed[d].peace =>
    \/ lock[d] = agreed[d].lock
    \/ alone # None /\ Writes(run[alone]) /\ run[alone].root = d

(* And that is an answer to what it says. *)
IsAnswer(needs, found) ==
  /\ needs \in Manifest /\ found \in Lock
  /\ \E r \in Registry, pins \in PinSets : Select(needs, r, pins) = found

AnswersStand ==
  \A d \in Directory :
    IF agreed[d].needs = None THEN agreed[d].lock = None ELSE IsAnswer(agreed[d].needs, agreed[d].lock)

PeaceInv == OneAtATime /\ AloneOK /\ PeaceKept /\ AnswersStand

LockInv == LockTypeOK /\ PeaceInv

-----------------------------------------------------------------------------
(* Workspaces *)

LEMMA Least ==
  ASSUME NEW T \in SUBSET Nat, T # {}
  PROVE  \E x \in T : \A y \in T : x <= y
<1>. DEFINE R == OpToRel(<, Nat)
<1>1. IsWellFoundedOn(R, Nat)
  BY NatLessThanWellFounded
<1>2. \A x, y \in Nat : x < y => <<x, y>> \in R
  BY DEF OpToRel
<1>. HIDE DEF R
<1>3. PICK x \in T : \A y \in T : ~(<<y, x>> \in R)
  BY <1>1, WFMin
<1>4. ASSUME NEW y \in T PROVE x <= y
  <2>1. x \in Nat /\ y \in Nat
    OBVIOUS
  <2>2. ~(y < x)
    BY <1>2, <1>3, <2>1
  <2>. QED BY <2>1, <2>2
<1>. QED BY <1>4

(* Of the directories above one there is a deepest. *)
LEMMA DeepestIsOne ==
  ASSUME NEW dirs, dirs # {}, dirs \subseteq Directory,
         NEW dir \in Directory, \A d \in dirs : Len(d) <= Len(dir)
  PROVE  Deepest(dirs) \in dirs /\ \A e \in dirs : Len(e) <= Len(Deepest(dirs))
<1>1. Len(dir) \in Nat /\ \A d \in dirs : Len(d) \in Nat
  BY LockAssumption
<1>. DEFINE T == {Len(dir) - Len(d) : d \in dirs}
<1>2. T \in SUBSET Nat /\ T # {}
  BY <1>1
<1>3. PICK x \in T : \A y \in T : x <= y
  <2>. HIDE DEF T
  <2>. QED BY <1>2, Least
<1>4. PICK d \in dirs : x = Len(dir) - Len(d)
  OBVIOUS
<1>5. \A e \in dirs : Len(e) <= Len(d)
  <2>. SUFFICES ASSUME NEW e \in dirs PROVE Len(e) <= Len(d)
    OBVIOUS
  <2>1. Len(dir) - Len(d) <= Len(dir) - Len(e)
    BY <1>3, <1>4
  <2>. QED BY <1>1, <2>1
<1>. QED BY <1>5 DEF Deepest

(* The workspace that is found above a package is at a manifest. *)
LEMMA EnclosingIsThere ==
  ASSUME NEW t, DOMAIN t \subseteq Directory, NEW dir \in Directory
  PROVE  Enclosing(t, dir).is \in {"member", "unlisted"} => Enclosing(t, dir).root \in DOMAIN t
<1>. DEFINE above == Ancestors(t, dir)
<1>. DEFINE judged == [d \in above |-> Judged(t, d, dir)]
<1>. DEFINE decides == {d \in above : judged[d] \in {"yes", "error"}}
<1>. DEFINE refuses == {d \in above : judged[d] = "no"}
<1>1. above \subseteq DOMAIN t /\ \A d \in above : Len(d) <= Len(dir)
  BY DEF Ancestors, IsAbove
<1>2. decides # {} => Deepest(decides) \in decides
  <2>1. decides \subseteq above
    OBVIOUS
  <2>. HIDE DEF decides, above
  <2>. QED BY <1>1, <2>1, DeepestIsOne
<1>3. refuses # {} => Deepest(refuses) \in refuses
  <2>1. refuses \subseteq above
    OBVIOUS
  <2>. HIDE DEF refuses, above
  <2>. QED BY <1>1, <2>1, DeepestIsOne
<1>4. Enclosing(t, dir) =
        CASE decides # {} -> IF judged[Deepest(decides)] = "error" THEN [is |-> "error", root |-> None]
                             ELSE [is |-> "member", root |-> Deepest(decides)]
          [] decides = {} /\ refuses # {} -> [is |-> "unlisted", root |-> Deepest(refuses)]
          [] OTHER -> [is |-> "nothing", root |-> None]
  <2>1. DOMAIN judged = above
    OBVIOUS
  <2>. HIDE DEF above
  <2>. QED BY <2>1 DEF Enclosing, Asked, Decided, above
<1>5. decides \subseteq DOMAIN t /\ refuses \subseteq DOMAIN t
  BY <1>1
<1>. HIDE DEF decides, refuses, judged, above
<1>6. CASE decides # {}
  BY <1>2, <1>4, <1>5, <1>6
<1>7. CASE decides = {} /\ refuses # {}
  BY <1>3, <1>4, <1>5, <1>7
<1>8. CASE decides = {} /\ refuses = {}
  BY <1>4, <1>8
<1>. QED BY <1>6, <1>7, <1>8

(* So is the root of a workspace. *)
LEMMA RootIsThere ==
  ASSUME NEW t, DOMAIN t \subseteq Directory, NEW dir \in DOMAIN t \cup {None}
  PROVE  RootOf(t, dir) \in DOMAIN t \cup {Failed}
<1>1. CASE dir = None
  BY <1>1 DEF RootOf
<1>2. CASE dir \in DOMAIN t
  <2>1. Enclosing(t, dir).is = "member" => Enclosing(t, dir).root \in DOMAIN t
    BY <1>2, EnclosingIsThere
  <2>2. Rooted(dir, Enclosing(t, dir)) \in DOMAIN t \cup {Failed}
    BY <1>2, <2>1 DEF Rooted
  <2>. QED BY <1>2, <2>2 DEF RootOf
<1>. QED BY <1>1, <1>2

(* A directory with a manifest is the nearest to itself. *)
LEMMA NearestIsThere ==
  ASSUME NEW t, DOMAIN t \subseteq Directory, NEW dir \in Directory
  PROVE  /\ Nearest(t, dir) \in DOMAIN t \cup {None}
         /\ dir \in DOMAIN t => Nearest(t, dir) = dir
<1>. DEFINE above == {d \in DOMAIN t : IsAbove(d, dir)}
<1>1. above \subseteq DOMAIN t /\ above \subseteq Directory /\ \A d \in above : Len(d) <= Len(dir)
  BY DEF IsAbove
<1>2. above # {} =>
        Deepest(above) \in above /\ \A e \in above : Len(e) <= Len(Deepest(above))
  <2>. HIDE DEF above
  <2>. QED BY <1>1, DeepestIsOne
<1>3. Nearest(t, dir) = IF above = {} THEN None ELSE Deepest(above)
  BY DEF Nearest
<1>4. ASSUME dir \in DOMAIN t PROVE Nearest(t, dir) = dir
  <2>1. dir \in Seq(STRING) /\ \A d \in above : d \in Seq(STRING)
    BY <1>1, LockAssumption
  <2>2. SubSeq(dir, 1, Len(dir)) = dir
    BY <2>1
  <2>3. dir \in above
    BY <1>4, <2>1, <2>2 DEF IsAbove
  <2>. DEFINE top == Deepest(above)
  <2>4. top \in above /\ Len(dir) <= Len(top)
    BY <1>2, <2>3
  <2>5. Len(top) <= Len(dir) /\ SubSeq(dir, 1, Len(top)) = top
    BY <2>4 DEF IsAbove
  <2>6. Len(top) = Len(dir)
    <3>1. Len(top) \in Nat /\ Len(dir) \in Nat
      BY <2>1, <2>4
    <3>. QED BY <2>4, <2>5, <3>1
  <2>7. top = dir
    BY <2>2, <2>5, <2>6
  <2>. QED BY <1>3, <2>3, <2>7
<1>. QED BY <1>1, <1>2, <1>3, <1>4

MembersOf(t, root, listed) ==
  [n \in {t[p[2]].package : p \in listed} |->
     LET d == (CHOOSE p \in listed : t[p[2]].package = n)[2]
     IN [dir |-> d, needs |-> Inherit(t[root].offers, t[d].dependencies)]]

(* What load_workspace has seen to when it does not refuse. *)
Joins(t, root, current, listed) ==
  /\ \A p \in listed : IsMember(t, t[root].offers, p[2])
  /\ \A p, q \in listed : t[p[2]].package = t[q[2]].package => p = q
  /\ current = <<>> \/ \E p \in listed : t[p[2]].package = current

(* load_workspace answers with the members that are listed, or refuses. *)
LEMMA JoinedIs ==
  ASSUME NEW t, NEW root, root # Failed, NEW current, NEW listed
  PROVE  /\ IsLoaded(Joined(t, root, current, listed)) <=> Joins(t, root, current, listed)
         /\ Joins(t, root, current, listed) =>
              Joined(t, root, current, listed) =
                [root |-> root, current |-> current, members |-> MembersOf(t, root, listed)]
<1>1. CASE Joins(t, root, current, listed)
  <2>1. Joined(t, root, current, listed) =
          [root |-> root, current |-> current, members |-> MembersOf(t, root, listed)]
    BY <1>1 DEF Joins, Joined, MembersOf
  <2>. QED BY <1>1, <2>1 DEF IsLoaded
<1>2. CASE ~Joins(t, root, current, listed)
  <2>1. Joined(t, root, current, listed) = NotLoaded
    BY <1>2 DEF Joins, Joined
  <2>. QED BY <1>2, <2>1 DEF IsLoaded, NotLoaded
<1>. QED BY <1>1, <1>2

(* What is loaded. *)
LEMMA LoadIs ==
  ASSUME NEW t, DOMAIN t \subseteq Directory, NEW dir \in Directory, IsLoaded(Load(t, dir))
  PROVE  LET root    == RootOf(t, Nearest(t, dir))
             current == t[Nearest(t, dir)].package
         IN /\ root \in DOMAIN t /\ root # Failed
            /\ Joins(t, root, current, Listed(t, root))
            /\ Load(t, dir) = [root |-> root, current |-> current,
                               members |-> MembersOf(t, root, Listed(t, root))]
<1>. DEFINE start == Nearest(t, dir)
<1>. DEFINE root == RootOf(t, start)
<1>1. start \in DOMAIN t \cup {None}
  BY NearestIsThere
<1>2. root \in DOMAIN t \cup {Failed}
  BY <1>1, RootIsThere
<1>3. Load(t, dir) = LoadFrom(t, start, root)
  BY DEF Load, LoadAt
<1>4. root # Failed /\ root \in DOMAIN t
  BY <1>2, <1>3 DEF LoadFrom, IsLoaded, NotLoaded
<1>5. Load(t, dir) = Joined(t, root, t[start].package, Listed(t, root))
  BY <1>3, <1>4 DEF LoadFrom
<1>. QED BY <1>4, <1>5, JoinedIs

(* What is listed is at a manifest. *)
LEMMA ListedIsThere ==
  ASSUME NEW t, NEW root \in DOMAIN t, NEW p \in Listed(t, root), p[2] # None
  PROVE  p[2] \in DOMAIN t
<1>1. \/ p = <<0, root>>
      \/ \E i \in DOMAIN t[root].members : p \in {i} \X Expanded(t, root, t[root].members[i])
  BY DEF Listed
<1>2. CASE p = <<0, root>>
  BY <1>2
<1>3. ASSUME NEW i \in DOMAIN t[root].members,
             p \in {i} \X Expanded(t, root, t[root].members[i])
      PROVE  p[2] \in DOMAIN t
  <2>1. p[2] \in Expanded(t, root, t[root].members[i])
    BY <1>3
  <2>. QED BY <2>1 DEF Expanded
<1>. QED BY <1>1, <1>2, <1>3

(* And so is all of a workspace. *)
LEMMA LoadedIsThere ==
  ASSUME NEW t, DOMAIN t \subseteq Directory, NEW dir \in Directory, IsLoaded(Load(t, dir))
  PROVE  /\ Load(t, dir).root \in DOMAIN t
         /\ \A n \in DOMAIN Load(t, dir).members : Load(t, dir).members[n].dir \in DOMAIN t
         /\ SelectOne(Load(t, dir)) \in DOMAIN t \cup {None}
<1>. DEFINE w == Load(t, dir)
<1>. DEFINE root == RootOf(t, Nearest(t, dir))
<1>. DEFINE current == t[Nearest(t, dir)].package
<1>. DEFINE listed == Listed(t, root)
<1>1. /\ root \in DOMAIN t /\ Joins(t, root, current, listed)
      /\ w = [root |-> root, current |-> current, members |-> MembersOf(t, root, listed)]
  BY LoadIs
<1>2. \A p \in listed : p[2] \in DOMAIN t
  <2>1. \A p \in listed : p[2] # None
    BY <1>1 DEF Joins, IsMember
  <2>. QED BY <1>1, <2>1, ListedIsThere
<1>. HIDE DEF w, root, current, listed
<1>3. DOMAIN w.members = {t[p[2]].package : p \in listed}
  BY <1>1 DEF MembersOf
<1>4. ASSUME NEW n \in DOMAIN w.members PROVE w.members[n].dir \in DOMAIN t
  <2>1. PICK p \in listed : t[p[2]].package = n
    BY <1>3, <1>4
  <2>2. (CHOOSE q \in listed : t[q[2]].package = n) \in listed
    BY <2>1
  <2>3. w.members[n].dir = (CHOOSE q \in listed : t[q[2]].package = n)[2]
    BY <1>1, <1>3, <1>4 DEF MembersOf
  <2>. QED BY <1>2, <2>2, <2>3
<1>5. SelectOne(w) \in DOMAIN t \cup {None}
  <2>1. CASE w.current # <<>>
    <3>1. w.current \in DOMAIN w.members
      BY <1>1, <1>3, <2>1 DEF Joins
    <3>. QED BY <1>4, <2>1, <3>1 DEF SelectOne
  <2>2. CASE w.current = <<>> /\ Cardinality(DOMAIN w.members) = 1
    <3>1. DOMAIN w.members # {}
      <4>1. SUFFICES ASSUME DOMAIN w.members = {} PROVE FALSE
        OBVIOUS
      <4>2. Cardinality(DOMAIN w.members) = Cardinality({})
        BY <4>1, Zenon
      <4>. QED BY <2>2, <4>2, FS_EmptySet
    <3>2. (CHOOSE n \in DOMAIN w.members : TRUE) \in DOMAIN w.members
      BY <3>1
    <3>. QED BY <1>4, <2>2, <3>2 DEF SelectOne
  <2>3. CASE w.current = <<>> /\ Cardinality(DOMAIN w.members) # 1
    BY <2>3 DEF SelectOne
  <2>. QED BY <2>1, <2>2, <2>3
<1>. QED BY <1>1, <1>4, <1>5 DEF w

(* A member at home loads the workspace it is a member of. *)
LEMMA HomeLoads ==
  ASSUME NEW t, DOMAIN t \subseteq Directory, NEW dir \in Directory, IsLoaded(Load(t, dir)),
         NEW n \in DOMAIN Load(t, dir).members,
         RootOf(t, Load(t, dir).members[n].dir) = Load(t, dir).root
  PROVE  LET home == Load(t, Load(t, dir).members[n].dir)
         IN /\ IsLoaded(home) /\ home.root = Load(t, dir).root
            /\ NeedsOf(home) = NeedsOf(Load(t, dir))
<1>. DEFINE w == Load(t, dir)
<1>. DEFINE m == w.members[n].dir
<1>. DEFINE root == RootOf(t, Nearest(t, dir))
<1>. DEFINE current == t[Nearest(t, dir)].package
<1>. DEFINE listed == Listed(t, root)
<1>1. /\ root \in DOMAIN t /\ root # Failed /\ Joins(t, root, current, listed)
      /\ w = [root |-> root, current |-> current, members |-> MembersOf(t, root, listed)]
  BY LoadIs
<1>2. w.root = root /\ w.members = MembersOf(t, root, listed)
  BY <1>1
<1>3. m \in DOMAIN t /\ m \in Directory
  BY LoadedIsThere
<1>4. Load(t, m) = Joined(t, root, t[m].package, listed)
  <2>1. Nearest(t, m) = m /\ RootOf(t, m) = root
    BY <1>2, <1>3, NearestIsThere
  <2>. QED BY <1>1, <2>1 DEF Load, LoadAt, LoadFrom
<1>5. n \in {t[p[2]].package : p \in listed}
  BY <1>2 DEF MembersOf
<1>6. PICK p \in listed : t[p[2]].package = n
  BY <1>5
<1>7. (CHOOSE q \in listed : t[q[2]].package = n) = p
  BY <1>1, <1>6 DEF Joins
<1>8. m = MembersOf(t, root, listed)[n].dir
  BY <1>2
<1>. HIDE DEF w, root, current, listed, m
<1>9. m = p[2]
  BY <1>5, <1>7, <1>8 DEF MembersOf
<1>10. Joins(t, root, t[m].package, listed)
  BY <1>1, <1>9 DEF Joins
<1>11. /\ IsLoaded(Load(t, m))
       /\ Load(t, m) = [root |-> root, current |-> t[m].package, members |-> MembersOf(t, root, listed)]
  BY <1>1, <1>4, <1>10, JoinedIs
<1>12. Load(t, m).root = w.root /\ Load(t, m).members = w.members
  BY <1>2, <1>11
<1>13. NeedsOf(Load(t, m)) = NeedsOf(w)
  BY <1>12 DEF NeedsOf
<1>. QED BY <1>11, <1>12, <1>13 DEF w, m

-----------------------------------------------------------------------------
(* What a step of one command does *)

(* A command that has not begun reads and writes no lock. *)
LEMMA IdleIsOK == RunOK(Idle) /\ ~Resolves(Idle) /\ ~Writes(Idle) /\ Idle.step = "idle"
BY DEF RunOK, Idle, Resolves, Writes

(* The others' locals stay. *)
LEMMA OneRuns ==
  ASSUME LockTypeOK, NEW s \in Session, NEW r, RunOK(r), run' = [run EXCEPT ![s] = r]
  PROVE  /\ run' = [t \in Session |-> run'[t]] /\ \A t \in Session : RunOK(run'[t])
         /\ run'[s] = r /\ \A t \in Session \ {s} : run'[t] = run[t]
<1>1. run = [t \in Session |-> run[t]] /\ \A t \in Session : RunOK(run[t])
  BY DEF LockTypeOK
<1>. QED BY <1>1

(* The command that runs is the one alone, unless nothing is in peace. *)
LEMMA WhoRuns ==
  ASSUME OneAtATime, NEW s \in Session, run[s].step # "idle"
  PROVE  /\ alone # None => alone = s
         /\ (\E d \in Directory : agreed[d].peace) => alone = s
<1>1. run[s] # Idle
  BY IdleIsOK
<1>. QED BY <1>1 DEF OneAtATime

(* What a command that resolves has read is the lock that is there. *)
ReadsLock(r) == r.step = "resolve" => r.existing = Readable(lock[r.root])

(* A command goes on, and neither begins nor ends to write. *)
LEMMA GoesOn ==
  ASSUME LockInv, NEW s \in Session, NEW r, RunOK(r), run' = [run EXCEPT ![s] = r],
         run[s].step # "idle", ~Writes(run[s]), ~Writes(r), ReadsLock(r),
         UNCHANGED <<lock, agreed, alone>>
  PROVE  PeaceInv'
<1>1. /\ run'[s] = r /\ \A t \in Session \ {s} : run'[t] = run[t]
  BY OneRuns DEF LockInv
<1>2. /\ alone # None => alone = s
      /\ (\E d \in Directory : agreed[d].peace) => alone = s
  BY WhoRuns DEF LockInv, PeaceInv
<1>3. OneAtATime'
  BY <1>1, <1>2, LockAssumption DEF LockInv, PeaceInv, OneAtATime
<1>4. AloneOK'
  BY <1>1, <1>2 DEF AloneOK, ReadsLock, Readable, Writes
<1>5. PeaceKept'
  BY <1>2 DEF LockInv, PeaceInv, PeaceKept
<1>6. AnswersStand'
  BY DEF LockInv, PeaceInv, AnswersStand
<1>. QED BY <1>3, <1>4, <1>5, <1>6 DEF PeaceInv

(* A command starts. *)
LEMMA Begins ==
  ASSUME LockInv, NEW s \in Session, NEW r, RunOK(r), run' = [run EXCEPT ![s] = r],
         run[s] = Idle, ~Writes(r), ReadsLock(r), Starts(s), UNCHANGED lock
  PROVE  PeaceInv' /\ agreed' \in [Directory -> Answers] /\ alone' \in Session \cup {None}
<1>1. /\ run'[s] = r /\ \A t \in Session \ {s} : run'[t] = run[t]
  BY OneRuns DEF LockInv
<1>2. CASE \A t \in Session : run[t] = Idle
  <2>1. alone' = s /\ agreed' = agreed
    BY <1>2 DEF Starts
  <2>2. OneAtATime'
    BY <1>1, <1>2, <2>1, LockAssumption DEF OneAtATime
  <2>3. AloneOK'
    BY <1>1, <2>1 DEF AloneOK, ReadsLock, Readable, Writes
  <2>4. PeaceKept'
    <3>1. alone # None => ~Writes(run[alone])
      BY <1>2, IdleIsOK DEF LockInv, LockTypeOK
    <3>. QED BY <2>1, <3>1 DEF LockInv, PeaceInv, PeaceKept
  <2>5. AnswersStand'
    BY <2>1 DEF LockInv, PeaceInv, AnswersStand
  <2>. QED BY <2>1, <2>2, <2>3, <2>4, <2>5 DEF PeaceInv, LockInv, LockTypeOK
<1>3. CASE ~ \A t \in Session : run[t] = Idle
  <2>1. alone' = None /\ agreed' = [d \in Directory |-> [agreed[d] EXCEPT !.peace = FALSE]]
    BY <1>3 DEF Starts
  <2>2. \A d \in Directory :
          /\ agreed'[d] \in Answers /\ agreed'[d].peace = FALSE
          /\ agreed'[d].needs = agreed[d].needs /\ agreed'[d].lock = agreed[d].lock
    BY <2>1 DEF LockInv, LockTypeOK, Answers
  <2>3. OneAtATime' /\ AloneOK' /\ PeaceKept'
    BY <2>1, <2>2 DEF OneAtATime, AloneOK, PeaceKept
  <2>4. AnswersStand'
    BY <2>2 DEF LockInv, PeaceInv, AnswersStand, IsAnswer
  <2>. QED BY <2>1, <2>2, <2>3, <2>4 DEF PeaceInv
<1>. QED BY <1>2, <1>3

(* One command's step leaves the state what it should look like. *)
LEMMA TypesStay ==
  ASSUME LockTypeOK, NEW s \in Session, NEW r, RunOK(r), run' = [run EXCEPT ![s] = r],
         UNCHANGED <<life, registry>>, DOMAIN file' \subseteq Directory, DOMAIN tree' \subseteq Directory,
         lock' \in [Directory -> Lock \cup {None, Torn}],
         agreed' \in [Directory -> Answers], alone' \in Session \cup {None}
  PROVE  LockTypeOK'
<1>1. run' = [t \in Session |-> run'[t]] /\ \A t \in Session : RunOK(run'[t])
  BY OneRuns
<1>. QED BY <1>1 DEF LockTypeOK

(* Manifests are written where there may be one. *)
LEMMA PutStays ==
  ASSUME LockTypeOK, NEW dir \in Directory, NEW text, Put(dir, text)
  PROVE  DOMAIN file' \subseteq Directory /\ DOMAIN tree' \subseteq Directory
BY DEF LockTypeOK, Put

(* Reading the lock, or being refused. *)
LEMMA ReadLockStep ==
  ASSUME LockTypeOK, NEW s \in Session, NEW w, NEW mode \in Modes,
         IsLoaded(w) => w.root \in Directory /\ NeedsOf(w) \in Manifest,
         ReadLock(s, w, mode)
  PROVE  \E r : /\ run' = [run EXCEPT ![s] = r] /\ RunOK(r)
                /\ ~Writes(r) /\ ReadsLock(r)
<1>1. CASE ~IsLoaded(w)
  <2>1. run' = [run EXCEPT ![s] = Idle]
    BY <1>1 DEF ReadLock, End
  <2>. QED BY <2>1, IdleIsOK DEF ReadsLock, Resolves
<1>2. CASE IsLoaded(w)
  <2>. DEFINE existing == IF lock[w.root] = Torn THEN None ELSE lock[w.root]
  <2>. DEFINE r == [Idle EXCEPT !.step = "resolve", !.mode = mode,
                      !.root = w.root, !.needs = NeedsOf(w), !.existing = existing]
  <2>1. run' = [run EXCEPT ![s] = Idle] \/ run' = [run EXCEPT ![s] = r]
    BY <1>2 DEF ReadLock, End
  <2>2. CASE run' = [run EXCEPT ![s] = Idle]
    BY <2>2, IdleIsOK DEF ReadsLock, Resolves
  <2>3. CASE run' = [run EXCEPT ![s] = r]
    <3>1. existing \in Lock \cup {None} /\ existing = Readable(lock[w.root])
      BY <1>2 DEF LockTypeOK, Readable
    <3>. HIDE DEF existing
    <3>2. /\ r = [f \in DOMAIN Idle |-> r[f]]
          /\ r.step = "resolve" /\ r.mode = mode /\ r.root = w.root /\ r.needs = NeedsOf(w)
          /\ r.existing = existing /\ r.then = None
      BY DEF Idle
    <3>. HIDE DEF r
    <3>3. RunOK(r) /\ ~Writes(r) /\ ReadsLock(r)
      BY <1>2, <3>1, <3>2 DEF RunOK, Resolves, Writes, ReadsLock
    <3>. QED BY <2>3, <3>3
  <2>. QED BY <2>1, <2>2, <2>3
<1>. QED BY <1>1, <1>2

(* What a command loads is in the directories there are, and needs what Manifest
   covers. *)
LEMMA LoadsCovered ==
  ASSUME LockTypeOK, NeedsCovered, NEW dir \in Directory
  PROVE  IsLoaded(Load(tree, dir)) =>
           Load(tree, dir).root \in Directory /\ NeedsOf(Load(tree, dir)) \in Manifest
<1>. SUFFICES ASSUME IsLoaded(Load(tree, dir))
              PROVE  Load(tree, dir).root \in Directory /\ NeedsOf(Load(tree, dir)) \in Manifest
  OBVIOUS
<1>1. DOMAIN tree \subseteq Directory
  BY DEF LockTypeOK
<1>2. Load(tree, dir).root \in DOMAIN tree
  BY <1>1, LoadedIsThere
<1>. QED BY <1>1, <1>2 DEF NeedsCovered

-----------------------------------------------------------------------------
(* The steps *)

(* An edit by hand and a move of the registry touch neither locks nor commands. *)
LEMMA WorldKeeps ==
  ASSUME LockInv, EditManifest \/ RegistryMoves
  PROVE  LockInv'
<1>1. UNCHANGED <<life, lock, run, agreed, alone>>
  BY DEF EditManifest, RegistryMoves
<1>2. registry' \in Registry
  <2>1. CASE EditManifest
    BY <2>1 DEF EditManifest, LockInv, LockTypeOK
  <2>2. CASE RegistryMoves
    BY <2>2 DEF RegistryMoves
  <2>. QED BY <2>1, <2>2
<1>3. DOMAIN file' \subseteq Directory /\ DOMAIN tree' \subseteq Directory
  <2>1. CASE EditManifest
    <3>1. PICK edit \in Lives[life].edits : edit.dir \in DOMAIN file /\ Put(edit.dir, edit.text)
      BY <2>1 DEF EditManifest
    <3>2. edit.dir \in Directory
      BY <3>1 DEF LockInv, LockTypeOK
    <3>. QED BY <3>1, <3>2, PutStays DEF LockInv
  <2>2. CASE RegistryMoves
    BY <2>2 DEF RegistryMoves, LockInv, LockTypeOK
  <2>. QED BY <2>1, <2>2
<1>4. LockTypeOK'
  BY <1>1, <1>2, <1>3 DEF LockInv, LockTypeOK
<1>5. PeaceInv'
  BY <1>1 DEF LockInv, PeaceInv, OneAtATime, AloneOK, PeaceKept, AnswersStand
<1>. QED BY <1>4, <1>5 DEF LockInv

(* A command begins: to edit a manifest, with a package, or to compile. *)
LEMMA EditDependencyKeeps ==
  ASSUME LockInv, NEW s \in Session, EditDependency(s)
  PROVE  LockInv'
<1>1. /\ run[s] = Idle /\ Starts(s) /\ UNCHANGED <<life, registry, file, tree, lock>>
  BY DEF EditDependency, MayStart
<1>2. LockTypeOK /\ DOMAIN tree \subseteq Directory
  BY DEF LockInv, LockTypeOK
<1>3. PICK dir \in Lives[life].runs, change \in Lives[life].changes :
        Edit(s, dir, Load(tree, dir), change.name, change.entry)
  BY DEF EditDependency
<1>4. dir \in Directory
  BY <1>2, LockAssumption DEF LockTypeOK, Range
<1>5. PICK at \in {SelectOne(Load(tree, dir))} \ {None} :
        StartsEdit(s, dir, at, WithDependency(file[at], change.name, change.entry),
                   Changed(tree[at], change.name, change.entry))
  BY <1>3 DEF Edit
<1>6. at \in Directory
  BY <1>2, <1>3, <1>4, <1>5, LoadedIsThere DEF Edit
<1>. DEFINE text == WithDependency(file[at], change.name, change.entry)
<1>. DEFINE r == [Idle EXCEPT !.step = "edit", !.at = at, !.text = text, !.then = dir]
<1>7. run' = [run EXCEPT ![s] = r]
  BY <1>5 DEF StartsEdit
<1>. HIDE DEF text
<1>8. r = [f \in DOMAIN Idle |-> r[f]] /\ r.step = "edit" /\ r.at = at /\ r.then = dir
  BY DEF Idle
<1>. HIDE DEF r
<1>9. RunOK(r) /\ ~Writes(r) /\ ReadsLock(r)
  BY <1>4, <1>6, <1>8 DEF RunOK, Resolves, Writes, ReadsLock
<1>10. PeaceInv' /\ agreed' \in [Directory -> Answers] /\ alone' \in Session \cup {None}
  BY <1>1, <1>7, <1>9, Begins
<1>11. LockTypeOK'
  BY <1>1, <1>2, <1>7, <1>9, <1>10, TypesStay DEF LockTypeOK
<1>. QED BY <1>10, <1>11 DEF LockInv

(* `new` begins with the manifest of its package. *)
LEMMA NewPackageKeeps ==
  ASSUME LockInv, NEW s \in Session, NewPackage(s)
  PROVE  LockInv'
<1>1. /\ run[s] = Idle /\ Starts(s) /\ UNCHANGED <<life, registry, lock>>
  BY DEF NewPackage, MayStart
<1>2. LockTypeOK
  BY DEF LockInv
<1>. DEFINE r(dir) == [Idle EXCEPT !.step = "enlist", !.then = dir]
<1>3. PICK dir \in Lives[life].news :
        Put(dir, NewText(Last(dir))) /\ run' = [run EXCEPT ![s] = r(dir)]
  BY DEF NewPackage
<1>4. dir \in Directory
  BY <1>2, LockAssumption DEF LockTypeOK, Range
<1>5. /\ r(dir) = [f \in DOMAIN Idle |-> r(dir)[f]]
      /\ r(dir).step = "enlist" /\ r(dir).then = dir
  BY DEF Idle
<1>. HIDE DEF r
<1>6. RunOK(r(dir)) /\ ~Writes(r(dir)) /\ ReadsLock(r(dir))
  BY <1>4, <1>5 DEF RunOK, Resolves, Writes, ReadsLock
<1>7. PeaceInv' /\ agreed' \in [Directory -> Answers] /\ alone' \in Session \cup {None}
  BY <1>1, <1>3, <1>6, Begins
<1>8. DOMAIN file' \subseteq Directory /\ DOMAIN tree' \subseteq Directory
  BY <1>2, <1>3, <1>4, PutStays
<1>9. LockTypeOK'
  BY <1>1, <1>2, <1>3, <1>6, <1>7, <1>8, TypesStay DEF LockTypeOK
<1>. QED BY <1>7, <1>9 DEF LockInv

(* A command that compiles begins by reading the lock of its workspace. *)
LEMMA OpenKeeps ==
  ASSUME LockInv, NeedsCovered, NEW s \in Session, Open(s)
  PROVE  LockInv'
<1>1. /\ run[s] = Idle /\ Starts(s) /\ UNCHANGED <<life, registry, file, tree, lock>>
  BY DEF Open, MayStart
<1>2. LockTypeOK
  BY DEF LockInv
<1>3. PICK dir \in Lives[life].runs, mode \in Modes : ReadLock(s, Load(tree, dir), mode)
  BY DEF Open
<1>4. dir \in Directory
  BY <1>2, LockAssumption DEF LockTypeOK, Range
<1>5. PICK r : run' = [run EXCEPT ![s] = r] /\ RunOK(r) /\ ~Writes(r) /\ ReadsLock(r)
  BY <1>2, <1>3, <1>4, LoadsCovered, ReadLockStep
<1>6. PeaceInv' /\ agreed' \in [Directory -> Answers] /\ alone' \in Session \cup {None}
  BY <1>1, <1>5, Begins
<1>7. LockTypeOK'
  BY <1>1, <1>2, <1>5, <1>6, TypesStay DEF LockTypeOK
<1>. QED BY <1>6, <1>7 DEF LockInv

(* Neither the manifests' writing nor the lock's reading begins or ends to write
   the lock. *)
LEMMA EnlistKeeps ==
  ASSUME LockInv, NEW s \in Session, Enlist(s)
  PROVE  LockInv'
<1>1. /\ run[s].step = "enlist" /\ UNCHANGED <<life, registry, file, tree, lock, agreed, alone>>
  BY DEF Enlist
<1>2. LockTypeOK /\ RunOK(run[s]) /\ DOMAIN tree \subseteq Directory
  BY DEF LockInv, LockTypeOK
<1>. DEFINE found == Enclosing(tree, run[s].then)
<1>. DEFINE r(text) == [Idle EXCEPT !.step = "edit", !.at = found.root, !.text = text]
<1>3. \/ run' = [run EXCEPT ![s] = Idle]
      \/ found.is = "unlisted" /\ \E text : run' = [run EXCEPT ![s] = r(text)]
  BY DEF Enlist, Lengthen, End
<1>4. \E x : /\ run' = [run EXCEPT ![s] = x] /\ RunOK(x) /\ ~Writes(x) /\ ReadsLock(x)
  <2>1. CASE run' = [run EXCEPT ![s] = Idle]
    BY <2>1, IdleIsOK DEF ReadsLock, Resolves
  <2>2. ASSUME found.is = "unlisted", NEW text, run' = [run EXCEPT ![s] = r(text)]
        PROVE  \E x : /\ run' = [run EXCEPT ![s] = x] /\ RunOK(x) /\ ~Writes(x) /\ ReadsLock(x)
    <3>1. run[s].then \in Directory
      BY <1>1, <1>2 DEF RunOK
    <3>2. found.root \in Directory
      BY <1>2, <2>2, <3>1, EnclosingIsThere
    <3>. HIDE DEF found
    <3>3. /\ r(text) = [f \in DOMAIN Idle |-> r(text)[f]]
          /\ r(text).step = "edit" /\ r(text).at = found.root /\ r(text).then = None
      BY DEF Idle
    <3>. HIDE DEF r
    <3>4. RunOK(r(text)) /\ ~Writes(r(text)) /\ ReadsLock(r(text))
      BY <3>2, <3>3 DEF RunOK, Resolves, Writes, ReadsLock
    <3>. QED BY <2>2, <3>4
  <2>. QED BY <1>3, <2>1, <2>2
<1>5. PICK x : /\ run' = [run EXCEPT ![s] = x] /\ RunOK(x) /\ ~Writes(x) /\ ReadsLock(x)
  BY <1>4
<1>6. PeaceInv'
  BY <1>1, <1>5, GoesOn DEF Writes
<1>7. LockTypeOK'
  BY <1>1, <1>2, <1>5, TypesStay DEF LockTypeOK
<1>. QED BY <1>6, <1>7 DEF LockInv

(* A manifest is torn and written while no lock is. *)
LEMMA WritingManifestsKeeps ==
  ASSUME LockInv, NEW s \in Session, StartEdit(s) \/ FinishEdit(s)
  PROVE  LockInv'
<1>1. /\ run[s].step \in {"edit", "editing"} /\ UNCHANGED <<life, registry, lock, agreed, alone>>
  BY DEF StartEdit, FinishEdit
<1>2. LockTypeOK /\ RunOK(run[s]) /\ run[s].at \in Directory
  BY <1>1 DEF LockInv, LockTypeOK, RunOK
<1>3. DOMAIN file' \subseteq Directory /\ DOMAIN tree' \subseteq Directory
  <2>1. \E text : Put(run[s].at, text)
    BY DEF StartEdit, FinishEdit
  <2>. QED BY <1>2, <2>1, PutStays
<1>4. \E x : /\ run' = [run EXCEPT ![s] = x] /\ RunOK(x) /\ ~Writes(x) /\ ReadsLock(x)
  <2>1. CASE StartEdit(s)
    <3>. DEFINE x == [run[s] EXCEPT !.step = "editing"]
    <3>1. run' = [run EXCEPT ![s] = x]
      BY <2>1 DEF StartEdit
    <3>2. /\ x = [f \in DOMAIN Idle |-> x[f]]
          /\ x.step = "editing" /\ x.at = run[s].at /\ x.then = run[s].then
      BY <1>2 DEF RunOK, Idle
    <3>. HIDE DEF x
    <3>3. RunOK(x) /\ ~Writes(x) /\ ReadsLock(x)
      BY <1>2, <3>2 DEF RunOK, Resolves, Writes, ReadsLock
    <3>. QED BY <3>1, <3>3
  <2>2. CASE FinishEdit(s)
    <3>. DEFINE x == [Idle EXCEPT !.step = "open", !.then = run[s].then]
    <3>1. \/ run' = [run EXCEPT ![s] = Idle]
          \/ run[s].then # None /\ run' = [run EXCEPT ![s] = x]
      BY <2>2 DEF FinishEdit, End
    <3>2. CASE run' = [run EXCEPT ![s] = Idle]
      BY <3>2, IdleIsOK DEF ReadsLock, Resolves
    <3>3. CASE run[s].then # None /\ run' = [run EXCEPT ![s] = x]
      <4>1. run[s].then \in Directory
        BY <1>2, <3>3 DEF RunOK
      <4>2. /\ x = [f \in DOMAIN Idle |-> x[f]]
            /\ x.step = "open" /\ x.then = run[s].then
        BY DEF Idle
      <4>. HIDE DEF x
      <4>3. RunOK(x) /\ ~Writes(x) /\ ReadsLock(x)
        BY <4>1, <4>2 DEF RunOK, Resolves, Writes, ReadsLock
      <4>. QED BY <3>3, <4>3
    <3>. QED BY <3>1, <3>2, <3>3
  <2>. QED BY <2>1, <2>2
<1>5. PICK x : /\ run' = [run EXCEPT ![s] = x] /\ RunOK(x) /\ ~Writes(x) /\ ReadsLock(x)
  BY <1>4
<1>6. PeaceInv'
  BY <1>1, <1>5, GoesOn DEF Writes
<1>7. LockTypeOK'
  BY <1>1, <1>2, <1>3, <1>5, TypesStay DEF LockTypeOK
<1>. QED BY <1>6, <1>7 DEF LockInv

(* `add` and `remove` read the lock once the manifest is written. *)
LEMMA ReopenKeeps ==
  ASSUME LockInv, NeedsCovered, NEW s \in Session, Reopen(s)
  PROVE  LockInv'
<1>1. /\ run[s].step = "open" /\ UNCHANGED <<life, registry, file, tree, lock, agreed, alone>>
      /\ ReadLock(s, Load(tree, run[s].then), Build)
  BY DEF Reopen
<1>2. LockTypeOK /\ run[s].then \in Directory
  BY <1>1 DEF LockInv, LockTypeOK, RunOK
<1>3. Build \in Modes
  BY DEF Build, Modes
<1>4. PICK r : run' = [run EXCEPT ![s] = r] /\ RunOK(r) /\ ~Writes(r) /\ ReadsLock(r)
  BY <1>1, <1>2, <1>3, LoadsCovered, ReadLockStep
<1>5. PeaceInv'
  BY <1>1, <1>4, GoesOn DEF Writes
<1>6. LockTypeOK'
  BY <1>1, <1>2, <1>4, TypesStay DEF LockTypeOK
<1>. QED BY <1>5, <1>6 DEF LockInv

(* What a command that may write the lock finds. *)
LEMMA FoundIsAnswer ==
  ASSUME LockTypeOK, NEW s \in Session, run[s].step = "resolve",
         run[s].mode.kind # "locked", Found(s) # Failed
  PROVE  IsAnswer(run[s].needs, Found(s))
<1>1. /\ run[s].mode \in Modes /\ run[s].needs \in Manifest /\ run[s].existing \in Lock \cup {None}
      /\ registry \in Registry
  BY DEF LockTypeOK, RunOK, Resolves
<1>2. run[s].mode.drops \in {{}, Name} \cup {{n} : n \in Name}
  BY <1>1 DEF Modes
<1>3. Pins(s) \in PinSets
  <2>1. CASE run[s].existing = None
    BY <2>1 DEF Pins, PinSets
  <2>2. CASE run[s].existing # None
    <3>1. Pins(s) = Drop(run[s].existing, run[s].mode.drops) /\ run[s].existing \in Lock
      BY <1>1, <2>2 DEF Pins
    <3>. QED BY <1>2, <3>1 DEF PinSets
  <2>. QED BY <2>1, <2>2
<1>4. Found(s) = Select(run[s].needs, registry, Pins(s))
  BY DEF Found
<1>5. Found(s) \in Lock
  BY <1>1, <1>3, <1>4, SelectAssumption
<1>. QED BY <1>1, <1>3, <1>4, <1>5 DEF IsAnswer

(* The answer becomes what is agreed, and what the command alone is about to
   write unless it is there already. *)
LEMMA ResolveKeeps ==
  ASSUME LockInv, NEW s \in Session, Resolve(s)
  PROVE  LockInv'
<1>. DEFINE found == Found(s)
<1>. DEFINE root == run[s].root
<1>. DEFINE end == found = Failed \/ found = run[s].existing \/ run[s].mode.kind = "locked"
<1>. DEFINE written == [[run[s] EXCEPT !.step = "write"] EXCEPT !.found = found]
<1>1. /\ run[s].step = "resolve" /\ UNCHANGED <<life, registry, file, tree, lock, alone>>
      /\ agreed' = Agreed(s, found)
  BY DEF Resolve
<1>2. LockTypeOK /\ PeaceInv /\ RunOK(run[s]) /\ root \in Directory /\ run[s].needs \in Manifest
  BY <1>1 DEF LockInv, LockTypeOK, RunOK, Resolves
<1>3. /\ alone # None => alone = s
      /\ (\E d \in Directory : agreed[d].peace) => alone = s
  BY <1>1, <1>2, WhoRuns DEF PeaceInv
<1>4. end => run' = [run EXCEPT ![s] = Idle]
  BY DEF Resolve, End
<1>5. ~end => run' = [run EXCEPT ![s] = written]
  <2>1. ~end => run' = [run EXCEPT ![s].step = "write", ![s].found = found]
    BY DEF Resolve
  <2>2. [run EXCEPT ![s].step = "write", ![s].found = found] = [run EXCEPT ![s] = written]
    <3>. HIDE DEF found
    <3>. QED BY <1>2 DEF LockTypeOK
  <2>. QED BY <2>1, <2>2
<1>6. CASE found = Failed \/ run[s].mode.kind = "locked"
  <2>1. end /\ agreed' = agreed
    BY <1>1, <1>6 DEF Agreed
  <2>2. run' = [run EXCEPT ![s] = Idle]
    BY <1>4, <2>1
  <2>3. RunOK(Idle) /\ ~Writes(Idle) /\ ReadsLock(Idle)
    BY IdleIsOK DEF ReadsLock
  <2>4. PeaceInv'
    BY <1>1, <2>1, <2>2, <2>3, GoesOn DEF Writes
  <2>5. LockTypeOK'
    BY <1>1, <1>2, <2>1, <2>2, <2>3, TypesStay DEF LockTypeOK
  <2>. QED BY <2>4, <2>5 DEF LockInv
<1>7. CASE found # Failed /\ run[s].mode.kind # "locked"
  <2>1. IsAnswer(run[s].needs, found) /\ found \in Lock
    BY <1>1, <1>2, <1>7, FoundIsAnswer DEF IsAnswer
  <2>2. agreed' = [agreed EXCEPT ![root] =
                     [needs |-> run[s].needs, lock |-> found, peace |-> alone = s]]
    BY <1>1, <1>7 DEF Agreed
  <2>3. /\ agreed' \in [Directory -> Answers]
        /\ agreed'[root].needs = run[s].needs /\ agreed'[root].lock = found
        /\ agreed'[root].peace = (alone = s)
        /\ \A d \in Directory \ {root} : agreed'[d] = agreed[d]
    <3>. HIDE DEF found
    <3>. QED BY <1>2, <2>1, <2>2 DEF LockTypeOK, Answers
  <2>4. AnswersStand'
    BY <1>2, <2>1, <2>3, LockAssumption DEF PeaceInv, AnswersStand, IsAnswer
  <2>5. (\E d \in Directory : agreed'[d].peace) => alone = s
    BY <1>3, <2>3
  <2>6. alone = s => run[s].existing = Readable(lock[root])
    BY <1>1, <1>2, LockAssumption DEF PeaceInv, AloneOK
  <2>7. \A d \in Directory \ {root} : agreed[d].peace => lock[d] = agreed[d].lock
    BY <1>1, <1>2, <1>3 DEF PeaceInv, PeaceKept, Writes
  <2>8. \E x : /\ run' = [run EXCEPT ![s] = x] /\ RunOK(x) /\ (Writes(x) \/ x = Idle)
               /\ Writes(x) => x.step = "write" /\ x.root = root
                                 /\ x.existing = run[s].existing /\ x.found = found
               /\ x = Idle => found = run[s].existing
    <3>1. CASE end
      BY <1>4, <1>7, <3>1, IdleIsOK
    <3>2. CASE ~end
      <4>. HIDE DEF found
      <4>1. /\ written = [f \in DOMAIN Idle |-> written[f]]
            /\ written.step = "write" /\ written.root = root /\ written.mode = run[s].mode
            /\ written.needs = run[s].needs /\ written.existing = run[s].existing
            /\ written.found = found /\ written.then = run[s].then
        BY <1>2 DEF RunOK, Idle
      <4>. HIDE DEF written
      <4>2. RunOK(written) /\ Writes(written)
        BY <1>1, <1>2, <2>1, <4>1 DEF RunOK, Resolves, Writes
      <4>3. written # Idle
        BY <4>2, IdleIsOK
      <4>. QED BY <1>5, <3>2, <4>1, <4>2, <4>3
    <3>. QED BY <3>1, <3>2
  <2>9. PICK x : /\ run' = [run EXCEPT ![s] = x] /\ RunOK(x) /\ (Writes(x) \/ x = Idle)
                 /\ Writes(x) => x.step = "write" /\ x.root = root
                                   /\ x.existing = run[s].existing /\ x.found = found
                 /\ x = Idle => found = run[s].existing
    BY <2>8
  <2>10. LockTypeOK'
    BY <1>1, <1>2, <2>3, <2>9, TypesStay DEF LockTypeOK
  <2>. HIDE DEF found, end, written, root
  <2>11. run'[s] = x /\ \A t \in Session \ {s} : run'[t] = run[t]
    BY <1>2, <2>9, OneRuns
  <2>12. OneAtATime'
    <3>1. alone # None => \A t \in Session \ {s} : run[t] = Idle
      BY <1>2, <1>3 DEF PeaceInv, OneAtATime
    <3>. QED BY <1>1, <1>3, <2>5, <2>11, <3>1, LockAssumption DEF OneAtATime
  <2>13. AloneOK'
    <3>1. CASE alone = None
      BY <1>1, <3>1 DEF AloneOK
    <3>2. CASE alone = s
      BY <1>1, <2>3, <2>6, <2>9, <2>11, <3>2, IdleIsOK DEF AloneOK, Readable, Writes
    <3>. QED BY <1>3, <3>1, <3>2
  <2>14. PeaceKept'
    <3>. SUFFICES ASSUME NEW d \in Directory, agreed'[d].peace
                  PROVE  \/ lock'[d] = agreed'[d].lock
                         \/ alone' # None /\ Writes(run'[alone']) /\ run'[alone'].root = d
      BY DEF PeaceKept, Writes
    <3>1. alone = s /\ s # None
      BY <2>5, LockAssumption
    <3>2. CASE d # root
      BY <1>1, <2>3, <2>7, <3>2
    <3>3. CASE d = root /\ Writes(x)
      BY <1>1, <2>9, <2>11, <3>1, <3>3
    <3>4. CASE d = root /\ x = Idle
      <4>1. found = Readable(lock[root]) /\ found # None
        BY <2>1, <2>6, <2>9, <3>1, <3>4, LockAssumption
      <4>2. lock[root] = found
        BY <4>1 DEF Readable
      <4>. QED BY <1>1, <2>3, <3>4, <4>2
    <3>. QED BY <2>9, <3>2, <3>3, <3>4
  <2>. QED BY <2>4, <2>10, <2>12, <2>13, <2>14 DEF LockInv, PeaceInv
<1>. QED BY <1>6, <1>7

(* The lock is torn, and then what the command alone has found. *)
LEMMA StartWriteKeeps ==
  ASSUME LockInv, NEW s \in Session, StartWrite(s)
  PROVE  LockInv'
<1>. DEFINE root == run[s].root
<1>. DEFINE x == [run[s] EXCEPT !.step = "writing"]
<1>1. /\ run[s].step = "write" /\ UNCHANGED <<life, registry, file, tree, agreed, alone>>
      /\ lock' = [lock EXCEPT ![root] = Torn] /\ run' = [run EXCEPT ![s] = x]
  BY DEF StartWrite
<1>2. LockTypeOK /\ PeaceInv /\ RunOK(run[s]) /\ root \in Directory
  BY <1>1 DEF LockInv, LockTypeOK, RunOK, Resolves
<1>3. /\ alone # None => alone = s
      /\ (\E d \in Directory : agreed[d].peace) => alone = s
  BY <1>1, <1>2, WhoRuns DEF PeaceInv
<1>4. /\ x = [f \in DOMAIN Idle |-> x[f]]
      /\ x.step = "writing" /\ x.root = root /\ x.mode = run[s].mode /\ x.needs = run[s].needs
      /\ x.existing = run[s].existing /\ x.found = run[s].found /\ x.then = run[s].then
  BY <1>2 DEF RunOK, Idle
<1>. HIDE DEF x
<1>5. RunOK(x) /\ Writes(x)
  BY <1>1, <1>2, <1>4 DEF RunOK, Resolves, Writes
<1>6. lock' \in [Directory -> Lock \cup {None, Torn}] /\ lock'[root] = Torn
  BY <1>1, <1>2 DEF LockTypeOK
<1>7. LockTypeOK'
  BY <1>1, <1>2, <1>5, <1>6, TypesStay DEF LockTypeOK
<1>8. run'[s] = x /\ \A t \in Session \ {s} : run'[t] = run[t]
  BY <1>1, <1>2, <1>5, OneRuns
<1>9. OneAtATime'
  <2>1. alone # None => \A t \in Session \ {s} : run[t] = Idle
    BY <1>2, <1>3 DEF PeaceInv, OneAtATime
  <2>. QED BY <1>1, <1>3, <1>8, <2>1, LockAssumption DEF OneAtATime
<1>10. AloneOK'
  <2>1. CASE alone = None
    BY <1>1, <2>1 DEF AloneOK
  <2>2. CASE alone = s
    <3>1. s # None
      BY LockAssumption
    <3>2. run[s].found = agreed[root].lock
      BY <1>1, <1>2, <2>2, <3>1 DEF PeaceInv, AloneOK, Writes
    <3>. QED BY <1>1, <1>4, <1>6, <1>8, <2>2, <3>2 DEF AloneOK
  <2>. QED BY <1>3, <2>1, <2>2
<1>11. PeaceKept'
  <2>. SUFFICES ASSUME NEW d \in Directory, agreed'[d].peace
                PROVE  \/ lock'[d] = agreed'[d].lock
                       \/ alone' # None /\ Writes(run'[alone']) /\ run'[alone'].root = d
    BY DEF PeaceKept, Writes
  <2>1. alone = s /\ s # None
    BY <1>1, <1>3, LockAssumption
  <2>2. CASE d = root
    BY <1>1, <1>4, <1>5, <1>8, <2>1, <2>2
  <2>3. CASE d # root
    BY <1>1, <1>2, <2>1, <2>3 DEF PeaceInv, PeaceKept, LockTypeOK
  <2>. QED BY <2>2, <2>3
<1>12. AnswersStand'
  BY <1>1, <1>2 DEF PeaceInv, AnswersStand
<1>. QED BY <1>7, <1>9, <1>10, <1>11, <1>12 DEF LockInv, PeaceInv

(* What a command alone writes over the torn lock is its answer. *)
LEMMA FinishWriteKeeps ==
  ASSUME LockInv, NEW s \in Session, FinishWrite(s)
  PROVE  LockInv'
<1>. DEFINE root == run[s].root
<1>1. /\ run[s].step = "writing" /\ UNCHANGED <<life, registry, file, tree, agreed, alone>>
      /\ run' = [run EXCEPT ![s] = Idle]
  BY DEF FinishWrite, End
<1>2. /\ LockTypeOK /\ PeaceInv /\ root \in Directory /\ run[s].found \in Lock
  BY <1>1 DEF LockInv, LockTypeOK, RunOK, Resolves, Writes
<1>3. /\ alone # None => alone = s
      /\ (\E d \in Directory : agreed[d].peace) => alone = s
  BY <1>1, <1>2, WhoRuns DEF PeaceInv
<1>4. PICK new : /\ lock' = [lock EXCEPT ![root] = new] /\ new \in Lock \cup {Torn}
                 /\ lock[root] = Torn => new = run[s].found
  <2>1. PICK new \in IF lock[root] = Torn THEN {run[s].found}
                     ELSE {run[s].found, Torn} \cup (Spliced(lock[root], run[s].found) \cap Lock) :
          lock' = [lock EXCEPT ![root] = new]
    BY DEF FinishWrite
  <2>2. new \in Lock \cup {Torn} /\ (lock[root] = Torn => new = run[s].found)
    BY <1>2, <2>1
  <2>. QED BY <2>1, <2>2
<1>5. lock' \in [Directory -> Lock \cup {None, Torn}] /\ lock'[root] = new
  BY <1>2, <1>4 DEF LockTypeOK
<1>6. LockTypeOK'
  BY <1>1, <1>2, <1>5, IdleIsOK, TypesStay DEF LockTypeOK
<1>7. run'[s] = Idle /\ \A t \in Session \ {s} : run'[t] = run[t]
  BY <1>1, <1>2, IdleIsOK, OneRuns
<1>8. OneAtATime'
  BY <1>1, <1>2, <1>3, <1>7 DEF PeaceInv, OneAtATime
<1>9. AloneOK'
  BY <1>1, <1>3, <1>7, IdleIsOK DEF AloneOK, Writes, Resolves
<1>10. PeaceKept'
  <2>. SUFFICES ASSUME NEW d \in Directory, agreed'[d].peace
                PROVE  lock'[d] = agreed'[d].lock
    BY DEF PeaceKept
  <2>1. alone = s /\ s # None
    BY <1>1, <1>3, LockAssumption
  <2>2. lock[root] = Torn /\ run[s].found = agreed[root].lock
    BY <1>1, <1>2, <2>1 DEF PeaceInv, AloneOK, Writes
  <2>3. CASE d = root
    BY <1>1, <1>4, <1>5, <2>2, <2>3
  <2>4. CASE d # root
    BY <1>1, <1>2, <1>4, <2>1, <2>4 DEF PeaceInv, PeaceKept, LockTypeOK
  <2>. QED BY <2>3, <2>4
<1>11. AnswersStand'
  BY <1>1, <1>2 DEF PeaceInv, AnswersStand
<1>. QED BY <1>6, <1>8, <1>9, <1>10, <1>11 DEF LockInv, PeaceInv

(* After a kill nothing is in peace. *)
LEMMA KillKeeps ==
  ASSUME LockInv, NEW s \in Session, Kill(s)
  PROVE  LockInv'
<1>1. /\ run[s] # Idle /\ UNCHANGED <<life, registry, file, tree, lock, alone>>
      /\ run' = [run EXCEPT ![s] = Idle]
      /\ agreed' = [d \in Directory |-> [agreed[d] EXCEPT !.peace = FALSE]]
  BY DEF Kill, End
<1>2. LockTypeOK /\ PeaceInv
  BY DEF LockInv
<1>3. \A d \in Directory :
        /\ agreed'[d] \in Answers /\ agreed'[d].peace = FALSE
        /\ agreed'[d].needs = agreed[d].needs /\ agreed'[d].lock = agreed[d].lock
  BY <1>1, <1>2 DEF LockTypeOK, Answers
<1>4. agreed' \in [Directory -> Answers]
  BY <1>1, <1>3
<1>5. LockTypeOK'
  BY <1>1, <1>2, <1>4, IdleIsOK, TypesStay DEF LockTypeOK
<1>6. run'[s] = Idle /\ \A t \in Session \ {s} : run'[t] = run[t]
  BY <1>1, <1>2, IdleIsOK, OneRuns
<1>7. alone # None => alone = s
  BY <1>1, <1>2 DEF PeaceInv, OneAtATime
<1>8. OneAtATime'
  BY <1>1, <1>2, <1>3, <1>6 DEF PeaceInv, OneAtATime
<1>9. AloneOK'
  BY <1>1, <1>6, <1>7, IdleIsOK DEF AloneOK, Writes
<1>10. PeaceKept' /\ AnswersStand'
  BY <1>1, <1>2, <1>3 DEF PeaceInv, PeaceKept, AnswersStand
<1>. QED BY <1>5, <1>8, <1>9, <1>10 DEF LockInv, PeaceInv

-----------------------------------------------------------------------------
(* The invariant *)

(* Before any command there are no locks, and everything is in peace. *)
LEMMA LockInit == Init => LockInv
<1>. SUFFICES ASSUME Init PROVE LockInv
  OBVIOUS
<1>1. /\ life \in DOMAIN Lives /\ file \in Lives[life].trees /\ registry \in Lives[life].registries
      /\ DOMAIN tree = DOMAIN file /\ lock = [d \in Directory |-> None]
      /\ run = [s \in Session |-> Idle] /\ alone = None
      /\ agreed = [d \in Directory |-> [needs |-> None, lock |-> None, peace |-> TRUE]]
  BY DEF Init
<1>2. DOMAIN file \subseteq Directory /\ registry \in Registry
  BY <1>1, LockAssumption DEF Range
<1>3. LockTypeOK
  BY <1>1, <1>2, IdleIsOK DEF LockTypeOK, Answers
<1>4. PeaceInv
  BY <1>1 DEF PeaceInv, OneAtATime, AloneOK, PeaceKept, AnswersStand
<1>. QED BY <1>3, <1>4 DEF LockInv

(* Every step keeps LockInv. *)
LEMMA LockStep == LockInv /\ NeedsCovered /\ [Next]_vars => LockInv'
<1>. SUFFICES ASSUME LockInv, NeedsCovered, [Next]_vars PROVE LockInv'
  OBVIOUS
<1>1. CASE EditManifest \/ RegistryMoves
  BY <1>1, WorldKeeps
<1>2. ASSUME NEW s \in Session,
             \/ EditDependency(s) \/ NewPackage(s) \/ Enlist(s) \/ StartEdit(s) \/ FinishEdit(s)
             \/ Open(s) \/ Reopen(s) \/ Resolve(s) \/ StartWrite(s) \/ FinishWrite(s) \/ Kill(s)
      PROVE  LockInv'
  BY <1>2, EditDependencyKeeps, NewPackageKeeps, EnlistKeeps, WritingManifestsKeeps, OpenKeeps,
     ReopenKeeps, ResolveKeeps, StartWriteKeeps, FinishWriteKeeps, KillKeeps
<1>3. CASE UNCHANGED vars
  BY <1>3 DEF vars, LockInv, LockTypeOK, PeaceInv, OneAtATime, AloneOK, PeaceKept, AnswersStand
<1>. QED BY <1>1, <1>2, <1>3 DEF Next

(* LockInv holds of any project, however its commands overlap and are killed,
   if Manifest has what its workspaces may need. *)
THEOREM LockInvariant == Spec /\ []NeedsCovered => []LockInv
BY LockInit, LockStep, PTL DEF Spec


-----------------------------------------------------------------------------
(* What a build finds again *)

(* Only the command whose step it is goes anywhere. *)
LEMMA OthersStay ==
  ASSUME LockTypeOK, NEW s \in Session, NEW t \in Session, s # t,
         \/ EditDependency(t) \/ NewPackage(t) \/ Enlist(t) \/ StartEdit(t) \/ FinishEdit(t)
         \/ Open(t) \/ Reopen(t) \/ Resolve(t) \/ StartWrite(t) \/ FinishWrite(t) \/ Kill(t)
  PROVE  run'[s] = run[s]
<1>1. \A r : run' = [run EXCEPT ![t] = r] => run'[s] = run[s]
  BY DEF LockTypeOK
<1>2. ASSUME EditDependency(t) \/ NewPackage(t) PROVE run'[s] = run[s]
  BY <1>1, <1>2 DEF EditDependency, Edit, StartsEdit, NewPackage
<1>3. ASSUME Enlist(t) PROVE run'[s] = run[s]
  BY <1>1, <1>3 DEF Enlist, Lengthen, End
<1>4. ASSUME StartEdit(t) \/ StartWrite(t) PROVE run'[s] = run[s]
  BY <1>1, <1>4 DEF StartEdit, StartWrite
<1>5. ASSUME FinishEdit(t) PROVE run'[s] = run[s]
  BY <1>1, <1>5 DEF FinishEdit, End
<1>6. ASSUME NEW w, NEW mode, ReadLock(t, w, mode) PROVE run'[s] = run[s]
  BY <1>1, <1>6 DEF ReadLock, End
<1>7. ASSUME Open(t) \/ Reopen(t) PROVE run'[s] = run[s]
  BY <1>6, <1>7 DEF Open, Reopen
<1>8. ASSUME Resolve(t) PROVE run'[s] = run[s]
  <2>1. \/ run' = [run EXCEPT ![t] = Idle]
        \/ run' = [run EXCEPT ![t].step = "write", ![t].found = Found(t)]
    BY <1>8 DEF Resolve, End
  <2>2. CASE run' = [run EXCEPT ![t].step = "write", ![t].found = Found(t)]
    BY <2>2 DEF LockTypeOK
  <2>. QED BY <1>1, <2>1, <2>2
<1>9. ASSUME FinishWrite(t) \/ Kill(t) PROVE run'[s] = run[s]
  BY <1>1, <1>9 DEF FinishWrite, Kill, End
<1>. QED BY <1>2, <1>3, <1>4, <1>5, <1>7, <1>8, <1>9

(* What is agreed is found again, whatever the registry has become. *)
LEMMA AgreedIsFound ==
  ASSUME LockInv, NEW d \in Directory, agreed[d].needs # None
  PROVE  /\ agreed[d].needs \in Manifest /\ agreed[d].lock \in Lock
         /\ Replay(agreed[d].needs, agreed[d].lock) = agreed[d].lock
         /\ \A r \in Registry : Select(agreed[d].needs, r, agreed[d].lock) = agreed[d].lock
<1>1. IsAnswer(agreed[d].needs, agreed[d].lock)
  BY DEF LockInv, PeaceInv, AnswersStand
<1>2. PICK r \in Registry, pins \in PinSets :
        Select(agreed[d].needs, r, pins) = agreed[d].lock
  BY <1>1 DEF IsAnswer
<1>3. agreed[d].needs \in Manifest /\ agreed[d].lock \in Lock /\ agreed[d].lock # Failed
  BY <1>1, LockAssumption DEF IsAnswer
<1>. QED BY <1>2, <1>3, StableAssumption

(* A build that resolves in peace what was resolved last finds what it has read,
   and that is the last answer. *)
LEMMA BuildFindsItAgain ==
  ASSUME LockInv, NEW s \in Session, run[s].step = "resolve", run[s].mode.kind = "build",
         agreed[run[s].root].peace, run[s].needs = agreed[run[s].root].needs
  PROVE  /\ alone = s /\ Found(s) = run[s].existing /\ Found(s) = agreed[run[s].root].lock
         /\ Found(s) # Failed
<1>. DEFINE root == run[s].root
<1>1. /\ LockTypeOK /\ PeaceInv /\ RunOK(run[s]) /\ root \in Directory /\ run[s].needs \in Manifest
      /\ run[s].mode \in Modes /\ registry \in Registry
  BY DEF LockInv, LockTypeOK, RunOK, Resolves
<1>2. alone = s /\ s # None
  BY <1>1, WhoRuns, LockAssumption DEF PeaceInv
<1>3. agreed[root].needs # None
  BY <1>1, LockAssumption
<1>4. /\ agreed[root].lock \in Lock
      /\ Select(run[s].needs, registry, agreed[root].lock) = agreed[root].lock
  BY <1>1, <1>3, AgreedIsFound
<1>5. lock[root] = agreed[root].lock
  BY <1>1, <1>2 DEF PeaceInv, PeaceKept, Writes
<1>6. run[s].existing = agreed[root].lock
  BY <1>1, <1>2, <1>4, <1>5, LockAssumption DEF PeaceInv, AloneOK, Readable
<1>7. run[s].mode.drops = {}
  BY <1>1 DEF Modes
<1>8. Pins(s) = agreed[root].lock
  <2>1. agreed[root].lock # None
    BY <1>4, LockAssumption
  <2>2. Pins(s) = Drop(agreed[root].lock, {})
    BY <1>6, <1>7, <2>1 DEF Pins
  <2>3. \A l \in Lock : Drop(l, {}) = l
    <3>. SUFFICES ASSUME NEW l \in Lock PROVE Drop(l, {}) = l
      OBVIOUS
    <3>1. Drop(l, {}) = [n \in DOMAIN l |-> l[n]]
      BY DEF Drop
    <3>. QED BY <3>1, LockAssumption
  <2>. QED BY <1>4, <2>2, <2>3
<1>9. Found(s) = Select(run[s].needs, registry, Pins(s))
  BY DEF Found
<1>. QED BY <1>2, <1>4, <1>6, <1>8, <1>9, LockAssumption

(* It ends then, and leaves what is agreed as it was. *)
LEMMA BuildEnds ==
  ASSUME LockInv, NEW s \in Session, Resolve(s), run[s].mode.kind = "build",
         agreed[run[s].root].peace, run[s].needs = agreed[run[s].root].needs
  PROVE  agreed' = agreed /\ run'[s] = Idle
<1>. DEFINE root == run[s].root
<1>1. /\ run[s].step = "resolve" /\ LockTypeOK /\ root \in Directory
      /\ agreed' = Agreed(s, Found(s))
  BY DEF Resolve, LockInv, LockTypeOK, RunOK, Resolves
<1>2. /\ alone = s /\ Found(s) = run[s].existing /\ Found(s) = agreed[root].lock
      /\ Found(s) # Failed
  BY <1>1, BuildFindsItAgain
<1>3. run' = [run EXCEPT ![s] = Idle]
  BY <1>2 DEF Resolve, End
<1>4. agreed' = [agreed EXCEPT ![root] =
                   [needs |-> agreed[root].needs, lock |-> agreed[root].lock, peace |-> TRUE]]
  BY <1>1, <1>2 DEF Agreed
<1>5. agreed[root] = [needs |-> agreed[root].needs, lock |-> agreed[root].lock, peace |-> TRUE]
  <2>1. agreed[root] \in Answers
    BY <1>1 DEF LockTypeOK
  <2>. QED BY <2>1 DEF Answers
<1>6. agreed' = agreed
  BY <1>1, <1>4, <1>5 DEF LockTypeOK
<1>. QED BY <1>1, <1>3, <1>6 DEF LockTypeOK

KillsCounted == kills \in Nat

(* Kills are counted. *)
LEMMA KillsAreCounted == Spec => []KillsCounted
<1>1. Init => KillsCounted
  BY DEF Init, KillsCounted
<1>2. KillsCounted /\ [Next]_vars => KillsCounted'
  <2>. SUFFICES ASSUME kills \in Nat, [Next]_vars PROVE kills' \in Nat
    BY DEF KillsCounted
  <2>1. ASSUME NEW s \in Session,
               \/ EditDependency(s) \/ NewPackage(s) \/ Enlist(s) \/ StartEdit(s) \/ FinishEdit(s)
               \/ Open(s) \/ Reopen(s) \/ Resolve(s) \/ StartWrite(s) \/ FinishWrite(s)
        PROVE  kills' = kills
    <3>1. ASSUME EditDependency(s) \/ NewPackage(s) \/ Enlist(s) PROVE kills' = kills
      BY <3>1 DEF EditDependency, NewPackage, Enlist
    <3>2. ASSUME StartEdit(s) \/ FinishEdit(s) \/ Open(s) \/ Reopen(s) PROVE kills' = kills
      BY <3>2 DEF StartEdit, FinishEdit, Open, Reopen
    <3>3. ASSUME Resolve(s) \/ StartWrite(s) \/ FinishWrite(s) PROVE kills' = kills
      BY <3>3 DEF Resolve, StartWrite, FinishWrite
    <3>. QED BY <2>1, <3>1, <3>2, <3>3
  <2>2. ASSUME EditManifest \/ RegistryMoves PROVE kills' = kills
    BY <2>2 DEF EditManifest, RegistryMoves
  <2>3. ASSUME NEW s \in Session, Kill(s) PROVE kills' = kills + 1
    BY <2>3 DEF Kill
  <2>4. CASE UNCHANGED vars
    BY <2>4 DEF vars
  <2>5. CASE Next
    <3>1. kills' = kills \/ kills' = kills + 1
      BY <2>1, <2>2, <2>3, <2>5, Zenon DEF Next
    <3>. QED BY <3>1
  <2>. QED BY <2>4, <2>5
<1>. QED BY <1>1, <1>2, PTL DEF Spec

(* An undisturbed command leaves its answer for a lock, whatever was killed and
   however commands overlapped before: no lock torn or spliced then outlives it. *)
THEOREM AnswersStandWritten == Spec /\ []NeedsCovered => []AnswersAreWritten
<1>1. LockInv => AnswersAreWritten
  <2>. SUFFICES ASSUME LockInv, NEW d \in Directory, InPeace(d)
                PROVE  lock[d] = agreed[d].lock
    BY DEF AnswersAreWritten
  <2>1. alone # None => ~Writes(run[alone])
    BY IdleIsOK DEF InPeace, LockInv, LockTypeOK
  <2>. QED BY <2>1 DEF InPeace, LockInv, PeaceInv, PeaceKept
<1>. QED BY <1>1, LockInvariant, PTL

(* In peace a build moves nothing that is locked while no manifest is edited,
   whatever is published and yanked meanwhile. *)
THEOREM BuildsMoveNothing == Spec /\ []NeedsCovered => BuildMovesNothing
<1>1. ASSUME LockInv, KillsCounted, [Next]_vars, NEW s \in Session,
             run[s].step = "resolve", run'[s] # run[s], kills' = kills,
             agreed[run[s].root].peace, run[s].mode.kind = "build",
             run[s].needs = agreed[run[s].root].needs
      PROVE  agreed' = agreed /\ run'[s] = Idle
  <2>1. LockTypeOK
    BY <1>1 DEF LockInv
  <2>2. Next /\ run' # run
    BY <1>1 DEF vars
  <2>3. ~(EditManifest \/ RegistryMoves)
    BY <2>2 DEF EditManifest, RegistryMoves
  <2>4. PICK t \in Session :
          \/ EditDependency(t) \/ NewPackage(t) \/ Enlist(t) \/ StartEdit(t) \/ FinishEdit(t)
          \/ Open(t) \/ Reopen(t) \/ Resolve(t) \/ StartWrite(t) \/ FinishWrite(t) \/ Kill(t)
    BY <2>2, <2>3 DEF Next
  <2>5. t = s
    BY <1>1, <2>1, <2>4, OthersStay
  <2>6. run[s] # Idle
    BY <1>1, IdleIsOK
  <2>7. ~Kill(s)
    BY <1>1 DEF Kill, KillsCounted
  <2>8. Resolve(s)
    BY <1>1, <2>4, <2>5, <2>6, <2>7
    DEF EditDependency, NewPackage, Enlist, StartEdit, FinishEdit, Open, Reopen, StartWrite,
        FinishWrite, MayStart
  <2>. QED BY <1>1, <2>8, BuildEnds
<1>2. LockInv /\ KillsCounted /\ [Next]_vars =>
        [\A s \in Session :
           /\ run[s].step = "resolve" /\ run'[s] # run[s] /\ kills' = kills
           /\ agreed[run[s].root].peace
           /\ run[s].mode.kind = "build" /\ run[s].needs = agreed[run[s].root].needs
           => agreed' = agreed /\ run'[s] = Idle]_vars
  BY <1>1
<1>. QED BY <1>2, LockInvariant, KillsAreCounted, PTL DEF Spec, BuildMovesNothing

(* --locked passes wherever the last answer stands: what an undisturbed command
   locked for a workspace passes in each of its members. *)
LEMMA SettledPasses ==
  ASSUME LockInv, NeedsCovered, MembersAreHome, NEW d \in DOMAIN tree
  PROVE  PassesInside(Load(tree, d))
<1>. DEFINE w == Load(tree, d)
<1>. SUFFICES ASSUME IsLoaded(w), IsSettled(w), NEW n \in DOMAIN w.members
              PROVE  Passes(Load(tree, w.members[n].dir))
  BY DEF PassesInside
<1>1. DOMAIN tree \subseteq Directory /\ d \in Directory
  BY DEF LockInv, LockTypeOK
<1>2. w.root \in Directory /\ NeedsOf(w) \in Manifest
  BY <1>1, LoadsCovered DEF LockInv
<1>3. /\ agreed[w.root].peace /\ \A s \in Session : run[s] = Idle
      /\ agreed[w.root].needs = NeedsOf(w)
  BY DEF IsSettled, InPeace
<1>4. /\ agreed[w.root].lock \in Lock
      /\ Replay(NeedsOf(w), agreed[w.root].lock) = agreed[w.root].lock
  BY <1>2, <1>3, AgreedIsFound, LockAssumption
<1>5. lock[w.root] = agreed[w.root].lock
  <2>1. alone # None => ~Writes(run[alone])
    BY <1>3, IdleIsOK DEF LockInv, LockTypeOK
  <2>. QED BY <1>2, <1>3, <2>1 DEF LockInv, PeaceInv, PeaceKept
<1>6. RootOf(tree, w.members[n].dir) = w.root
  BY <1>1 DEF MembersAreHome
<1>7. LET home == Load(tree, w.members[n].dir)
      IN IsLoaded(home) /\ home.root = w.root /\ NeedsOf(home) = NeedsOf(w)
  BY <1>1, <1>6, HomeLoads
<1>. HIDE DEF w
<1>. QED BY <1>4, <1>5, <1>7, LockAssumption DEF Passes

(* So --locked passes after a command that compiled until somebody edits a
   manifest, in every member that is at home. *)
THEOREM LockedPassesAfterwards ==
  Spec /\ []NeedsCovered /\ []MembersAreHome => []LockedPasses
<1>1. LockInv /\ NeedsCovered /\ MembersAreHome => LockedPasses
  BY SettledPasses DEF LockedPasses
<1>. QED BY <1>1, LockInvariant, PTL

=============================================================================
