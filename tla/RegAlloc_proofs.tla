--------------------------- MODULE RegAlloc_proofs ---------------------------
(***************************************************************************)
(* What the allocator and the code around a function promise, for any      *)
(* functions, locals and registers.  Of the scan: no register is shared by  *)
(* two locals that are live at once, and none is withheld while it is free; *)
(* ScanInv is inductive.  Of the function that runs: its caller finds the   *)
(* preserved registers as they were (KeepInv), and what it reads is what    *)
(* was last written (CompiledInv).  Of the data flow: a local is live where *)
(* it is needed, and nowhere else (ExactInv).                               *)
(***************************************************************************)
EXTENDS RegAlloc, FiniteSetTheorems, WellFoundedInduction, TLAPS

USE ScanAssumption

-----------------------------------------------------------------------------
(* The scan: an interval is looked at *)


(* linear_scan begins with nothing active and every register free. *)
LEMMA ScanInitIsSound ==
  ASSUME NEW count \in Nat, NEW live \in SUBSET Local,
         NEW intervals \in [live -> Intervals],
         \A l \in live : intervals[l].start <= intervals[l].end,
         ScanInit(count, intervals)
  PROVE  ScanInv
<1>1. DOMAIN interval = live /\ interval = intervals
  BY DEF ScanInit
<1>2. ScanTypeOK
  BY <1>1 DEF ScanInit, ScanTypeOK, Placed
<1>3. BusyIsHeld /\ WaitingIsAhead
  BY <1>1 DEF ScanInit, BusyIsHeld, WaitingIsAhead, Placed
<1>4. NoSharing /\ SpillsUnderPressure
  BY <1>1 DEF ScanInit, NoSharing, SpillsUnderPressure
<1>. QED BY <1>2, <1>3, <1>4 DEF ScanInv

-----------------------------------------------------------------------------
(* What holds when the interval of l is looked at *)

(* Nothing that still waits starts before l does. *)
LEMMA LeastStarts ==
  ASSUME ScanTypeOK, NEW l \in waiting, \A k \in waiting \ {l} : Before(l, k)
  PROVE  \A k \in waiting : interval[l].start <= interval[k].start
<1>. SUFFICES ASSUME NEW k \in waiting PROVE interval[l].start <= interval[k].start
  OBVIOUS
<1>1. interval[l] \in Intervals /\ interval[k] \in Intervals
  BY DEF ScanTypeOK
<1>2. interval[l].start \in Nat /\ interval[k].start \in Nat
  BY <1>1 DEF Intervals
<1>. QED BY <1>2 DEF Before

(* The registers that are still taken are those still held. *)
LEMMA StillHeld ==
  ASSUME BusyIsHeld, NEW l
  PROVE  StillBusy(l) = {assigned[k] : k \in StillActive(l)}
BY DEF BusyIsHeld, StillBusy, StillActive, Expired

(* A local that holds a register and was placed before is still active, or has
   ended before l starts. *)
LEMMA GoneBefore ==
  ASSUME ScanTypeOK, WaitingIsAhead, NEW l \in waiting,
         NEW k \in Placed, assigned[k] # None, k \notin StillActive(l)
  PROVE  interval[k].end < interval[l].start
BY DEF WaitingIsAhead, StillActive, Expired

(* So a register nobody holds is held by no local that overlaps l. *)
LEMMA FreeIsFree ==
  ASSUME ScanTypeOK, BusyIsHeld, WaitingIsAhead, NEW l \in waiting,
         NEW r, r # None, r \notin {assigned[k] : k \in StillActive(l)},
         NEW k \in DOMAIN interval, assigned[k] = r
  PROVE  interval[k].end < interval[l].start
<1>1. k \in Placed
  BY DEF WaitingIsAhead, Placed
<1>2. k \notin StillActive(l)
  OBVIOUS
<1>. QED BY <1>1, <1>2, GoneBefore

(* With every register taken, more locals are live where l starts than there
   are registers. *)
LEMMA Pressure ==
  ASSUME ScanInv, NEW l \in waiting, Register \subseteq StillBusy(l)
  PROVE  \E k \in DOMAIN interval : Cardinality(LiveAt(interval[k].start)) > registers
<1>. DEFINE p == interval[l].start
<1>. DEFINE still == StillActive(l)
<1>1. interval[l] \in Intervals /\ l \in DOMAIN interval /\ p \in Nat
  BY DEF ScanInv, ScanTypeOK, Intervals
<1>2. IsFiniteSet(LiveAt(p))
  <2>1. LiveAt(p) \in SUBSET Local
    BY DEF ScanInv, ScanTypeOK, LiveAt
  <2>. QED BY <2>1, FS_Subset
<1>3. l \in LiveAt(p)
  BY <1>1 DEF ScanInv, ScanTypeOK, LiveAt, Intervals
<1>4. still \subseteq LiveAt(p) \ {l}
  <2>. SUFFICES ASSUME NEW k \in still PROVE k \in LiveAt(p) \ {l}
    OBVIOUS
  <2>1. k \in Placed /\ k \in active /\ k \in DOMAIN interval /\ k # l
    BY DEF ScanInv, ScanTypeOK, Placed, StillActive
  <2>2. interval[k].start <= p
    BY <2>1 DEF ScanInv, WaitingIsAhead
  <2>3. interval[k] \in Intervals
    BY <2>1 DEF ScanInv, ScanTypeOK
  <2>4. ~(interval[k].end < p)
    BY <2>1 DEF StillActive, Expired
  <2>5. p \in Nat /\ interval[k].end \in Nat
    BY <1>1, <2>3 DEF Intervals
  <2>6. p <= interval[k].end
    BY <2>4, <2>5
  <2>. QED BY <2>1, <2>2, <2>6 DEF LiveAt
<1>5. Register \subseteq {assigned[k] : k \in still}
  BY StillHeld DEF ScanInv
<1>6. PICK holder \in [Register -> still] : \A r \in Register : assigned[holder[r]] = r
  <2>1. \A r \in Register : \E k \in still : assigned[k] = r
    BY <1>5
  <2>. DEFINE h == [r \in Register |-> CHOOSE k \in still : assigned[k] = r]
  <2>2. \A r \in Register : h[r] \in still /\ assigned[h[r]] = r
    BY <2>1
  <2>. QED BY <2>2
<1>7. holder \in Injection(Register, LiveAt(p) \ {l})
  <2>1. holder \in [Register -> LiveAt(p) \ {l}]
    BY <1>4, <1>6
  <2>2. \A r, q \in Register : holder[r] = holder[q] => r = q
    BY <1>6
  <2>. QED BY <2>1, <2>2 DEF Injection, IsInjective
<1>8. Cardinality(Register) = registers
  <2>1. registers \in Nat
    BY DEF ScanInv, ScanTypeOK
  <2>2. Cardinality(0 .. registers - 1) = IF 0 > registers - 1 THEN 0 ELSE registers - 1 - 0 + 1
    BY <2>1, FS_Interval
  <2>. QED BY <2>1, <2>2 DEF Register
<1>9. /\ IsFiniteSet(LiveAt(p) \ {l})
      /\ Cardinality(LiveAt(p) \ {l}) = Cardinality(LiveAt(p)) - 1
  BY <1>2, <1>3, FS_RemoveElement
<1>10. Cardinality(Register) <= Cardinality(LiveAt(p) \ {l})
  BY <1>7, <1>9, FS_Injection
<1>11. Cardinality(LiveAt(p)) \in Nat /\ registers \in Nat
  BY <1>2, FS_CardinalityType DEF ScanInv, ScanTypeOK
<1>12. Cardinality(LiveAt(p)) > registers
  BY <1>8, <1>9, <1>10, <1>11
<1>. QED BY <1>1, <1>12

-----------------------------------------------------------------------------
(* What a step disturbs *)

(* Whatever becomes of l, the locals that wait are ahead of it and of all that
   were placed before. *)
LEMMA StaysAhead ==
  ASSUME ScanTypeOK, WaitingIsAhead, NEW l \in waiting,
         \A k \in waiting \ {l} : Before(l, k),
         waiting' = waiting \ {l}, UNCHANGED <<registers, interval>>,
         active' \subseteq StillActive(l) \cup {l},
         \A k \in Local : assigned'[k] # assigned[k] => k \in active' \/ assigned'[k] = None,
         \A k \in waiting' : assigned'[k] = None,
         \A k \in StillActive(l) \ active' : assigned'[k] = None,
         assigned'[l] # None => l \in active'
  PROVE  WaitingIsAhead'
<1>. SUFFICES ASSUME NEW k \in waiting', NEW j \in Placed'
              PROVE  /\ interval[j].start <= interval[k].start
                     /\ j \notin active' /\ assigned'[j] # None =>
                          interval[j].end < interval[k].start
  BY DEF WaitingIsAhead, Placed
<1>1. k \in waiting /\ interval[l].start <= interval[k].start
  BY LeastStarts
<1>2. j = l \/ j \in Placed
  BY DEF Placed
<1>3. interval[j].start <= interval[k].start
  BY <1>1, <1>2 DEF WaitingIsAhead
<1>4. ASSUME j \notin active', assigned'[j] # None
      PROVE  interval[j].end < interval[k].start
  <2>1. j # l /\ j \in Placed /\ j \in Local
    BY <1>2, <1>4 DEF ScanTypeOK, Placed
  <2>2. assigned[j] # None
    BY <1>4, <2>1
  <2>3. j \notin StillActive(l)
    BY <1>4
  <2>4. interval[j].end < interval[l].start
    BY <2>1, <2>2, <2>3, GoneBefore
  <2>5. /\ interval[j] \in Intervals /\ interval[l] \in Intervals /\ interval[k] \in Intervals
    BY <1>1, <2>1 DEF ScanTypeOK, Placed
  <2>6. /\ interval[j].end \in Nat /\ interval[l].start \in Nat /\ interval[k].start \in Nat
    BY <2>5 DEF Intervals
  <2>. QED BY <1>1, <2>4, <2>6
<1>. QED BY <1>3, <1>4

(* A register given to l that is free, or was given up for it, is shared with
   nobody. *)
LEMMA StaysUnshared ==
  ASSUME ScanInv, NEW l \in waiting, UNCHANGED <<registers, interval>>,
         assigned'[l] # None =>
           \A k \in DOMAIN interval \ {l} :
             assigned'[k] = assigned'[l] => interval[k].end < interval[l].start,
         \A k \in DOMAIN interval \ {l} : assigned'[k] = assigned[k] \/ assigned'[k] = None
  PROVE  NoSharing'
<1>. SUFFICES ASSUME NEW j \in DOMAIN interval, NEW k \in DOMAIN interval,
                     j # k, assigned'[j] # None, assigned'[j] = assigned'[k]
              PROVE  ~Overlap(j, k)
  BY DEF NoSharing, Overlap
<1>1. \A i \in DOMAIN interval : interval[i].start \in Nat /\ interval[i].end \in Nat
  BY DEF ScanInv, ScanTypeOK, Intervals
<1>2. CASE j = l
  <2>1. interval[k].end < interval[l].start
    BY <1>2
  <2>. QED BY <1>1, <1>2, <2>1 DEF Overlap
<1>3. CASE k = l
  <2>1. interval[j].end < interval[l].start
    BY <1>3
  <2>. QED BY <1>1, <1>3, <2>1 DEF Overlap
<1>4. CASE j # l /\ k # l
  BY <1>4 DEF ScanInv, NoSharing
<1>. QED BY <1>2, <1>3, <1>4

(* The locals in the frame were put there under pressure. *)
LEMMA StaysPressed ==
  ASSUME ScanInv, NEW l \in waiting, UNCHANGED <<registers, interval>>,
         waiting' = waiting \ {l},
         \A k \in Placed \cup {l} :
           assigned'[k] = None => (k # l /\ assigned[k] = None) \/ Register \subseteq StillBusy(l)
  PROVE  SpillsUnderPressure'
<1>. SUFFICES ASSUME NEW k \in Placed \cup {l}, assigned'[k] = None
              PROVE  \E j \in DOMAIN interval : Cardinality(LiveAt(interval[j].start)) > registers
  <2>1. (DOMAIN interval \ waiting)' \subseteq Placed \cup {l}
    BY DEF Placed
  <2>2. \A p : LiveAt(p)' = LiveAt(p)
    BY DEF LiveAt
  <2>. QED BY <2>1, <2>2 DEF SpillsUnderPressure
<1>1. CASE k # l /\ assigned[k] = None
  BY <1>1 DEF ScanInv, SpillsUnderPressure, Placed
<1>2. CASE Register \subseteq StillBusy(l)
  BY <1>2, Pressure
<1>. QED BY <1>1, <1>2

-----------------------------------------------------------------------------
(* The three things that can become of a local *)

(* An interval that takes a free register shares it with no other. *)
LEMMA TakeFreeIsSound ==
  ASSUME ScanInv, NEW l \in Local, Place(l), TakeFree(l)
  PROVE  ScanInv'
<1>. USE DEF ScanInv
<1>1. PICK r \in Register \ StillBusy(l) :
        /\ assigned' = [assigned EXCEPT ![l] = r]
        /\ busy' = StillBusy(l) \cup {r}
        /\ active' = StillActive(l) \cup {l}
  BY DEF TakeFree
<1>2. /\ l \in waiting /\ \A k \in waiting \ {l} : Before(l, k)
      /\ waiting' = waiting \ {l} /\ UNCHANGED <<registers, interval>>
  BY DEF Place
<1>3. r # None
  BY DEF Register, ScanTypeOK
<1>4. assigned \in [Local -> Register \cup {None}] /\ assigned'[l] = r
  BY <1>1 DEF ScanTypeOK
<1>5. ScanTypeOK'
  BY <1>1, <1>2 DEF ScanTypeOK, Placed, StillActive, Register
<1>6. \A k \in StillActive(l) : k \in Local /\ k # l /\ assigned'[k] = assigned[k]
  BY <1>1, <1>2 DEF StillActive, ScanTypeOK, Placed
<1>7. StillBusy(l) = {assigned[k] : k \in StillActive(l)}
  BY StillHeld
<1>8. BusyIsHeld'
  <2>1. busy' = {assigned'[k] : k \in active'}
    BY <1>1, <1>4, <1>6, <1>7
  <2>2. \A k \in active' : assigned'[k] # None
    BY <1>1, <1>3, <1>4, <1>6 DEF BusyIsHeld, StillActive
  <2>3. \A j, k \in active' : assigned'[j] = assigned'[k] => j = k
    BY <1>1, <1>4, <1>6, <1>7 DEF BusyIsHeld, StillActive
  <2>. QED BY <2>1, <2>2, <2>3 DEF BusyIsHeld
<1>9. WaitingIsAhead'
  BY <1>1, <1>2, <1>4, StaysAhead DEF WaitingIsAhead
<1>10. NoSharing'
  <2>1. ASSUME NEW k \in DOMAIN interval \ {l}, assigned'[k] = r
        PROVE  interval[k].end < interval[l].start
    <3>1. r \notin {assigned[j] : j \in StillActive(l)}
      BY <1>7
    <3>2. assigned[k] = r
      BY <1>1, <2>1 DEF ScanTypeOK
    <3>3. l \in waiting
      BY <1>2
    <3>. HIDE DEF ScanInv
    <3>4. ScanTypeOK /\ BusyIsHeld /\ WaitingIsAhead
      BY DEF ScanInv
    <3>. QED BY <1>3, <3>1, <3>2, <3>3, <3>4, FreeIsFree
  <2>. QED BY <1>1, <1>2, <1>4, <2>1, StaysUnshared
<1>11. SpillsUnderPressure'
  BY <1>1, <1>2, <1>3, <1>4, StaysPressed
<1>. QED BY <1>5, <1>8, <1>9, <1>10, <1>11

(* One that takes the register of the interval ending last shares it with no
   other. *)
LEMMA EvictIsSound ==
  ASSUME ScanInv, NEW l \in Local, Place(l), Evict(l)
  PROVE  ScanInv'
<1>. USE DEF ScanInv
<1>1. PICK k \in StillActive(l) :
        /\ assigned' = [assigned EXCEPT ![k] = None, ![l] = assigned[k]]
        /\ busy' = StillBusy(l)
        /\ active' = (StillActive(l) \ {k}) \cup {l}
  BY DEF Evict
<1>2. /\ l \in waiting /\ \A j \in waiting \ {l} : Before(l, j)
      /\ waiting' = waiting \ {l} /\ UNCHANGED <<registers, interval>>
      /\ Register \subseteq StillBusy(l)
  BY DEF Place, Evict
<1>3. \A j \in StillActive(l) : j \in Local /\ j # l /\ j \in active /\ assigned[j] # None
  BY <1>2 DEF StillActive, ScanTypeOK, Placed, BusyIsHeld
<1>4. /\ assigned \in [Local -> Register \cup {None}]
      /\ assigned'[l] = assigned[k] /\ assigned'[k] = None
      /\ \A j \in Local \ {k, l} : assigned'[j] = assigned[j]
  BY <1>1, <1>3 DEF ScanTypeOK
<1>5. ScanTypeOK'
  BY <1>1, <1>2, <1>3, <1>4 DEF ScanTypeOK, Placed, StillActive, Register
<1>6. StillBusy(l) = {assigned[j] : j \in StillActive(l)}
  BY StillHeld
<1>7. BusyIsHeld'
  <2>1. busy' = {assigned'[j] : j \in active'}
    BY <1>1, <1>3, <1>4, <1>6
  <2>2. \A j \in active' : assigned'[j] # None
    BY <1>1, <1>3, <1>4
  <2>3. \A i, j \in active' : assigned'[i] = assigned'[j] => i = j
    BY <1>1, <1>3, <1>4 DEF BusyIsHeld
  <2>. QED BY <2>1, <2>2, <2>3 DEF BusyIsHeld
<1>8. WaitingIsAhead'
  <2>1. \A j \in Local : assigned'[j] # assigned[j] => j \in active' \/ assigned'[j] = None
    BY <1>1, <1>4
  <2>2. \A j \in waiting' : assigned'[j] = None
    BY <1>1, <1>2, <1>4 DEF WaitingIsAhead, ScanTypeOK
  <2>3. \A j \in StillActive(l) \ active' : assigned'[j] = None
    BY <1>1, <1>4
  <2>. QED BY <1>1, <1>2, <2>1, <2>2, <2>3, StaysAhead
<1>9. NoSharing'
  <2>1. ASSUME NEW j \in DOMAIN interval \ {l}, assigned'[j] = assigned'[l]
        PROVE  interval[j].end < interval[l].start
    <3>1. j # k /\ j \in Local /\ assigned[j] = assigned[k]
      BY <1>3, <1>4, <2>1 DEF ScanTypeOK
    <3>2. j \notin StillActive(l)
      BY <1>3, <3>1 DEF BusyIsHeld
    <3>3. j \in Placed /\ assigned[j] # None
      BY <1>3, <2>1, <3>1 DEF WaitingIsAhead, Placed
    <3>. QED BY <1>2, <3>2, <3>3, GoneBefore
  <2>2. \A j \in DOMAIN interval \ {l} : assigned'[j] = assigned[j] \/ assigned'[j] = None
    BY <1>4 DEF ScanTypeOK
  <2>. QED BY <1>2, <2>1, <2>2, StaysUnshared
<1>10. SpillsUnderPressure'
  BY <1>2, StaysPressed
<1>. QED BY <1>5, <1>7, <1>8, <1>9, <1>10

(* One that is left in the frame takes no register. *)
LEMMA StayInFrameIsSound ==
  ASSUME ScanInv, NEW l \in Local, Place(l), StayInFrame(l)
  PROVE  ScanInv'
<1>. USE DEF ScanInv
<1>1. /\ l \in waiting /\ \A j \in waiting \ {l} : Before(l, j)
      /\ waiting' = waiting \ {l} /\ UNCHANGED <<registers, interval, assigned>>
      /\ busy' = StillBusy(l) /\ active' = StillActive(l)
      /\ Register \subseteq StillBusy(l)
  BY DEF Place, StayInFrame
<1>2. ScanTypeOK'
  BY <1>1 DEF ScanTypeOK, Placed, StillActive, Register
<1>3. BusyIsHeld'
  BY <1>1, StillHeld DEF BusyIsHeld, StillActive
<1>4. assigned'[l] = None
  BY <1>1 DEF WaitingIsAhead
<1>5. WaitingIsAhead'
  BY <1>1, <1>4, StaysAhead DEF WaitingIsAhead
<1>6. NoSharing'
  BY <1>1, <1>4, StaysUnshared
<1>7. SpillsUnderPressure'
  BY <1>1, StaysPressed
<1>. QED BY <1>2, <1>3, <1>5, <1>6, <1>7

(* Every step of the scan keeps ScanInv. *)
LEMMA ScanStepIsSound ==
  ASSUME ScanInv, [ScanNext]_scanVars
  PROVE  ScanInv'
<1>1. CASE UNCHANGED scanVars
  <2>1. UNCHANGED <<registers, interval, waiting, assigned, busy, active>>
    BY <1>1 DEF scanVars
  <2>2. ScanTypeOK' /\ BusyIsHeld' /\ WaitingIsAhead'
    BY <2>1 DEF ScanInv, ScanTypeOK, BusyIsHeld, WaitingIsAhead, Placed, Register
  <2>3. NoSharing'
    BY <2>1 DEF ScanInv, NoSharing, Overlap
  <2>4. SpillsUnderPressure'
    <3>1. \A p : LiveAt(p)' = LiveAt(p)
      BY <2>1 DEF LiveAt
    <3>. QED BY <2>1, <3>1 DEF ScanInv, SpillsUnderPressure
  <2>. QED BY <2>2, <2>3, <2>4 DEF ScanInv
<1>2. ASSUME NEW l \in Local, Place(l) PROVE ScanInv'
  <2>1. TakeFree(l) \/ Evict(l) \/ StayInFrame(l)
    BY <1>2 DEF Place
  <2>. QED BY <1>2, <2>1, TakeFreeIsSound, EvictIsSound, StayInFrameIsSound
<1>. QED BY <1>1, <1>2 DEF ScanNext

-----------------------------------------------------------------------------
(* Whatever the intervals and however many registers: two locals that hold one
   register are never live at the same position (allocate, `active.retain`), and
   a local is left in the frame only where registers are short. *)
THEOREM ScanIsSound == ScanSpec => [](NoSharing /\ SpillsUnderPressure)
<1>1. ASSUME \E count \in Nat, live \in SUBSET Local :
               \E intervals \in [live -> Intervals] :
                 /\ \A l \in live : intervals[l].start <= intervals[l].end
                 /\ ScanInit(count, intervals)
      PROVE  ScanInv
  BY <1>1, ScanInitIsSound
<1>2. ScanInv /\ [ScanNext]_scanVars => ScanInv'
  BY ScanStepIsSound
<1>3. ScanInv => NoSharing /\ SpillsUnderPressure
  BY DEF ScanInv
<1>. QED BY <1>1, <1>2, <1>3, PTL DEF ScanSpec

-----------------------------------------------------------------------------
(* The caller's registers: the inductive invariant *)

AssignedOK ==
  /\ assigned \in [Local -> Register \cup {None}]
  /\ active \subseteq Local
  /\ registers = Len(RegisterFile)

PcOK == pc.block \in Blocks /\ pc.at \in Nat \ {0} /\ pc = [block |-> pc.block, at |-> pc.at]

(* Every register that has to be given back is in its slot of the frame, or
   nobody has touched it. *)
FrameKeeps ==
  /\ frame = [s \in 0 .. Cardinality(InFrame) + Cardinality(Saved) - 1 |-> frame[s]]
  /\ \A r \in Saved : frame[SaveSlot(r)] = Caller(Name(r))
  /\ \A n \in Range(Preserved) : (\A r \in Saved : Name(r) # n) => register[n] = Caller(n)

Kept == \A n \in Range(Preserved) : register[n] = Caller(n)

KeepInv ==
  /\ function \in Functions
  /\ register = [n \in Names |-> register[n]]
  /\ phase \in {"flow", "scan", "run", "returned"}
  /\ phase = "flow" => assigned = [l \in Local |-> None] /\ active = {}
  /\ phase # "flow" => AssignedOK
  /\ phase \in {"flow", "scan"} => pc = [block |-> Entry, at |-> 1] /\ Kept
  /\ phase = "run" => PcOK /\ FrameKeeps
  /\ phase = "returned" => Kept

-----------------------------------------------------------------------------
(* The frame and the register file *)

(* How many members of a finite set of numbers come before one of them. *)
LEMMA Rank ==
  ASSUME NEW S \in SUBSET Nat, IsFiniteSet(S)
  PROVE  /\ \A x \in S : Cardinality({y \in S : y < x}) \in 0 .. Cardinality(S) - 1
         /\ \A x, z \in S : x < z => Cardinality({y \in S : y < x}) < Cardinality({y \in S : y < z})
<1>. DEFINE below(x) == {y \in S : y < x}
<1>1. Cardinality(S) \in Nat
  BY FS_CardinalityType
<1>2. \A x \in S : IsFiniteSet(below(x)) /\ Cardinality(below(x)) \in Nat
  <2>. SUFFICES ASSUME NEW x \in S
                PROVE  IsFiniteSet(below(x)) /\ Cardinality(below(x)) \in Nat
    OBVIOUS
  <2>1. below(x) \in SUBSET S
    OBVIOUS
  <2>2. IsFiniteSet(below(x))
    BY <2>1, FS_Subset
  <2>. QED BY <2>2, FS_CardinalityType
<1>3. ASSUME NEW x \in S PROVE Cardinality(below(x)) \in 0 .. Cardinality(S) - 1
  <2>1. below(x) \in SUBSET S /\ below(x) # S
    OBVIOUS
  <2>. HIDE DEF below
  <2>2. Cardinality(below(x)) <= Cardinality(S) /\ Cardinality(below(x)) # Cardinality(S)
    BY <2>1, FS_Subset
  <2>. QED BY <1>1, <1>2, <2>2
<1>4. ASSUME NEW x \in S, NEW z \in S, x < z PROVE Cardinality(below(x)) < Cardinality(below(z))
  <2>1. below(x) \in SUBSET below(z)
    <3>. SUFFICES ASSUME NEW y \in S, y < x PROVE y < z
      OBVIOUS
    <3>1. x \in Nat /\ y \in Nat /\ z \in Nat
      OBVIOUS
    <3>. QED BY <1>4, <3>1
  <2>2. x \in below(z) /\ x \notin below(x)
    BY <1>4
  <2>3. below(x) # below(z)
    BY <2>2
  <2>. HIDE DEF below
  <2>4. /\ Cardinality(below(x)) <= Cardinality(below(z))
        /\ Cardinality(below(x)) # Cardinality(below(z))
    BY <1>2, <2>1, <2>3, FS_Subset
  <2>. QED BY <1>2, <2>4
<1>. QED BY <1>3, <1>4

(* A register has a name, its own, and a name that calls preserve exactly when
   it has to be given back as it was. *)
LEMMA FileIsNamed ==
  /\ RegisterFile \in Seq(Names) /\ VolatileCount \in Nat
  /\ \A i, j \in 1 .. Len(RegisterFile) : RegisterFile[i] = RegisterFile[j] => i = j
  /\ \A i \in 1 .. Len(RegisterFile) :
       RegisterFile[i] \in Range(Preserved) <=> i > VolatileCount
<1>. DEFINE file == Volatile \o Preserved
<1>1. /\ Volatile \in Seq(Names) /\ Preserved \in Seq(Names) /\ file \in Seq(Names)
      /\ \A i, j \in 1 .. Len(file) : file[i] = file[j] => i = j
  BY RegistersAssumption
<1>2. /\ Len(file) = Len(Volatile) + Len(Preserved)
      /\ Len(Volatile) \in Nat /\ Len(Preserved) \in Nat
      /\ \A i \in 1 .. Len(Volatile) : file[i] = Volatile[i]
      /\ \A i \in 1 .. Len(Preserved) : file[Len(Volatile) + i] = Preserved[i]
  BY <1>1
<1>3. Range(Preserved) = {Preserved[i] : i \in 1 .. Len(Preserved)}
  BY <1>1 DEF Range
<1>. HIDE DEF file
<1>4. CASE calls_something(function)
  <2>1. RegisterFile = Preserved /\ VolatileCount = 0
    BY <1>4 DEF RegisterFile, VolatileCount
  <2>2. ASSUME NEW i \in 1 .. Len(Preserved), NEW j \in 1 .. Len(Preserved),
               Preserved[i] = Preserved[j]
        PROVE  i = j
    <3>1. /\ Len(Volatile) + i \in 1 .. Len(file) /\ Len(Volatile) + j \in 1 .. Len(file)
          /\ file[Len(Volatile) + i] = file[Len(Volatile) + j]
      BY <1>2, <2>2
    <3>2. Len(Volatile) + i = Len(Volatile) + j
      BY <1>1, <3>1
    <3>. QED BY <1>2, <3>2
  <2>. QED BY <1>1, <1>3, <2>1, <2>2
<1>5. CASE ~calls_something(function)
  <2>1. RegisterFile = file /\ VolatileCount = Len(Volatile)
    BY <1>5 DEF RegisterFile, VolatileCount, file
  <2>2. ASSUME NEW i \in 1 .. Len(file) PROVE file[i] \in Range(Preserved) <=> i > Len(Volatile)
    <3>1. CASE i > Len(Volatile)
      <4>1. i - Len(Volatile) \in 1 .. Len(Preserved)
        BY <1>2, <3>1
      <4>2. file[i] = Preserved[i - Len(Volatile)]
        <5>1. file[Len(Volatile) + (i - Len(Volatile))] = Preserved[i - Len(Volatile)]
          BY <1>2, <4>1
        <5>2. Len(Volatile) + (i - Len(Volatile)) = i
          BY <1>2
        <5>. QED BY <5>1, <5>2
      <4>. QED BY <1>3, <3>1, <4>1, <4>2
    <3>2. CASE ~(i > Len(Volatile))
      <4>1. SUFFICES ASSUME NEW j \in 1 .. Len(Preserved), file[i] = Preserved[j] PROVE FALSE
        BY <1>3, <3>2
      <4>2. Len(Volatile) + j \in 1 .. Len(file) /\ file[i] = file[Len(Volatile) + j]
        BY <1>2, <4>1
      <4>3. i = Len(Volatile) + j
        BY <1>1, <4>2
      <4>. QED BY <1>2, <3>2, <4>3
    <3>. QED BY <3>1, <3>2
  <2>. QED BY <1>1, <1>2, <2>1, <2>2
<1>. QED BY <1>4, <1>5

(* The same, of the registers the scan gives out. *)
LEMMA RegistersAreNamed ==
  ASSUME AssignedOK
  PROVE  /\ Register \subseteq Nat /\ None \notin Register /\ IsFiniteSet(Register)
         /\ \A r \in Register : Name(r) \in Names
         /\ \A r, q \in Register : Name(r) = Name(q) => r = q
         /\ \A r \in Register : Name(r) \in Range(Preserved) <=> r >= VolatileCount
<1>1. registers \in Nat /\ registers = Len(RegisterFile)
  BY FileIsNamed DEF AssignedOK
<1>2. Register \subseteq Nat /\ None \notin Register
  BY <1>1 DEF Register
<1>3. IsFiniteSet(Register)
  BY <1>1, FS_Interval DEF Register
<1>4. \A r \in Register : r + 1 \in 1 .. Len(RegisterFile) /\ r + 1 - 1 = r
  BY <1>1 DEF Register
<1>5. \A r \in Register : Name(r) \in Names
  BY <1>4, FileIsNamed DEF Name
<1>6. ASSUME NEW r \in Register, NEW q \in Register, Name(r) = Name(q) PROVE r = q
  <2>1. r + 1 = q + 1
    BY <1>4, <1>6, FileIsNamed DEF Name
  <2>. QED BY <1>2, <2>1
<1>7. ASSUME NEW r \in Register
      PROVE  Name(r) \in Range(Preserved) <=> r >= VolatileCount
  <2>1. RegisterFile[r + 1] \in Range(Preserved) <=> r + 1 > VolatileCount
    <3>1. PICK i \in 1 .. Len(RegisterFile) : i = r + 1
      BY <1>4
    <3>2. RegisterFile[i] \in Range(Preserved) <=> i > VolatileCount
      BY FileIsNamed
    <3>. QED BY <3>1, <3>2
  <2>2. r + 1 > VolatileCount <=> r >= VolatileCount
    BY <1>2, FileIsNamed
  <2>3. RegisterFile[r + 1] \in Range(Preserved) <=> r >= VolatileCount
    BY <2>1, <2>2, Zenon
  <2>. QED BY <2>3, Zenon DEF Name
<1>. QED BY <1>2, <1>3, <1>5, <1>6, <1>7

(* No register is of both kinds. *)
LEMMA PreservedIsNotVolatile ==
  ASSUME NEW n \in Range(Preserved)
  PROVE  n \notin Range(Volatile)
<1>. DEFINE file == Volatile \o Preserved
<1>1. /\ Volatile \in Seq(Names) /\ Preserved \in Seq(Names) /\ file \in Seq(Names)
      /\ \A i, j \in 1 .. Len(file) : file[i] = file[j] => i = j
  BY RegistersAssumption
<1>2. SUFFICES ASSUME NEW i \in 1 .. Len(Volatile), NEW j \in 1 .. Len(Preserved),
                      Volatile[i] = Preserved[j]
               PROVE  FALSE
  BY <1>1 DEF Range
<1>3. /\ i \in 1 .. Len(file) /\ Len(Volatile) + j \in 1 .. Len(file)
      /\ file[i] = file[Len(Volatile) + j]
  BY <1>1, <1>2
<1>4. i = Len(Volatile) + j
  <2>. HIDE DEF file
  <2>. QED BY <1>1, <1>3
<1>. QED BY <1>1, <1>4

(* The locals' slots and those of the saved registers are in the frame, and no
   two registers, nor a register and a local, share one. *)
LEMMA Layout ==
  ASSUME AssignedOK
  PROVE  /\ \A l \in InFrame : Slot(l) \in 0 .. Cardinality(InFrame) + Cardinality(Saved) - 1
         /\ \A r \in Saved : SaveSlot(r) \in 0 .. Cardinality(InFrame) + Cardinality(Saved) - 1
         /\ \A l \in InFrame : \A r \in Saved : Slot(l) # SaveSlot(r)
         /\ \A r, q \in Saved : SaveSlot(r) = SaveSlot(q) => r = q
         /\ Saved \subseteq Register
<1>1. Saved \in SUBSET Register
  BY DEF AssignedOK, Saved
<1>2. Saved \in SUBSET Nat /\ IsFiniteSet(Saved)
  BY <1>1, RegistersAreNamed, FS_Subset
<1>3. InFrame \in SUBSET Nat /\ IsFiniteSet(InFrame)
  <2>1. InFrame \in SUBSET Local
    BY DEF InFrame
  <2>. QED BY <2>1, FS_Subset
<1>4. Cardinality(InFrame) \in Nat /\ Cardinality(Saved) \in Nat
  BY <1>2, <1>3, FS_CardinalityType
<1>5. \A l \in InFrame : Slot(l) \in 0 .. Cardinality(InFrame) - 1
  BY <1>3, Rank DEF Slot
<1>6. /\ \A r \in Saved : Cardinality({q \in Saved : q < r}) \in 0 .. Cardinality(Saved) - 1
      /\ \A r, z \in Saved : r < z =>
           Cardinality({q \in Saved : q < r}) < Cardinality({q \in Saved : q < z})
  BY <1>2, Rank
<1>7. \A r \in Saved : SaveSlot(r) \in Cardinality(InFrame) ..
                         Cardinality(InFrame) + Cardinality(Saved) - 1
  BY <1>4, <1>6 DEF SaveSlot
<1>8. ASSUME NEW r \in Saved, NEW z \in Saved, SaveSlot(r) = SaveSlot(z) PROVE r = z
  <2>. DEFINE rank(x) == Cardinality({q \in Saved : q < x})
  <2>1. rank(r) \in Nat /\ rank(z) \in Nat /\ (r < z => rank(r) < rank(z))
        /\ (z < r => rank(z) < rank(r))
    BY <1>4, <1>6
  <2>2. SaveSlot(r) = Cardinality(InFrame) + rank(r) /\ SaveSlot(z) = Cardinality(InFrame) + rank(z)
    BY DEF SaveSlot
  <2>. HIDE DEF rank
  <2>3. \A c, a, b \in Nat : c + a = c + b => a = b
    OBVIOUS
  <2>4. rank(r) = rank(z)
    BY <1>4, <1>8, <2>1, <2>2, <2>3
  <2>. QED BY <1>2, <2>1, <2>4
<1>. QED BY <1>1, <1>4, <1>5, <1>7, <1>8

-----------------------------------------------------------------------------
(* The steps *)

(* FrameKeeps again, once the frame and the registers have been written to. *)
LEMMA StillKept ==
  ASSUME UNCHANGED <<assigned, function>>,
         frame' = [s \in 0 .. Cardinality(InFrame) + Cardinality(Saved) - 1 |-> frame'[s]],
         \A r \in Saved : frame'[SaveSlot(r)] = Caller(Name(r)),
         \A n \in Range(Preserved) : (\A r \in Saved : Name(r) # n) => register'[n] = Caller(n)
  PROVE  FrameKeeps'
<1>1. RegisterFile' = RegisterFile /\ VolatileCount' = VolatileCount /\ InFrame' = InFrame
  BY DEF RegisterFile, VolatileCount, calls_something, InFrame
<1>2. Saved' = Saved
  BY <1>1 DEF Saved
<1>3. \A r : Name(r)' = Name(r) /\ SaveSlot(r)' = SaveSlot(r)
  BY <1>1, <1>2 DEF Name, SaveSlot
<1>. QED BY <1>1, <1>2, <1>3 DEF FrameKeeps, Caller

(* Where the locals are is settled once the scan is over. *)
LEMMA AssignedLasts ==
  ASSUME AssignedOK, UNCHANGED <<assigned, active, registers, function>>
  PROVE  AssignedOK'
BY DEF AssignedOK, Register, RegisterFile, calls_something

(* A local that has a register is given back with it, or the register is none
   that the caller counts on. *)
LEMMA NotTheCallers ==
  ASSUME AssignedOK, NEW l \in Local \ InFrame,
         NEW n \in Range(Preserved), \A r \in Saved : Name(r) # n
  PROVE  Name(assigned[l]) # n
<1>1. assigned[l] \in Register
  BY DEF AssignedOK, InFrame
<1>2. SUFFICES ASSUME Name(assigned[l]) = n PROVE assigned[l] \in Saved
  OBVIOUS
<1>3. assigned[l] >= VolatileCount
  BY <1>1, <1>2, RegistersAreNamed
<1>. QED BY <1>1, <1>3, RegistersAreNamed DEF Saved

(* Writing a local where it was put. *)
LEMMA PutKeeps ==
  ASSUME AssignedOK, FrameKeeps, UNCHANGED <<assigned, function>>,
         register = [n \in Names |-> register[n]],
         NEW l \in Local, NEW value, Put(l, value)
  PROVE  FrameKeeps' /\ register' = [n \in Names |-> register'[n]]
<1>1. CASE assigned[l] = None
  <2>1. l \in InFrame /\ frame' = [frame EXCEPT ![Slot(l)] = value] /\ register' = register
    BY <1>1 DEF Put, InFrame
  <2>2. frame' = [s \in 0 .. Cardinality(InFrame) + Cardinality(Saved) - 1 |-> frame'[s]]
    BY <2>1 DEF FrameKeeps
  <2>3. ASSUME NEW r \in Saved PROVE frame'[SaveSlot(r)] = Caller(Name(r))
    <3>1. Slot(l) # SaveSlot(r)
          /\ SaveSlot(r) \in 0 .. Cardinality(InFrame) + Cardinality(Saved) - 1
      BY <2>1, Layout
    <3>. QED BY <2>1, <3>1 DEF FrameKeeps
  <2>. QED BY <2>1, <2>2, <2>3, StillKept DEF FrameKeeps
<1>2. CASE assigned[l] # None
  <2>1. /\ l \in Local \ InFrame /\ frame' = frame
        /\ register' = [register EXCEPT ![Name(assigned[l])] = value]
    BY <1>2 DEF Put, InFrame
  <2>2. ASSUME NEW n \in Range(Preserved), \A r \in Saved : Name(r) # n
        PROVE  register'[n] = Caller(n)
    <3>1. Name(assigned[l]) # n
      BY <2>1, <2>2, NotTheCallers
    <3>2. register[n] = Caller(n) /\ n \in Names
      BY <2>2 DEF FrameKeeps, Names
    <3>. QED BY <2>1, <3>1, <3>2
  <2>3. register' = [n \in Names |-> register'[n]]
    BY <2>1
  <2>. QED BY <2>1, <2>2, <2>3, StillKept DEF FrameKeeps
<1>. QED BY <1>1, <1>2

(* The statement that is run writes a local. *)
LEMMA WritesALocal ==
  ASSUME KeepInv, AtStatement
  PROVE  /\ Statement.kind \in {"plain", "binary", "call"} => Statement.defs \in Local
         /\ Statement.kind = "drop" => Statement.reads[1] \in Local
<1>1. /\ function \in Functions /\ pc.block \in Blocks
      /\ pc.at \in Nat \ {0} /\ pc.at <= Len(Here.statements)
  BY DEF KeepInv, AtStatement, PcOK
<1>2. Here \in Range(function.blocks)
  BY <1>1 DEF Here, Blocks, Range
<1>3. /\ Here.statements \in Seq(Range(Here.statements))
      /\ \A i \in Range(Here.statements) :
           /\ i.kind \in {"plain", "binary", "call"} => i.defs \in Local
           /\ i.kind = "drop" => i.reads[1] \in Local
  BY <1>1, <1>2, CodeAssumption
<1>4. pc.at \in DOMAIN Here.statements
  BY <1>1, <1>3
<1>5. Statement \in Range(Here.statements)
  BY <1>4 DEF Statement, Range
<1>. QED BY <1>3, <1>5

(* Whatever is written, the next instruction is one of the function's. *)
LEMMA Advances ==
  ASSUME PcOK, UNCHANGED function, Advance \/ UNCHANGED pc
  PROVE  PcOK'
BY DEF PcOK, Advance, Blocks

(* What a call does to the registers leaves those it preserves alone, but for
   the local it defines or drops. *)
LEMMA CallKeeps ==
  ASSUME AssignedOK, FrameKeeps, UNCHANGED <<assigned, function>>, NEW l \in Local, NEW value,
         register' = [n \in Names |->
           IF l \notin InFrame /\ Name(assigned[l]) = n THEN value
           ELSE IF n \in Range(Volatile) THEN Junk ELSE register[n]],
         frame' = IF l \in InFrame THEN [frame EXCEPT ![Slot(l)] = value] ELSE frame
  PROVE  FrameKeeps' /\ register' = [n \in Names |-> register'[n]]
<1>1. frame' = [s \in 0 .. Cardinality(InFrame) + Cardinality(Saved) - 1 |-> frame'[s]]
  BY DEF FrameKeeps
<1>2. ASSUME NEW r \in Saved PROVE frame'[SaveSlot(r)] = Caller(Name(r))
  <2>1. SaveSlot(r) \in 0 .. Cardinality(InFrame) + Cardinality(Saved) - 1
    BY Layout
  <2>2. l \in InFrame => Slot(l) # SaveSlot(r)
    BY Layout
  <2>. QED BY <2>1, <2>2 DEF FrameKeeps
<1>3. ASSUME NEW n \in Range(Preserved), \A r \in Saved : Name(r) # n
      PROVE  register'[n] = Caller(n)
  <2>1. l \notin InFrame => Name(assigned[l]) # n
    BY <1>3, NotTheCallers
  <2>2. register[n] = Caller(n) /\ n \in Names
    BY <1>3 DEF FrameKeeps, Names
  <2>3. n \notin Range(Volatile)
    BY PreservedIsNotVolatile
  <2>. QED BY <2>1, <2>2, <2>3
<1>4. register' = [n \in Names |-> register'[n]]
  OBVIOUS
<1>. QED BY <1>1, <1>2, <1>3, <1>4, StillKept

(* The prologue saves what has to be given back. *)
LEMMA EnterKeeps ==
  ASSUME KeepInv, Enter
  PROVE  KeepInv'
<1>. DEFINE params == function.params
<1>. DEFINE slots == 0 .. Cardinality(InFrame) + Cardinality(Saved) - 1
<1>. DEFINE saves == [s \in slots |->
                        IF \E r \in Saved : SaveSlot(r) = s
                        THEN register[Name(CHOOSE r \in Saved : SaveSlot(r) = s)] ELSE Junk]
<1>1. /\ phase = "scan" /\ phase' = "run" /\ UNCHANGED <<flowVars, scanVars, pc, half>>
      /\ frame' = [s \in DOMAIN saves |->
           IF \E l \in params \cap InFrame : Slot(l) = s
           THEN Value(CHOOSE l \in params \cap InFrame : Slot(l) = s, 0) ELSE saves[s]]
      /\ register' = [n \in Names |->
           IF \E l \in params \ InFrame : Name(assigned[l]) = n
           THEN Value(CHOOSE l \in params \ InFrame : Name(assigned[l]) = n, 0) ELSE register[n]]
  BY DEF Enter
<1>2. AssignedOK /\ Kept /\ pc = [block |-> Entry, at |-> 1] /\ function \in Functions
  BY <1>1 DEF KeepInv
<1>3. UNCHANGED <<assigned, active, registers, function>>
  BY <1>1 DEF flowVars, scanVars
<1>4. params \subseteq Local /\ Entry \in Blocks
  BY <1>2, CodeAssumption DEF Blocks
<1>5. frame' = [s \in slots |-> frame'[s]]
  BY <1>1
<1>6. ASSUME NEW r \in Saved PROVE frame'[SaveSlot(r)] = Caller(Name(r))
  <2>1. SaveSlot(r) \in slots /\ \A l \in InFrame : Slot(l) # SaveSlot(r)
    BY <1>2, Layout
  <2>2. frame'[SaveSlot(r)] = saves[SaveSlot(r)]
    BY <1>1, <2>1
  <2>3. (CHOOSE q \in Saved : SaveSlot(q) = SaveSlot(r)) = r
    BY <1>2, Layout
  <2>4. saves[SaveSlot(r)] = register[Name(r)]
    BY <2>1, <2>3
  <2>5. r \in Register /\ r >= VolatileCount
    BY <1>2, Layout DEF Saved
  <2>6. Name(r) \in Range(Preserved)
    BY <1>2, <2>5, RegistersAreNamed
  <2>. QED BY <1>2, <2>2, <2>4, <2>6 DEF Kept
<1>7. ASSUME NEW n \in Range(Preserved), \A r \in Saved : Name(r) # n
      PROVE  register'[n] = Caller(n)
  <2>1. \A l \in params \ InFrame : Name(assigned[l]) # n
    BY <1>2, <1>4, <1>7, NotTheCallers
  <2>2. n \in Names /\ register[n] = Caller(n)
    BY <1>2 DEF Names, Kept
  <2>. QED BY <1>1, <2>1, <2>2
<1>8. FrameKeeps'
  <2>. HIDE DEF saves, params
  <2>. QED BY <1>3, <1>5, <1>6, <1>7, StillKept
<1>9. register' = [n \in Names |-> register'[n]]
  BY <1>1
<1>10. AssignedOK'
  BY <1>2, <1>3, AssignedLasts
<1>11. PcOK'
  BY <1>1, <1>2, <1>3, <1>4 DEF PcOK, Blocks
<1>. QED BY <1>1, <1>2, <1>3, <1>8, <1>9, <1>10, <1>11 DEF KeepInv

(* The epilogue puts it back. *)
LEMMA ReturnKeeps ==
  ASSUME KeepInv, Return
  PROVE  KeepInv'
<1>1. /\ phase = "run" /\ phase' = "returned" /\ UNCHANGED <<flowVars, scanVars>>
      /\ register' = [n \in Names |->
           IF \E r \in Saved : Name(r) = n
           THEN frame[SaveSlot(CHOOSE r \in Saved : Name(r) = n)] ELSE register[n]]
  BY DEF Return
<1>2. AssignedOK /\ FrameKeeps /\ function \in Functions
  BY <1>1 DEF KeepInv
<1>3. UNCHANGED <<assigned, active, registers, function>>
  BY <1>1 DEF flowVars, scanVars
<1>4. ASSUME NEW n \in Range(Preserved) PROVE register'[n] = Caller(n)
  <2>0. n \in Names
    BY DEF Names
  <2>1. CASE \A r \in Saved : Name(r) # n
    BY <1>1, <1>2, <2>0, <2>1 DEF FrameKeeps
  <2>2. ASSUME NEW r \in Saved, Name(r) = n PROVE register'[n] = Caller(n)
    <3>1. (CHOOSE q \in Saved : Name(q) = n) = r
      BY <1>2, <2>2, RegistersAreNamed, Layout
    <3>. QED BY <1>1, <1>2, <2>0, <2>2, <3>1 DEF FrameKeeps
  <2>. QED BY <2>1, <2>2
<1>5. register' = [n \in Names |-> register'[n]]
  BY <1>1
<1>6. AssignedOK'
  BY <1>2, <1>3, AssignedLasts
<1>. QED BY <1>1, <1>2, <1>3, <1>4, <1>5, <1>6 DEF KeepInv, Kept

(* The analysis and the scan run before anything is written to. *)
LEMMA CompilingKeeps ==
  ASSUME KeepInv, Analyse \/ Allocate \/ Scan
  PROVE  KeepInv'
<1>1. CASE Analyse
  <2>1. phase = "flow" /\ UNCHANGED <<scanVars, runVars>> /\ function' = function
    BY <1>1 DEF Analyse, FlowNext, Walk, StartRound, Flow
  <2>2. UNCHANGED <<assigned, active, registers, phase, register, pc>>
    BY <2>1 DEF scanVars, runVars
  <2>. QED BY <2>1, <2>2 DEF KeepInv, Kept
<1>2. CASE Allocate
  <2>1. /\ phase = "flow" /\ phase' = "scan" /\ registers' = Len(RegisterFile)
        /\ UNCHANGED <<function, assigned, active, register, pc>>
    BY <1>2 DEF Allocate, flowVars
  <2>2. assigned = [l \in Local |-> None] /\ active = {}
    BY <2>1 DEF KeepInv
  <2>3. AssignedOK'
    BY <2>1, <2>2 DEF AssignedOK, RegisterFile, calls_something
  <2>. QED BY <2>1, <2>2, <2>3 DEF KeepInv, Kept
<1>3. CASE Scan
  <2>1. /\ phase = "scan" /\ UNCHANGED <<flowVars, runVars>>
        /\ UNCHANGED <<function, registers, phase, register, pc>>
    BY <1>3 DEF Scan, ScanNext, Place, flowVars, runVars
  <2>2. AssignedOK
    BY <2>1 DEF KeepInv
  <2>3. PICK l \in Local : Place(l)
    BY <1>3 DEF Scan, ScanNext
  <2>4. StillActive(l) \subseteq Local
    BY <2>2 DEF AssignedOK, StillActive
  <2>5. ASSUME TakeFree(l) PROVE AssignedOK'
    <3>1. PICK r \in Register \ StillBusy(l) :
            assigned' = [assigned EXCEPT ![l] = r] /\ active' = StillActive(l) \cup {l}
      BY <2>5 DEF TakeFree
    <3>2. assigned' \in [Local -> Register \cup {None}] /\ active' \subseteq Local
      BY <2>2, <2>4, <3>1 DEF AssignedOK
    <3>. QED BY <2>1, <2>2, <3>2 DEF AssignedOK, Register, RegisterFile, calls_something
  <2>6. ASSUME Evict(l) PROVE AssignedOK'
    <3>1. PICK k \in StillActive(l) :
            /\ assigned' = [assigned EXCEPT ![k] = None, ![l] = assigned[k]]
            /\ active' = (StillActive(l) \ {k}) \cup {l}
      BY <2>6 DEF Evict
    <3>2. assigned' \in [Local -> Register \cup {None}] /\ active' \subseteq Local
      BY <2>2, <2>4, <3>1 DEF AssignedOK
    <3>. QED BY <2>1, <2>2, <3>2 DEF AssignedOK, Register, RegisterFile, calls_something
  <2>7. ASSUME StayInFrame(l) PROVE AssignedOK'
    <3>1. assigned' = assigned /\ active' = StillActive(l)
      BY <2>7 DEF StayInFrame
    <3>. QED BY <2>1, <2>2, <2>4, <3>1 DEF AssignedOK, Register, RegisterFile, calls_something
  <2>8. AssignedOK'
    BY <2>3, <2>5, <2>6, <2>7 DEF Place
  <2>. QED BY <2>1, <2>8 DEF KeepInv, Kept
<1>. QED BY <1>1, <1>2, <1>3

(* No statement touches what has to be given back. *)
LEMMA RunningKeeps ==
  ASSUME KeepInv, Accumulate \/ Execute \/ Call \/ Drop \/ Jump
  PROVE  KeepInv'
<1>1. phase = "run" /\ UNCHANGED <<phase, flowVars, scanVars>>
  BY DEF Accumulate, Execute, Call, Drop, Jump, AtStatement
<1>2. UNCHANGED <<assigned, active, registers, function>>
  BY <1>1 DEF flowVars, scanVars
<1>3. /\ AssignedOK /\ PcOK /\ FrameKeeps /\ function \in Functions
      /\ register = [n \in Names |-> register[n]]
  BY <1>1 DEF KeepInv
<1>4. AssignedOK'
  BY <1>2, <1>3, AssignedLasts
<1>5. CASE Accumulate
  <2>1. Statement.defs \in Local
    BY <1>5, WritesALocal DEF Accumulate, InPlace
  <2>2. Put(Statement.defs, Held(Statement.reads[1])) /\ UNCHANGED pc
    BY <1>5 DEF Accumulate
  <2>3. FrameKeeps' /\ register' = [n \in Names |-> register'[n]]
    BY <1>2, <1>3, <2>1, <2>2, PutKeeps
  <2>4. PcOK'
    BY <1>2, <1>3, <2>2, Advances
  <2>. QED BY <1>1, <1>2, <1>3, <1>4, <2>3, <2>4 DEF KeepInv
<1>6. CASE Execute
  <2>1. Statement.defs \in Local
    BY <1>6, WritesALocal DEF Execute
  <2>2. Put(Statement.defs, Fresh(Statement.defs)) /\ Advance
    BY <1>6 DEF Execute
  <2>3. FrameKeeps' /\ register' = [n \in Names |-> register'[n]]
    BY <1>2, <1>3, <2>1, <2>2, PutKeeps
  <2>4. PcOK'
    BY <1>2, <1>3, <2>2, Advances
  <2>. QED BY <1>1, <1>2, <1>3, <1>4, <2>3, <2>4 DEF KeepInv
<1>7. CASE Call
  <2>1. Statement.defs \in Local
    BY <1>7, WritesALocal DEF Call
  <2>. DEFINE l == Statement.defs
  <2>2. /\ register' = [n \in Names |->
             IF l \notin InFrame /\ Name(assigned[l]) = n THEN Fresh(l)
             ELSE IF n \in Range(Volatile) THEN Junk ELSE register[n]]
        /\ frame' = IF l \in InFrame THEN [frame EXCEPT ![Slot(l)] = Fresh(l)] ELSE frame
        /\ Advance
    BY <1>7 DEF Call
  <2>3. FrameKeeps' /\ register' = [n \in Names |-> register'[n]]
    BY <1>2, <1>3, <2>1, <2>2, CallKeeps
  <2>4. PcOK'
    BY <1>2, <1>3, <2>2, Advances
  <2>. QED BY <1>1, <1>2, <1>3, <1>4, <2>3, <2>4 DEF KeepInv
<1>8. CASE Drop
  <2>1. Statement.reads[1] \in Local
    BY <1>8, WritesALocal DEF Drop
  <2>. DEFINE l == Statement.reads[1]
  <2>2. /\ register' = [n \in Names |->
             IF l \notin InFrame /\ Name(assigned[l]) = n THEN Zero
             ELSE IF n \in Range(Volatile) THEN Junk ELSE register[n]]
        /\ frame' = IF l \in InFrame THEN [frame EXCEPT ![Slot(l)] = Zero] ELSE frame
        /\ Advance
    BY <1>8 DEF Drop
  <2>3. FrameKeeps' /\ register' = [n \in Names |-> register'[n]]
    BY <1>2, <1>3, <2>1, <2>2, CallKeeps
  <2>4. PcOK'
    BY <1>2, <1>3, <2>2, Advances
  <2>. QED BY <1>1, <1>2, <1>3, <1>4, <2>3, <2>4 DEF KeepInv
<1>9. CASE Jump
  <2>1. UNCHANGED <<register, frame>>
    BY <1>9 DEF Jump
  <2>2. FrameKeeps'
    BY <1>2, <1>3, <2>1, StillKept DEF FrameKeeps
  <2>3. PICK target \in Range(Here.successors) : pc' = [block |-> target, at |-> 1]
    BY <1>9 DEF Jump
  <2>4. target \in Blocks
    <3>1. Here \in Range(function.blocks)
      BY <1>3 DEF PcOK, Here, Blocks, Range
    <3>2. Here.successors \in Seq(Blocks)
      BY <1>3, <3>1, CodeAssumption DEF Blocks
    <3>. QED BY <2>3, <3>2 DEF Range
  <2>5. PcOK'
    BY <1>2, <2>3, <2>4 DEF PcOK, Blocks
  <2>. QED BY <1>1, <1>2, <1>3, <1>4, <2>1, <2>2, <2>5 DEF KeepInv
<1>. QED BY <1>5, <1>6, <1>7, <1>8, <1>9

-----------------------------------------------------------------------------
(* The theorem *)

(* KeepInv holds before the function is compiled. *)
LEMMA KeepInit == Init => KeepInv
<1>. SUFFICES ASSUME Init PROVE KeepInv
  OBVIOUS
<1>1. /\ function \in Functions /\ phase = "flow" /\ pc = [block |-> Entry, at |-> 1]
      /\ register = [n \in Names |-> IF n \in Range(Preserved) THEN Caller(n) ELSE Junk]
      /\ assigned = [l \in Local |-> None] /\ active = {}
  BY DEF Init, FlowInit, ScanInit
<1>2. Kept
  BY <1>1 DEF Kept, Names
<1>. QED BY <1>1, <1>2 DEF KeepInv

(* Every step of the compiler and of the code it makes keeps KeepInv. *)
LEMMA KeepStep == KeepInv /\ [Next]_vars => KeepInv'
<1>. SUFFICES ASSUME KeepInv, [Next]_vars PROVE KeepInv'
  OBVIOUS
<1>1. CASE Analyse \/ Allocate \/ Scan
  BY <1>1, CompilingKeeps
<1>2. CASE Enter
  BY <1>2, EnterKeeps
<1>3. CASE Accumulate \/ Execute \/ Call \/ Drop \/ Jump
  BY <1>3, RunningKeeps
<1>4. CASE Return
  BY <1>4, ReturnKeeps
<1>5. CASE UNCHANGED vars
  <2>1. /\ UNCHANGED <<phase, register, frame, pc>>
        /\ UNCHANGED <<assigned, active, registers, function>>
    BY <1>5 DEF vars, runVars, flowVars, scanVars
  <2>2. AssignedOK => AssignedOK'
    BY <2>1, AssignedLasts
  <2>3. FrameKeeps => FrameKeeps'
    BY <2>1, StillKept DEF FrameKeeps
  <2>4. PcOK => PcOK'
    BY <2>1, Advances
  <2>. QED BY <2>1, <2>2, <2>3, <2>4 DEF KeepInv, Kept
<1>. QED BY <1>1, <1>2, <1>3, <1>4, <1>5 DEF Next

(* KeepInv holds of every function that is compiled and run, with any number
   of registers and wherever the scan puts its locals. *)
THEOREM FrameInvariant == Spec => []KeepInv
BY KeepInit, KeepStep, PTL DEF Spec

(* Whatever a function's code does, the registers that calls preserve hold on
   its return what they held on its entry (codegen.rs, prologue and epilogue). *)
THEOREM PreservedRegisters == Spec => []CallerKeepsRegisters
<1>1. KeepInv => CallerKeepsRegisters
  BY DEF KeepInv, Kept, CallerKeepsRegisters
<1>. QED BY <1>1, FrameInvariant, PTL

-----------------------------------------------------------------------------
(* Numbers *)

(* A set of numbers has a least. *)
LEMMA Least ==
  ASSUME NEW T \in SUBSET Nat, T # {}
  PROVE  \E x \in T : \A y \in T : x <= y
<1>. DEFINE R == OpToRel(<, Nat)
<1>1. IsWellFoundedOn(R, Nat)
  BY NatLessThanWellFounded
<1>2. \A x, y \in Nat : x < y => <<x, y>> \in R
  BY DEF OpToRel
<1>. HIDE DEF R
<1>3. PICK x \in T : \A y \in T : ~(<<y, x>> \in R)
  BY <1>1, WFMin
<1>4. ASSUME NEW y \in T PROVE x <= y
  <2>1. x \in Nat /\ y \in Nat
    OBVIOUS
  <2>2. ~(y < x)
    BY <1>2, <1>3, <2>1
  <2>. QED BY <2>1, <2>2
<1>. QED BY <1>4

(* A finite set of numbers has a greatest: the one of the highest rank. *)
LEMMA Greatest ==
  ASSUME NEW S \in SUBSET Nat, IsFiniteSet(S), S # {}
  PROVE  \E x \in S : \A y \in S : x >= y
<1>. DEFINE rank(x) == Cardinality({y \in S : y < x})
<1>. DEFINE T == {Cardinality(S) - rank(x) : x \in S}
<1>1. Cardinality(S) \in Nat
  BY FS_CardinalityType
<1>2. /\ \A x \in S : rank(x) \in 0 .. Cardinality(S) - 1
      /\ \A x, z \in S : x < z => rank(x) < rank(z)
  BY Rank
<1>. HIDE DEF rank
<1>3. T \in SUBSET Nat /\ T # {}
  <2>1. \A x \in S : Cardinality(S) - rank(x) \in Nat
    BY <1>1, <1>2
  <2>. QED BY <2>1
<1>4. PICK t \in T : \A u \in T : t <= u
  <2>. HIDE DEF T
  <2>. QED BY <1>3, Least
<1>5. PICK x \in S : t = Cardinality(S) - rank(x)
  OBVIOUS
<1>6. ASSUME NEW y \in S, x < y PROVE FALSE
  <2>1. rank(x) < rank(y) /\ rank(x) \in Nat /\ rank(y) \in Nat
    BY <1>2, <1>6
  <2>2. t <= Cardinality(S) - rank(y)
    BY <1>4
  <2>. QED BY <1>1, <1>5, <2>1, <2>2
<1>. QED BY <1>6

(* There are running sums, of one more each time. *)
LEMMA SumsExist ==
  ASSUME NEW n \in Nat, NEW width \in [1 .. n -> Nat]
  PROVE  \E sum : sum = [i \in 1 .. n |-> IF i = 1 THEN 0 ELSE sum[i - 1] + width[i - 1] + 1]
<1>. DEFINE Sums(m) == {sum \in [1 .. m -> Nat] :
                          \A i \in 1 .. m : sum[i] = IF i = 1 THEN 0 ELSE sum[i - 1] + width[i - 1] + 1}
<1>. DEFINE T == {m \in 0 .. n : Sums(m) = {}}
<1>1. T = {}
  <2>. SUFFICES ASSUME T # {} PROVE FALSE
    OBVIOUS
  <2>1. T \in SUBSET Nat
    OBVIOUS
  <2>2. PICK m \in T : \A k \in T : m <= k
    <3>. HIDE DEF T
    <3>. QED BY <2>1, Least
  <2>3. m \in 0 .. n /\ Sums(m) = {}
    OBVIOUS
  <2>4. CASE m = 0
    <3>1. [i \in 1 .. m |-> 0] \in Sums(m)
      BY <2>4
    <3>. QED BY <2>3, <3>1
  <2>5. CASE m # 0
    <3>1. m - 1 \in 0 .. n /\ ~(m <= m - 1)
      BY <2>3, <2>5
    <3>2. m - 1 \notin T
      BY <2>2, <3>1
    <3>3. PICK short : short \in Sums(m - 1)
      BY <3>1, <3>2
    <3>. DEFINE long == [i \in 1 .. m |->
                           IF i < m THEN short[i]
                           ELSE IF m = 1 THEN 0 ELSE short[m - 1] + width[m - 1] + 1]
    <3>4. long \in [1 .. m -> Nat]
      BY <2>3, <2>5, <3>3
    <3>5. ASSUME NEW i \in 1 .. m
          PROVE  long[i] = IF i = 1 THEN 0 ELSE long[i - 1] + width[i - 1] + 1
      BY <2>3, <2>5, <3>3
    <3>. QED BY <2>3, <3>4, <3>5
  <2>. QED BY <2>4, <2>5
<1>2. PICK sum : sum \in Sums(n)
  <2>1. n \notin T
    BY <1>1
  <2>2. n \in 0 .. n
    OBVIOUS
  <2>. HIDE DEF Sums
  <2>3. Sums(n) # {}
    BY <2>1, <2>2
  <2>. QED BY <2>3
<1>3. sum = [i \in 1 .. n |-> IF i = 1 THEN 0 ELSE sum[i - 1] + width[i - 1] + 1]
  BY <1>2
<1>. QED BY <1>3

(* Running sums of numbers are numbers. *)
LEMMA SumsAreNumbers ==
  ASSUME NEW n \in Nat, NEW width \in [1 .. n -> Nat], NEW sum,
         sum = [i \in 1 .. n |-> IF i = 1 THEN 0 ELSE sum[i - 1] + width[i - 1] + 1]
  PROVE  \A i \in 1 .. n : sum[i] \in Nat
<1>. DEFINE T == {i \in 1 .. n : sum[i] \notin Nat}
<1>1. ASSUME T # {} PROVE FALSE
  <2>1. T \in SUBSET Nat
    OBVIOUS
  <2>2. PICK i \in T : \A k \in T : i <= k
    <3>. HIDE DEF T
    <3>. QED BY <1>1, <2>1, Least
  <2>3. i \in 1 .. n /\ sum[i] \notin Nat
    OBVIOUS
  <2>4. sum[i] = IF i = 1 THEN 0 ELSE sum[i - 1] + width[i - 1] + 1
    BY <2>3
  <2>5. CASE i = 1
    BY <2>3, <2>4, <2>5
  <2>6. CASE i # 1
    <3>1. i - 1 \in 1 .. n /\ ~(i <= i - 1)
      BY <2>3, <2>6
    <3>2. sum[i - 1] \in Nat
      BY <2>2, <3>1
    <3>. QED BY <2>3, <2>4, <2>6, <3>1, <3>2
  <2>. QED BY <2>5, <2>6
<1>. QED BY <1>1

-----------------------------------------------------------------------------
(* The intervals of a function *)

(* The walk is over the blocks of the function. *)
FlowOK ==
  /\ function \in Functions
  /\ postorder \in Seq(Blocks)
  /\ stack \in Seq([block : Blocks, next : Nat \ {0}])

(* The last of a sequence, and the others. *)
LEMMA SeqParts ==
  ASSUME NEW S, NEW s \in Seq(S), s # <<>>
  PROVE  Last(s) \in S /\ Front(s) \in Seq(S)
<1>1. Len(s) \in Nat \ {0}
  OBVIOUS
<1>2. Last(s) \in S
  BY <1>1 DEF Last
<1>3. Front(s) \in Seq(S)
  BY <1>1 DEF Front
<1>. QED BY <1>2, <1>3

(* Cfg::new walks from blocks to blocks. *)
LEMMA FlowKeeps ==
  ASSUME FlowOK, FlowNext
  PROVE  FlowOK'
<1>1. function' = function /\ Blocks' = Blocks
  BY DEF FlowNext, Walk, StartRound, Flow, Blocks
<1>2. CASE Walk
  <2>. DEFINE top == Last(stack)
              targets == function.blocks[top.block].successors
  <2>1. stack # <<>> /\ stack \in Seq([block : Blocks, next : Nat \ {0}])
    BY <1>2 DEF Walk, FlowOK
  <2>2. top \in [block : Blocks, next : Nat \ {0}]
    BY <2>1, SeqParts
  <2>3. Front(stack) \in Seq([block : Blocks, next : Nat \ {0}])
    BY <2>1, SeqParts
  <2>4. function.blocks[top.block] \in Range(function.blocks)
    BY <2>2 DEF Blocks, Range
  <2>5. targets \in Seq(Blocks)
    BY <2>4, CodeAssumption DEF FlowOK, Blocks
  <2>. HIDE DEF targets
  <2>6. CASE /\ top.next <= Len(targets)
             /\ LET target == targets[top.next]
                    seen   == Append(Front(stack), [top EXCEPT !.next = @ + 1])
                IN stack' = IF target \in reachable THEN seen
                            ELSE Append(seen, [block |-> target, next |-> 1])
             /\ UNCHANGED postorder
    <3>1. targets[top.next] \in Blocks
      BY <2>2, <2>5, <2>6
    <3>2. [top EXCEPT !.next = @ + 1] \in [block : Blocks, next : Nat \ {0}]
      BY <2>2
    <3>3. [block |-> targets[top.next], next |-> 1] \in [block : Blocks, next : Nat \ {0}]
      BY <3>1
    <3>. DEFINE seen == Append(Front(stack), [top EXCEPT !.next = @ + 1])
    <3>4. stack' = seen \/ stack' = Append(seen, [block |-> targets[top.next], next |-> 1])
      BY <2>6
    <3>5. seen \in Seq([block : Blocks, next : Nat \ {0}])
      <4>. HIDE DEF top
      <4>. QED BY <2>3, <3>2
    <3>6. stack' \in Seq([block : Blocks, next : Nat \ {0}])
      <4>. DEFINE Spots == [block : Blocks, next : Nat \ {0}]
                  first == [block |-> targets[top.next], next |-> 1]
      <4>1. seen \in Seq(Spots) /\ first \in Spots
        BY <3>3, <3>5
      <4>2. stack' = seen \/ stack' = Append(seen, first)
        BY <3>4
      <4>. HIDE DEF seen, first, Spots
      <4>3. stack' \in Seq(Spots)
        BY <4>1, <4>2
      <4>. QED BY <4>3 DEF Spots
    <3>7. UNCHANGED postorder
      BY <2>6
    <3>. QED
      <4>. HIDE DEF seen, top
      <4>. QED BY <1>1, <3>6, <3>7 DEF FlowOK
  <2>7. CASE postorder' = Append(postorder, top.block) /\ stack' = Front(stack)
    <3>1. top.block \in Blocks
      BY <2>2
    <3>. HIDE DEF top
    <3>. QED BY <1>1, <2>3, <2>7, <3>1 DEF FlowOK
  <2>. QED BY <1>2, <2>6, <2>7 DEF Walk, targets
<1>3. CASE StartRound \/ Flow
  BY <1>1, <1>3 DEF StartRound, Flow, FlowOK
<1>. QED BY <1>2, <1>3 DEF FlowNext

(* Blocks start at numbers. *)
LEMMA StartsAreNumbers ==
  ASSUME FlowOK
  PROVE  /\ Order \in Seq(Blocks)
         /\ \A i \in 1 .. Len(Order) :
              /\ function.blocks[Order[i]].statements \in Seq(Range(function.blocks[Order[i]].statements))
              /\ Starts[i] \in Nat
<1>. DEFINE n == Len(Order)
            width == [i \in 1 .. n |-> Len(function.blocks[Order[i]].statements)]
            IsSum(sum) == sum = [i \in 1 .. n |-> IF i = 1 THEN 0 ELSE sum[i - 1] + width[i - 1] + 1]
            IsStarts(sum) ==
              sum = [i \in 1 .. Len(Order) |->
                       IF i = 1 THEN 0
                       ELSE sum[i - 1] + Len(function.blocks[Order[i - 1]].statements) + 1]
<1>1. Order \in Seq(Blocks) /\ n \in Nat
  BY DEF Order, Reverse, FlowOK
<1>2. ASSUME NEW i \in 1 .. n
      PROVE  function.blocks[Order[i]].statements \in Seq(Range(function.blocks[Order[i]].statements))
  <2>1. Order[i] \in Blocks
    BY <1>1
  <2>2. function.blocks[Order[i]] \in Range(function.blocks)
    BY <2>1 DEF Blocks, Range
  <2>. QED BY <2>2, CodeAssumption DEF FlowOK
<1>3. width \in [1 .. n -> Nat]
  BY <1>1, <1>2
<1>4. ASSUME NEW sum PROVE IsSum(sum) <=> IsStarts(sum)
  <2>1. \A i \in 1 .. n : i # 1 =>
          width[i - 1] = Len(function.blocks[Order[i - 1]].statements)
    BY <1>1
  <2>. HIDE DEF width
  <2>2. [i \in 1 .. n |-> IF i = 1 THEN 0 ELSE sum[i - 1] + width[i - 1] + 1]
        = [i \in 1 .. n |->
             IF i = 1 THEN 0
             ELSE sum[i - 1] + Len(function.blocks[Order[i - 1]].statements) + 1]
    BY <2>1
  <2>. QED BY <2>2
<1>5. \E sum : IsSum(sum)
  <2>. HIDE DEF width, n
  <2>. QED BY <1>1, <1>3, SumsExist
<1>6. Starts = CHOOSE sum : IsStarts(sum)
  BY DEF Starts
<1>7. IsSum(Starts)
  <2>. HIDE DEF IsSum, IsStarts
  <2>. QED BY <1>4, <1>5, <1>6
<1>8. \A i \in 1 .. n : Starts[i] \in Nat
  <2>. HIDE DEF width, n
  <2>. QED BY <1>1, <1>3, <1>7, SumsAreNumbers
<1>. QED BY <1>1, <1>2, <1>8

(* What a local is marked at are finitely many numbers. *)
LEMMA MarksAreNumbers ==
  ASSUME FlowOK, NEW l
  PROVE  Marked(l) \in SUBSET Nat /\ IsFiniteSet(Marked(l))
<1>. DEFINE of(i) == function.blocks[Order[i]]
            at(i) ==
              {Starts[i] : x \in liveIn[Order[i]] \cap {l}}
              \cup {Starts[i] + Len(of(i).statements) :
                     x \in (liveOut[Order[i]] \cup Range(of(i).reads)) \cap {l}}
              \cup {Starts[i] + j - 1 : j \in {k \in DOMAIN of(i).statements :
                     l \in Range(of(i).statements[k].reads) \cup {of(i).statements[k].defs}}}
            at1 == [i \in DOMAIN Order |-> at(i)]
            all == {at1[i] : i \in DOMAIN Order}
<1>1. Marked(l) = UNION all
  BY DEF Marked
<1>2. /\ DOMAIN Order = 1 .. Len(Order) /\ Len(Order) \in Nat
      /\ \A i \in 1 .. Len(Order) :
           /\ of(i).statements \in Seq(Range(of(i).statements))
           /\ Starts[i] \in Nat
  BY StartsAreNumbers
<1>3. ASSUME NEW i \in DOMAIN Order
      PROVE  at(i) \in SUBSET Nat /\ IsFiniteSet(at(i))
  <2>1. Starts[i] \in Nat /\ Len(of(i).statements) \in Nat
        /\ DOMAIN of(i).statements = 1 .. Len(of(i).statements)
    BY <1>2
  <2>2. at(i) \subseteq Starts[i] .. Starts[i] + Len(of(i).statements)
    <3>. SUFFICES ASSUME NEW m \in at(i) PROVE m \in Starts[i] .. Starts[i] + Len(of(i).statements)
      OBVIOUS
    <3>1. CASE m \in {Starts[i] : x \in liveIn[Order[i]] \cap {l}}
      BY <2>1, <3>1
    <3>2. CASE m \in {Starts[i] + Len(of(i).statements) :
                        x \in (liveOut[Order[i]] \cup Range(of(i).reads)) \cap {l}}
      BY <2>1, <3>2
    <3>3. ASSUME NEW j \in 1 .. Len(of(i).statements), m = Starts[i] + j - 1
          PROVE  m \in Starts[i] .. Starts[i] + Len(of(i).statements)
      <4>. HIDE DEF of, at
      <4>. QED BY <2>1, <3>3
    <3>. HIDE DEF of
    <3>. QED BY <2>1, <3>1, <3>2, <3>3
  <2>. HIDE DEF at
  <2>3. IsFiniteSet(Starts[i] .. Starts[i] + Len(of(i).statements))
    <3>. HIDE DEF of
    <3>1. Starts[i] \in Int /\ Starts[i] + Len(of(i).statements) \in Int
      BY <2>1
    <3>. QED BY <3>1, FS_Interval
  <2>4. at(i) \in SUBSET (Starts[i] .. Starts[i] + Len(of(i).statements))
    BY <2>2
  <2>5. IsFiniteSet(at(i))
    <3>. HIDE DEF of
    <3>. QED BY <2>3, <2>4, FS_Subset
  <2>6. at(i) \in SUBSET Nat
    BY <2>1, <2>2
  <2>. QED BY <2>5, <2>6
<1>4. IsFiniteSet(all)
  <2>1. at1 \in Surjection(DOMAIN Order, all)
    <3>. HIDE DEF at
    <3>. QED BY DEF Surjection
  <2>2. IsFiniteSet(DOMAIN Order)
    BY <1>2, FS_Interval
  <2>. HIDE DEF at1, all
  <2>. QED BY <2>1, <2>2, FS_Surjection
<1>5. \A T \in all : T \in SUBSET Nat /\ IsFiniteSet(T)
  <2>. HIDE DEF at
  <2>. QED BY <1>3
<1>6. IsFiniteSet(UNION all) /\ UNION all \in SUBSET Nat
  <2>. HIDE DEF all
  <2>. QED BY <1>4, <1>5, FS_UNION
<1>. QED BY <1>1, <1>6

(* The hull of its marks is an interval. *)
LEMMA HullsAreIntervals ==
  ASSUME FlowOK
  PROVE  LET hull == LiveIntervals(Local)
         IN /\ DOMAIN hull \subseteq Local /\ hull \in [DOMAIN hull -> Intervals]
            /\ \A l \in DOMAIN hull : hull[l].start <= hull[l].end
<1>. DEFINE hull == LiveIntervals(Local)
<1>1. /\ DOMAIN hull = {x \in Local \ function.pinned : Marked(x) # {}}
      /\ hull = [l \in DOMAIN hull |-> [start |-> Min(Marked(l)), end |-> Max(Marked(l))]]
  BY DEF LiveIntervals
<1>2. ASSUME NEW l \in DOMAIN hull
      PROVE  /\ Min(Marked(l)) \in Nat /\ Max(Marked(l)) \in Nat
             /\ Min(Marked(l)) <= Max(Marked(l))
  <2>1. Marked(l) \in SUBSET Nat /\ IsFiniteSet(Marked(l)) /\ Marked(l) # {}
    BY <1>1, MarksAreNumbers
  <2>. DEFINE S == Marked(l)
  <2>. HIDE DEF S
  <2>2. S \in SUBSET Nat /\ IsFiniteSet(S) /\ S # {}
    BY <2>1 DEF S
  <2>3. Min(S) \in S /\ \A y \in S : Min(S) <= y
    BY <2>2, Least DEF Min
  <2>4. Max(S) \in S
    BY <2>2, Greatest DEF Max
  <2>5. Min(S) \in Nat /\ Max(S) \in Nat /\ Min(S) <= Max(S)
    BY <2>2, <2>3, <2>4
  <2>. QED BY <2>5 DEF S
<1>. HIDE DEF hull
<1>3. ASSUME NEW l \in DOMAIN hull
      PROVE  hull[l] \in Intervals /\ hull[l].start <= hull[l].end
  <2>1. hull[l] = [start |-> Min(Marked(l)), end |-> Max(Marked(l))]
    BY <1>1
  <2>. QED BY <1>2, <2>1 DEF Intervals
<1>4. DOMAIN hull \subseteq Local
  BY <1>1
<1>5. hull \in [DOMAIN hull -> Intervals]
  BY <1>1, <1>3
<1>. QED BY <1>3, <1>4, <1>5 DEF hull

(* Before the scan there is nothing to share, and from then on there is ScanInv. *)
SharedInv ==
  /\ phase = "flow" => FlowOK /\ ScanInit(0, [l \in {} |-> None])
  /\ phase # "flow" => ScanInv

(* The scan starts from the hulls. *)
LEMMA AllocateIsSound ==
  ASSUME SharedInv, Allocate
  PROVE  SharedInv'
<1>1. /\ phase = "flow" /\ phase' = "scan" /\ registers' = Len(RegisterFile)
      /\ interval' = LiveIntervals(Local) /\ waiting' = DOMAIN interval'
      /\ UNCHANGED <<assigned, busy, active>>
  BY DEF Allocate
<1>2. FlowOK /\ assigned = [l \in Local |-> None] /\ busy = {} /\ active = {}
  BY <1>1 DEF SharedInv, ScanInit
<1>3. /\ DOMAIN interval' \subseteq Local /\ interval' \in [DOMAIN interval' -> Intervals]
      /\ \A l \in DOMAIN interval' : interval'[l].start <= interval'[l].end
  BY <1>1, <1>2, HullsAreIntervals
<1>4. registers' \in Nat
  BY <1>1, FileIsNamed
<1>5. ScanTypeOK'
  BY <1>1, <1>2, <1>3, <1>4 DEF ScanTypeOK, Intervals, Placed
<1>6. BusyIsHeld' /\ WaitingIsAhead'
  BY <1>1, <1>2, <1>3 DEF BusyIsHeld, WaitingIsAhead, Placed
<1>7. NoSharing' /\ SpillsUnderPressure'
  BY <1>1, <1>2, <1>3 DEF NoSharing, SpillsUnderPressure
<1>. QED BY <1>1, <1>5, <1>6, <1>7 DEF SharedInv, ScanInv

(* Every step of a function's compilation and run keeps SharedInv. *)
LEMMA SharedStep ==
  ASSUME SharedInv, [Next]_vars
  PROVE  SharedInv'
<1>1. CASE Analyse
  <2>1. phase = "flow" /\ phase' = phase /\ FlowNext /\ UNCHANGED scanVars
    BY <1>1 DEF Analyse, runVars
  <2>2. FlowOK'
    BY <2>1, FlowKeeps DEF SharedInv
  <2>. QED BY <2>1, <2>2 DEF SharedInv, ScanInit, scanVars
<1>2. CASE Allocate
  BY <1>2, AllocateIsSound
<1>3. CASE Scan
  <2>1. phase = "scan" /\ phase' = phase /\ ScanNext
    BY <1>3 DEF Scan, runVars
  <2>2. ScanInv'
    BY <2>1, ScanStepIsSound DEF SharedInv
  <2>. QED BY <2>1, <2>2 DEF SharedInv
<1>4. CASE Enter \/ Accumulate \/ Execute \/ Call \/ Drop \/ Jump \/ Return
  <2>1. phase \in {"scan", "run"} /\ phase' # "flow" /\ UNCHANGED scanVars
    BY <1>4 DEF Enter, Accumulate, Execute, Call, Drop, Jump, Return, AtStatement
  <2>2. ScanInv'
    BY <2>1, ScanStepIsSound DEF SharedInv
  <2>. QED BY <2>1, <2>2 DEF SharedInv
<1>5. CASE UNCHANGED vars
  <2>1. phase' = phase /\ UNCHANGED <<scanVars, flowVars>>
    BY <1>5 DEF vars, runVars
  <2>2. phase # "flow" => ScanInv'
    BY <2>1, ScanStepIsSound DEF SharedInv
  <2>3. phase = "flow" => FlowOK'
    BY <2>1 DEF SharedInv, FlowOK, Blocks, flowVars
  <2>. QED BY <2>1, <2>2, <2>3 DEF SharedInv, ScanInit, scanVars
<1>. QED BY <1>1, <1>2, <1>3, <1>4, <1>5 DEF Next

(* Before the analysis there is nothing to share. *)
LEMMA SharedInit == Init => SharedInv
<1>. SUFFICES ASSUME Init PROVE SharedInv
  OBVIOUS
<1>1. FlowInit /\ phase = "flow" /\ ScanInit(0, [l \in {} |-> None])
  BY DEF Init
<1>2. function \in Functions /\ Entry \in Blocks
  BY <1>1, CodeAssumption DEF FlowInit, Blocks
<1>3. FlowOK
  BY <1>1, <1>2 DEF FlowInit, FlowOK
<1>. QED BY <1>1, <1>3 DEF SharedInv

(* In every function that is compiled, two locals that hold one register are
   never live at the same position, and a local stays in the frame only where
   registers are short (live_intervals and allocate together): the intervals
   the scan is given are intervals, whatever the function's blocks. *)
THEOREM CompiledFunctionsShareNothing == Spec => [](NoSharing /\ SpillsUnderPressure)
<1>1. SharedInv /\ [Next]_vars => SharedInv'
  BY SharedStep
<1>2. SharedInv => NoSharing /\ SpillsUnderPressure
  <2>1. CASE phase = "flow"
    BY <2>1 DEF SharedInv, ScanInit, NoSharing, SpillsUnderPressure
  <2>2. CASE phase # "flow"
    BY <2>2 DEF SharedInv, ScanInv
  <2>. QED BY <2>1, <2>2
<1>. QED BY <1>1, <1>2, SharedInit, PTL DEF Spec

-----------------------------------------------------------------------------
(* Sequences and what is in them *)

(* What a sequence has is of the set it is over. *)
LEMMA InRange ==
  ASSUME NEW S, NEW s \in Seq(S)
  PROVE  Range(s) \subseteq S /\ \A i \in 1 .. Len(s) : s[i] \in Range(s)
BY DEF Range

(* A sequence has what its front has, and its last. *)
LEMMA RangeOfParts ==
  ASSUME NEW S, NEW s \in Seq(S), s # <<>>
  PROVE  Range(s) = Range(Front(s)) \cup {Last(s)}
<1>1. Len(s) \in Nat \ {0}
  OBVIOUS
<1>2. Front(s) = SubSeq(s, 1, Len(s) - 1)
  BY DEF Front
<1>3. PICK n \in Nat : Len(s) = n + 1
  <2>1. Len(s) - 1 \in Nat /\ Len(s) = Len(s) - 1 + 1
    BY <1>1
  <2>. QED BY <2>1
<1>4. Front(s) = SubSeq(s, 1, n)
  BY <1>2, <1>3
<1>5. Len(SubSeq(s, 1, n)) = n
  BY <1>3
<1>6. \A i \in 1 .. n : SubSeq(s, 1, n)[i] = s[i]
  BY <1>3
<1>7. Range(Front(s)) = {s[i] : i \in 1 .. n}
  <2>1. SubSeq(s, 1, n) \in Seq(S)
    BY <1>3
  <2>2. DOMAIN SubSeq(s, 1, n) = 1 .. n
    BY <1>5, <2>1
  <2>3. Range(SubSeq(s, 1, n)) = {SubSeq(s, 1, n)[i] : i \in 1 .. n}
    BY <2>2 DEF Range
  <2>4. {SubSeq(s, 1, n)[i] : i \in 1 .. n} = {s[i] : i \in 1 .. n}
    BY <1>6, Zenon
  <2>. QED BY <1>4, <2>3, <2>4
<1>8. Range(s) = {s[i] : i \in 1 .. n} \cup {s[n + 1]}
  <2>1. 1 .. n + 1 = (1 .. n) \cup {n + 1}
    OBVIOUS
  <2>2. Range(s) = {s[i] : i \in 1 .. n + 1}
    BY <1>3 DEF Range
  <2>. QED BY <2>1, <2>2
<1>. QED BY <1>3, <1>7, <1>8 DEF Last

(* Appending adds one. *)
LEMMA RangeOfAppend ==
  ASSUME NEW S, NEW s \in Seq(S), NEW x \in S
  PROVE  Append(s, x) \in Seq(S) /\ Range(Append(s, x)) = Range(s) \cup {x}
<1>. DEFINE t == Append(s, x)
<1>1. /\ t \in Seq(S) /\ Len(t) = Len(s) + 1 /\ t[Len(s) + 1] = x
      /\ \A i \in 1 .. Len(s) : t[i] = s[i]
  OBVIOUS
<1>2. \A i \in 1 .. Len(s) + 1 : i \in 1 .. Len(s) \/ i = Len(s) + 1
  OBVIOUS
<1>. HIDE DEF t
<1>3. Range(t) = Range(s) \cup {x}
  BY <1>1, <1>2 DEF Range
<1>. QED BY <1>1, <1>3 DEF t

(* What is not the head is in the tail. *)
LEMMA RangeOfTail ==
  ASSUME NEW S, NEW s \in Seq(S), s # <<>>
  PROVE  Head(s) \in S /\ Tail(s) \in Seq(S) /\ Range(s) = {Head(s)} \cup Range(Tail(s))
<1>1. Len(s) \in Nat \ {0}
  OBVIOUS
<1>2. /\ Tail(s) \in Seq(S) /\ Len(Tail(s)) = Len(s) - 1 /\ Head(s) = s[1]
      /\ \A i \in 1 .. Len(s) - 1 : Tail(s)[i] = s[i + 1]
  BY <1>1
<1>3. \A i \in 1 .. Len(s) : i = 1 \/ i - 1 \in 1 .. Len(s) - 1
  BY <1>1
<1>4. ASSUME NEW i \in 1 .. Len(s), i # 1 PROVE s[i] \in Range(Tail(s))
  <2>1. i - 1 \in 1 .. Len(s) - 1 /\ i - 1 + 1 = i
    BY <1>3, <1>4
  <2>2. Tail(s)[i - 1] = s[i]
    BY <1>2, <2>1
  <2>3. Tail(s)[i - 1] \in Range(Tail(s))
    BY <1>2, <2>1, InRange
  <2>. QED BY <2>2, <2>3
<1>5. Range(s) \subseteq {Head(s)} \cup Range(Tail(s))
  BY <1>2, <1>4 DEF Range
<1>6. Range(Tail(s)) \subseteq Range(s)
  BY <1>2, <1>1 DEF Range
<1>7. Head(s) \in Range(s) /\ Head(s) \in S
  BY <1>1, <1>2 DEF Range
<1>. QED BY <1>2, <1>5, <1>6, <1>7

(* Reversing leaves what there is. *)
LEMMA RangeOfReverse ==
  ASSUME NEW S, NEW s \in Seq(S)
  PROVE  Range(Reverse(s)) = Range(s)
<1>1. /\ Len(Reverse(s)) = Len(s) /\ DOMAIN Reverse(s) = 1 .. Len(s)
      /\ \A i \in 1 .. Len(s) : Reverse(s)[i] = s[Len(s) - i + 1]
  BY DEF Reverse
<1>2. \A i \in 1 .. Len(s) : Len(s) - i + 1 \in 1 .. Len(s) /\ Len(s) - (Len(s) - i + 1) + 1 = i
  OBVIOUS
<1>3. Range(Reverse(s)) \subseteq Range(s)
  BY <1>1, <1>2 DEF Range
<1>4. Range(s) \subseteq Range(Reverse(s))
  <2>. SUFFICES ASSUME NEW i \in 1 .. Len(s) PROVE s[i] \in Range(Reverse(s))
    BY DEF Range
  <2>. DEFINE j == Len(s) - i + 1
  <2>1. j \in 1 .. Len(s) /\ Len(s) - j + 1 = i
    BY <1>2
  <2>. HIDE DEF j
  <2>2. Reverse(s)[j] = s[i]
    BY <1>1, <2>1
  <2>. QED BY <1>1, <2>1, <2>2 DEF Range
<1>. QED BY <1>3, <1>4

-----------------------------------------------------------------------------
(* The analysis of a function *)

Successors(block) == Range(function.blocks[block].successors)

(* Sets of blocks that a run of the function does not leave. *)
IsClosed(C) == Entry \in C /\ \A b \in C : Successors(b) \subseteq C

(* The walk has reached what its blocks lead to, and nothing that no run of
   the function reaches. *)
WalkOK ==
  /\ Entry \in reachable
  /\ reachable = Range(postorder) \cup {top.block : top \in Range(stack)}
  /\ \A b \in Range(postorder) : Successors(b) \subseteq reachable
  /\ \A top \in Range(stack) :
       \A k \in 1 .. Len(function.blocks[top.block].successors) :
         k < top.next => function.blocks[top.block].successors[k] \in reachable
  /\ \A C \in SUBSET Blocks : IsClosed(C) => reachable \subseteq C

IsSettled(block) == liveOut[block] = LiveAfter(block) /\ liveIn[block] = LiveBefore(block)

(* Where a round has changed nothing, what it has been through is settled. *)
RoundOK ==
  /\ sweep \in Seq(Blocks)
  /\ liveIn = [b \in Blocks |-> liveIn[b]] /\ liveOut = [b \in Blocks |-> liveOut[b]]
  /\ stack # <<>> => sweep = <<>> /\ changed
  /\ ~changed => \A b \in Range(postorder) \ Range(sweep) : IsSettled(b)

(* What the analysis leaves. *)
AnalysisOK ==
  /\ FlowOK
  /\ Entry \in Range(postorder)
  /\ \A b \in Range(postorder) : Successors(b) \subseteq Range(postorder) /\ IsSettled(b)
  /\ \A C \in SUBSET Blocks : IsClosed(C) => Range(postorder) \subseteq C

(* What the code of a block is made of. *)
LEMMA TargetsAreBlocks ==
  ASSUME function \in Functions, NEW block \in Blocks
  PROVE  /\ function.blocks[block].successors \in Seq(Blocks)
         /\ function.blocks[block].statements \in Seq(Range(function.blocks[block].statements))
         /\ function.blocks[block].reads \in Seq(Local)
<1>1. function.blocks[block] \in Range(function.blocks)
  BY DEF Blocks, Range
<1>. QED BY <1>1, CodeAssumption DEF Blocks

(* A round of the walk. *)
LEMMA WalkKeeps ==
  ASSUME FlowOK, WalkOK, Walk
  PROVE  WalkOK'
<1>. DEFINE Spots == [block : Blocks, next : Nat \ {0}]
            top == Last(stack)
            targets == function.blocks[top.block].successors
<1>1. /\ UNCHANGED function /\ Blocks' = Blocks
      /\ \A b : Successors(b)' = Successors(b)
      /\ \A C : IsClosed(C)' = IsClosed(C)
  BY DEF Walk, Blocks, Successors, IsClosed
<1>2. stack # <<>> /\ stack \in Seq(Spots) /\ function \in Functions /\ postorder \in Seq(Blocks)
  BY DEF Walk, FlowOK
<1>3. /\ top \in Spots /\ Front(stack) \in Seq(Spots)
      /\ Range(stack) = Range(Front(stack)) \cup {top}
  <2>. HIDE DEF Spots
  <2>. QED BY <1>2, SeqParts, RangeOfParts
<1>4. top.block \in Blocks /\ top.next \in Nat \ {0} /\ top.block \in reachable
  BY <1>3 DEF WalkOK
<1>5. targets \in Seq(Blocks) /\ Successors(top.block) = Range(targets)
  BY <1>2, <1>4, TargetsAreBlocks DEF Successors
<1>6. CASE /\ top.next <= Len(targets)
           /\ LET target == targets[top.next]
                  seen   == Append(Front(stack), [top EXCEPT !.next = @ + 1])
              IN /\ reachable' = reachable \cup {target}
                 /\ stack' = IF target \in reachable THEN seen
                             ELSE Append(seen, [block |-> target, next |-> 1])
           /\ UNCHANGED postorder
  <2>. DEFINE target == targets[top.next]
              onward == [top EXCEPT !.next = @ + 1]
              seen == Append(Front(stack), onward)
              first == [block |-> target, next |-> 1]
  <2>1. top.next \in 1 .. Len(targets)
    BY <1>4, <1>5, <1>6
  <2>2. target \in Blocks /\ target \in Successors(top.block)
    BY <1>5, <2>1, InRange
  <2>3. /\ onward \in Spots /\ onward.block = top.block /\ onward.next = top.next + 1
        /\ first \in Spots /\ first.block = target /\ first.next = 1
    BY <1>3, <2>2
  <2>4. seen \in Seq(Spots) /\ Range(seen) = Range(Front(stack)) \cup {onward}
    <3>. HIDE DEF Spots, onward
    <3>. QED BY <1>3, <2>3, RangeOfAppend
  <2>5. /\ reachable' = reachable \cup {target} /\ postorder' = postorder
        /\ \/ stack' = seen /\ target \in reachable
           \/ stack' = Append(seen, first)
    BY <1>6
  <2>6. \/ Range(stack') = Range(Front(stack)) \cup {onward} /\ target \in reachable
        \/ Range(stack') = Range(Front(stack)) \cup {onward, first}
    <3>1. Range(Append(seen, first)) = Range(seen) \cup {first}
      <4>. HIDE DEF Spots, seen, first
      <4>. QED BY <2>3, <2>4, RangeOfAppend
    <3>. HIDE DEF seen, first, onward, target
    <3>. QED BY <2>4, <2>5, <3>1
  <2>. HIDE DEF seen, first, onward, target, top
  <2>7. reachable' = Range(postorder') \cup {t.block : t \in Range(stack')}
    BY <1>3, <2>3, <2>5, <2>6 DEF WalkOK
  <2>8. ASSUME NEW t \in Range(stack'),
               NEW k \in 1 .. Len(function.blocks[t.block].successors), k < t.next
        PROVE  function.blocks[t.block].successors[k] \in reachable'
    <3>1. CASE t \in Range(stack)
      BY <2>5, <2>8, <3>1 DEF WalkOK
    <3>2. CASE t = onward
      <4>1. k < top.next \/ k = top.next
        BY <1>4, <2>3, <2>8, <3>2
      <4>2. k = top.next => function.blocks[t.block].successors[k] = target
        BY <2>3, <3>2 DEF target
      <4>3. k < top.next => function.blocks[t.block].successors[k] \in reachable
        BY <1>3, <2>3, <3>2 DEF WalkOK
      <4>. QED BY <2>5, <4>1, <4>2, <4>3
    <3>3. CASE t = first
      BY <2>3, <2>8, <3>3
    <3>. QED BY <1>3, <2>6, <3>1, <3>2, <3>3
  <2>9. ASSUME NEW C \in SUBSET Blocks, IsClosed(C) PROVE reachable' \subseteq C
    <3>1. reachable \subseteq C
      BY <2>9 DEF WalkOK
    <3>2. target \in C
      BY <1>4, <2>2, <2>9, <3>1 DEF IsClosed
    <3>. QED BY <2>5, <3>1, <3>2
  <2>. QED BY <1>1, <2>5, <2>7, <2>8, <2>9 DEF WalkOK
<1>7. CASE /\ top.next > Len(targets)
           /\ postorder' = Append(postorder, top.block)
           /\ stack' = Front(stack)
           /\ UNCHANGED reachable
  <2>1. Range(postorder') = Range(postorder) \cup {top.block}
    <3>. HIDE DEF top
    <3>. QED BY <1>2, <1>4, <1>7, RangeOfAppend
  <2>2. reachable' = reachable /\ stack' = Front(stack)
    BY <1>7
  <2>3. Successors(top.block) \subseteq reachable
    <3>1. ASSUME NEW k \in 1 .. Len(targets) PROVE targets[k] \in reachable
      <4>1. k < top.next
        BY <1>4, <1>5, <1>7, <3>1
      <4>. QED BY <1>3, <3>1, <4>1 DEF WalkOK
    <3>. HIDE DEF targets
    <3>. QED BY <1>5, <3>1 DEF Range
  <2>. HIDE DEF top
  <2>4. reachable' = Range(postorder') \cup {t.block : t \in Range(stack')}
    BY <1>3, <2>1, <2>2 DEF WalkOK
  <2>5. \A b \in Range(postorder') : Successors(b) \subseteq reachable
    BY <2>1, <2>3 DEF WalkOK
  <2>. QED BY <1>1, <1>3, <2>2, <2>4, <2>5 DEF WalkOK
<1>. QED BY <1>6, <1>7 DEF Walk

(* A round of the walk or of the data flow. *)
LEMMA RoundKeeps ==
  ASSUME FlowOK, RoundOK, FlowNext
  PROVE  RoundOK'
<1>1. function' = function /\ Blocks' = Blocks
  BY DEF FlowNext, Walk, StartRound, Flow, Blocks
<1>2. CASE Walk
  <2>1. sweep = <<>> /\ changed /\ UNCHANGED <<liveIn, liveOut, sweep, changed>>
    BY <1>2 DEF Walk, RoundOK
  <2>. QED BY <1>1, <2>1 DEF RoundOK
<1>3. CASE StartRound
  <2>1. sweep' = postorder /\ UNCHANGED <<stack, postorder, liveIn, liveOut>> /\ stack = <<>>
    BY <1>3 DEF StartRound
  <2>. QED BY <1>1, <2>1 DEF RoundOK, FlowOK
<1>4. CASE Flow
  <2>. DEFINE block == Head(sweep)
  <2>1. /\ sweep # <<>> /\ sweep' = Tail(sweep) /\ UNCHANGED <<stack, postorder>>
        /\ liveOut' = [liveOut EXCEPT ![block] = LiveAfter(block)]
        /\ liveIn' = [liveIn EXCEPT ![block] = LiveBefore(block)]
        /\ changed' = \/ changed
                      \/ LiveAfter(block) # liveOut[block] \/ LiveBefore(block) # liveIn[block]
    BY <1>4 DEF Flow
  <2>2. sweep \in Seq(Blocks)
    BY DEF RoundOK
  <2>3. /\ block \in Blocks /\ sweep' \in Seq(Blocks)
        /\ Range(sweep) = {block} \cup Range(sweep')
    BY <2>1, <2>2, RangeOfTail
  <2>. HIDE DEF block
  <2>4. stack = <<>>
    BY <2>1 DEF RoundOK
  <2>5. /\ liveIn' = [b \in Blocks |-> liveIn'[b]] /\ liveOut' = [b \in Blocks |-> liveOut'[b]]
    BY <2>1 DEF RoundOK
  <2>6. ASSUME ~changed', NEW b \in Range(postorder) \ Range(sweep')
        PROVE  IsSettled(b)'
    <3>1. ~changed /\ LiveAfter(block) = liveOut[block] /\ LiveBefore(block) = liveIn[block]
      BY <2>1, <2>6
    <3>2. liveIn' = liveIn /\ liveOut' = liveOut
      BY <2>1, <3>1 DEF RoundOK
    <3>3. b # block => IsSettled(b)
      BY <2>3, <2>6, <3>1 DEF RoundOK
    <3>4. IsSettled(b)
      BY <3>1, <3>3 DEF IsSettled
    <3>5. LiveAfter(b)' = LiveAfter(b) /\ LiveBefore(b)' = LiveBefore(b)
      BY <1>1, <3>2 DEF LiveAfter, LiveBefore, LiveFrom
    <3>. QED BY <3>2, <3>4, <3>5 DEF IsSettled
  <2>. QED BY <1>1, <2>1, <2>3, <2>4, <2>5, <2>6 DEF RoundOK
<1>. QED BY <1>2, <1>3, <1>4 DEF FlowNext

(* The walk is not touched by the rest of the analysis. *)
LEMMA WalkLasts ==
  ASSUME WalkOK, UNCHANGED <<function, stack, reachable, postorder>>
  PROVE  WalkOK'
<1>1. /\ Blocks' = Blocks /\ \A b : Successors(b)' = Successors(b)
      /\ \A C : IsClosed(C)' = IsClosed(C)
  BY DEF Blocks, Successors, IsClosed
<1>. QED BY <1>1 DEF WalkOK

(* At the end every block that can be reached is settled. *)
LEMMA AnalysisEnds ==
  ASSUME FlowOK, WalkOK, RoundOK, FlowDone
  PROVE  AnalysisOK
<1>1. stack = <<>> /\ sweep = <<>> /\ ~changed
  BY DEF FlowDone
<1>2. Range(stack) = {} /\ Range(sweep) = {}
  BY <1>1 DEF Range
<1>3. reachable = Range(postorder)
  BY <1>2 DEF WalkOK
<1>4. \A b \in Range(postorder) : IsSettled(b)
  BY <1>1, <1>2 DEF RoundOK
<1>. QED BY <1>3, <1>4 DEF AnalysisOK, WalkOK

(* Nothing of it changes while the function is run. *)
LEMMA AnalysisLasts ==
  ASSUME AnalysisOK, UNCHANGED flowVars
  PROVE  AnalysisOK' /\ \A b : LiveFrom(b)' = LiveFrom(b)
<1>1. UNCHANGED <<function, stack, reachable, postorder, liveIn, liveOut>>
  BY DEF flowVars
<1>2. /\ Blocks' = Blocks /\ \A b : Successors(b)' = Successors(b)
      /\ \A C : IsClosed(C)' = IsClosed(C)
      /\ \A b : LiveFrom(b)' = LiveFrom(b) /\ LiveAfter(b)' = LiveAfter(b)
  BY <1>1 DEF Blocks, Successors, IsClosed, LiveFrom, LiveAfter
<1>3. \A b : IsSettled(b)' = IsSettled(b)
  BY <1>1, <1>2 DEF IsSettled, LiveBefore
<1>4. FlowOK'
  BY <1>1, <1>2 DEF AnalysisOK, FlowOK
<1>. QED BY <1>1, <1>2, <1>3, <1>4 DEF AnalysisOK

-----------------------------------------------------------------------------
(* What is live in a block *)

(* There are the sets that LiveFrom defines from the end of a block. *)
LEMMA SetsExist ==
  ASSUME NEW n \in Nat, NEW code, NEW last
  PROVE  \E live : live = [j \in 1 .. n + 1 |-> IF j = n + 1 THEN last ELSE Through(code[j], live[j + 1])]
<1>. DEFINE IsLive(m, live) ==
              \A j \in n + 1 - m .. n + 1 :
                live[j] = IF j = n + 1 THEN last ELSE Through(code[j], live[j + 1])
            T == {m \in 0 .. n : ~ \E live : IsLive(m, live)}
<1>1. ASSUME T # {} PROVE FALSE
  <2>1. T \in SUBSET Nat
    OBVIOUS
  <2>2. PICK m \in T : \A k \in T : m <= k
    <3>. HIDE DEF T
    <3>. QED BY <1>1, <2>1, Least
  <2>3. m \in 0 .. n /\ ~ \E live : IsLive(m, live)
    OBVIOUS
  <2>4. CASE m = 0
    <3>1. IsLive(m, [j \in {n + 1} |-> last])
      BY <2>4
    <3>. QED BY <2>3, <3>1
  <2>5. CASE m # 0
    <3>1. m - 1 \in 0 .. n /\ ~(m <= m - 1)
      BY <2>3, <2>5
    <3>2. m - 1 \notin T
      BY <2>2, <3>1
    <3>3. PICK short : IsLive(m - 1, short)
      BY <3>1, <3>2
    <3>. DEFINE new == n + 1 - m
                long == [j \in new .. n + 1 |->
                           IF j = new THEN Through(code[new], short[new + 1]) ELSE short[j]]
    <3>4. new \in 1 .. n /\ new + 1 = n + 1 - (m - 1)
      BY <2>3, <2>5
    <3>5. ASSUME NEW j \in new .. n + 1
          PROVE  long[j] = IF j = n + 1 THEN last ELSE Through(code[j], long[j + 1])
      <4>1. CASE j = new
        BY <3>4, <4>1
      <4>2. CASE j # new
        <5>1. j \in new + 1 .. n + 1 /\ j \in Nat
          BY <3>4, <3>5, <4>2
        <5>2. short[j] = IF j = n + 1 THEN last ELSE Through(code[j], short[j + 1])
          BY <3>3, <3>4, <5>1
        <5>3. long[j] = short[j] /\ (j # n + 1 => long[j + 1] = short[j + 1])
          BY <3>4, <5>1, <4>2
        <5>. QED BY <5>2, <5>3
      <4>. QED BY <4>1, <4>2
    <3>6. IsLive(m, long)
      BY <3>5
    <3>. QED BY <2>3, <3>6
  <2>. QED BY <2>4, <2>5
<1>2. PICK live : IsLive(n, live)
  <2>1. n \in 0 .. n /\ n \notin T
    BY <1>1
  <2>. HIDE DEF IsLive
  <2>. QED BY <2>1
<1>. DEFINE full == [j \in 1 .. n + 1 |-> live[j]]
<1>3. full = [j \in 1 .. n + 1 |-> IF j = n + 1 THEN last ELSE Through(code[j], full[j + 1])]
  <2>1. ASSUME NEW j \in 1 .. n + 1
        PROVE  live[j] = IF j = n + 1 THEN last ELSE Through(code[j], full[j + 1])
    <3>1. n + 1 - n = 1
      OBVIOUS
    <3>2. live[j] = IF j = n + 1 THEN last ELSE Through(code[j], live[j + 1])
      BY <1>2, <3>1
    <3>3. j # n + 1 => full[j + 1] = live[j + 1]
      BY <2>1
    <3>. QED BY <3>2, <3>3
  <2>. QED BY <2>1
<1>. QED BY <1>3

(* LiveFrom is what its definition says. *)
LEMMA LiveFromIs ==
  ASSUME NEW block,
         function.blocks[block].statements \in Seq(Range(function.blocks[block].statements))
  PROVE  LET code == function.blocks[block].statements
         IN /\ LiveFrom(block)[Len(code) + 1] =
                 LiveAfter(block) \cup Range(function.blocks[block].reads)
            /\ \A j \in 1 .. Len(code) :
                 LiveFrom(block)[j] = Through(code[j], LiveFrom(block)[j + 1])
<1>. DEFINE code == function.blocks[block].statements
            n == Len(code)
            last == LiveAfter(block) \cup Range(function.blocks[block].reads)
            Is(m, c, l, live) ==
              live = [j \in 1 .. m + 1 |-> IF j = m + 1 THEN l ELSE Through(c[j], live[j + 1])]
            IsLive(live) == Is(n, code, last, live)
<1>1. n \in Nat
  OBVIOUS
<1>2. \E live : IsLive(live)
  <2>1. \A m \in Nat : \A c, l : \E live : Is(m, c, l, live)
    BY SetsExist
  <2>. HIDE DEF Is, n, code, last
  <2>. QED BY <1>1, <2>1
<1>3. LiveFrom(block) = CHOOSE live : IsLive(live)
  BY DEF LiveFrom
<1>. DEFINE live == LiveFrom(block)
<1>4. IsLive(live)
  <2>. HIDE DEF IsLive
  <2>. QED BY <1>2, <1>3
<1>. HIDE DEF live, n, last
<1>5. live[n + 1] = last
  BY <1>1, <1>4
<1>6. ASSUME NEW j \in 1 .. n PROVE live[j] = Through(code[j], live[j + 1])
  <2>1. j \in 1 .. n + 1 /\ j # n + 1
    BY <1>1
  <2>. HIDE DEF code
  <2>. QED BY <1>4, <2>1
<1>. QED BY <1>5, <1>6 DEF live, n, last

-----------------------------------------------------------------------------
(* What is live at once has no register in common *)

(* Where a local is marked. *)
LEMMA MarkedAt ==
  ASSUME FlowOK, NEW i \in 1 .. Len(Order), NEW l
  PROVE  LET b == Order[i]
             code == function.blocks[b].statements
         IN /\ l \in liveIn[b] => Starts[i] \in Marked(l)
            /\ l \in liveOut[b] \cup Range(function.blocks[b].reads) =>
                 Starts[i] + Len(code) \in Marked(l)
            /\ \A j \in 1 .. Len(code) :
                 l \in Range(code[j].reads) \cup {code[j].defs} => Starts[i] + j - 1 \in Marked(l)
<1>. DEFINE of(x) == function.blocks[Order[x]]
            ins(x) == {Starts[x] : y \in liveIn[Order[x]] \cap {l}}
            ends(x) == {Starts[x] + Len(of(x).statements) :
                          y \in (liveOut[Order[x]] \cup Range(of(x).reads)) \cap {l}}
            mentions(x) == {Starts[x] + j - 1 : j \in {k \in DOMAIN of(x).statements :
                     l \in Range(of(x).statements[k].reads) \cup {of(x).statements[k].defs}}}
<1>1. Marked(l) = UNION {ins(x) \cup ends(x) \cup mentions(x) : x \in DOMAIN Order}
  BY DEF Marked
<1>2. /\ i \in DOMAIN Order /\ DOMAIN of(i).statements = 1 .. Len(of(i).statements)
  BY StartsAreNumbers
<1>3. /\ ins(i) \subseteq Marked(l) /\ ends(i) \subseteq Marked(l) /\ mentions(i) \subseteq Marked(l)
  <2>. HIDE DEF ins, ends, mentions
  <2>. QED BY <1>1, <1>2
<1>4. l \in liveIn[Order[i]] => Starts[i] \in ins(i)
  OBVIOUS
<1>5. l \in liveOut[Order[i]] \cup Range(of(i).reads) => Starts[i] + Len(of(i).statements) \in ends(i)
  OBVIOUS
<1>6. \A j \in 1 .. Len(of(i).statements) :
        l \in Range(of(i).statements[j].reads) \cup {of(i).statements[j].defs} =>
          Starts[i] + j - 1 \in mentions(i)
  BY <1>2
<1>. HIDE DEF ins, ends, mentions
<1>. QED BY <1>3, <1>4, <1>5, <1>6

(* A local that is live before an instruction is marked from there on... *)
LEMMA MarkedAfter ==
  ASSUME AnalysisOK, NEW i \in 1 .. Len(Order), Order[i] \in Range(postorder),
         NEW j \in 1 .. Len(function.blocks[Order[i]].statements) + 1,
         NEW l \in LiveFrom(Order[i])[j]
  PROVE  \E p \in Marked(l) : p >= Starts[i] + j - 1
<1>. DEFINE b == Order[i]
            code == function.blocks[b].statements
            n == Len(code)
            T == {k \in j .. n + 1 : l \in LiveFrom(b)[k]}
<1>1. /\ FlowOK /\ Starts[i] \in Nat /\ n \in Nat /\ code \in Seq(Range(code))
      /\ j \in 1 .. n + 1
  BY StartsAreNumbers DEF AnalysisOK
<1>2. /\ LiveFrom(b)[n + 1] = LiveAfter(b) \cup Range(function.blocks[b].reads)
      /\ \A k \in 1 .. n : LiveFrom(b)[k] = Through(code[k], LiveFrom(b)[k + 1])
  BY <1>1, LiveFromIs
<1>3. PICK k \in T : \A m \in T : k >= m
  <2>1. T \in SUBSET (j .. n + 1) /\ j \in T /\ T \in SUBSET Nat
    BY <1>1
  <2>2. IsFiniteSet(j .. n + 1)
    <3>. HIDE DEF n
    <3>1. j \in Int /\ n + 1 \in Int
      BY <1>1
    <3>. QED BY <3>1, FS_Interval
  <2>. HIDE DEF T
  <2>3. IsFiniteSet(T)
    BY <2>1, <2>2, FS_Subset
  <2>. QED BY <2>1, <2>3, Greatest
<1>4. k \in j .. n + 1 /\ l \in LiveFrom(b)[k]
  OBVIOUS
<1>5. CASE k = n + 1
  <2>1. l \in liveOut[b] \cup Range(function.blocks[b].reads)
    BY <1>2, <1>4, <1>5 DEF AnalysisOK, IsSettled
  <2>2. Starts[i] + n \in Marked(l)
    BY <1>1, <2>1, MarkedAt
  <2>. QED BY <1>1, <1>4, <1>5, <2>2
<1>6. CASE k # n + 1
  <2>1. k \in 1 .. n /\ k + 1 \in j .. n + 1 /\ ~(k >= k + 1)
    <3>. HIDE DEF n
    <3>. QED BY <1>1, <1>4, <1>6
  <2>2. l \notin LiveFrom(b)[k + 1]
    BY <1>3, <2>1
  <2>3. l \in Range(code[k].reads)
    BY <1>2, <1>4, <2>1, <2>2 DEF Through
  <2>4. Starts[i] + k - 1 \in Marked(l)
    BY <1>1, <2>1, <2>3, MarkedAt
  <2>5. Starts[i] + k - 1 >= Starts[i] + j - 1
    BY <1>1, <1>4
  <2>. QED BY <2>4, <2>5
<1>. QED BY <1>5, <1>6

(* ... and up to there. *)
LEMMA MarkedBefore ==
  ASSUME AnalysisOK, NEW i \in 1 .. Len(Order), Order[i] \in Range(postorder),
         NEW j \in 1 .. Len(function.blocks[Order[i]].statements) + 1,
         NEW l \in LiveFrom(Order[i])[j]
  PROVE  \E p \in Marked(l) : p <= Starts[i] + j - 1
<1>. DEFINE b == Order[i]
            code == function.blocks[b].statements
            n == Len(code)
            T == {k \in 1 .. j : l \notin LiveFrom(b)[k]}
<1>1. FlowOK /\ Starts[i] \in Nat /\ n \in Nat /\ code \in Seq(Range(code))
  BY StartsAreNumbers DEF AnalysisOK
<1>2. \A k \in 1 .. n : LiveFrom(b)[k] = Through(code[k], LiveFrom(b)[k + 1])
  BY <1>1, LiveFromIs
<1>3. CASE T = {}
  <2>1. l \in LiveFrom(b)[1]
    BY <1>1, <1>3
  <2>2. l \in liveIn[b]
    BY <2>1 DEF AnalysisOK, IsSettled, LiveBefore
  <2>3. Starts[i] \in Marked(l)
    BY <1>1, <2>2, MarkedAt
  <2>. QED BY <1>1, <2>3
<1>4. CASE T # {}
  <2>1. PICK k \in T : \A m \in T : k >= m
    <3>1. T \in SUBSET (1 .. j) /\ T \in SUBSET Nat
      BY <1>1
    <3>2. IsFiniteSet(1 .. j)
      BY <1>1, FS_Interval
    <3>. HIDE DEF T
    <3>3. IsFiniteSet(T)
      BY <3>1, <3>2, FS_Subset
    <3>. QED BY <1>4, <3>1, <3>3, Greatest
  <2>2. k \in 1 .. j /\ l \notin LiveFrom(b)[k]
    OBVIOUS
  <2>3. k # j /\ k \in 1 .. n /\ k + 1 \in 1 .. j /\ ~(k >= k + 1)
    BY <1>1, <2>2
  <2>4. l \in LiveFrom(b)[k + 1]
    BY <2>1, <2>3
  <2>5. l = code[k].defs
    BY <1>2, <2>2, <2>3, <2>4 DEF Through
  <2>6. Starts[i] + k - 1 \in Marked(l)
    BY <1>1, <2>3, <2>5, MarkedAt
  <2>7. Starts[i] + k - 1 <= Starts[i] + j - 1
    BY <1>1, <2>2
  <2>. QED BY <2>6, <2>7
<1>. QED BY <1>3, <1>4

(* An interval has all the marks of its local. *)
LEMMA HullHasMarks ==
  ASSUME FlowOK, NEW l \in DOMAIN LiveIntervals(Local), NEW p \in Marked(l)
  PROVE  LiveIntervals(Local)[l].start <= p /\ p <= LiveIntervals(Local)[l].end
<1>. DEFINE S == Marked(l)
<1>1. S \in SUBSET Nat /\ IsFiniteSet(S) /\ p \in S
  BY MarksAreNumbers
<1>2. LiveIntervals(Local)[l] = [start |-> Min(S), end |-> Max(S)]
  BY DEF LiveIntervals
<1>. HIDE DEF S
<1>3. Min(S) <= p
  BY <1>1, Least DEF Min
<1>4. Max(S) >= p
  BY <1>1, Greatest DEF Max
<1>5. Max(S) \in S
  BY <1>1, Greatest DEF Max
<1>. QED BY <1>1, <1>2, <1>3, <1>4, <1>5

(* A local that holds a register has an interval. *)
HasInterval == \A l \in Local : assigned[l] # None => l \in DOMAIN interval

AllocatedOK ==
  /\ AnalysisOK /\ ScanTypeOK /\ NoSharing /\ HasInterval
  /\ interval = LiveIntervals(Local)

(* What an instruction writes is in no register that holds a local which is
   live after it. *)
LEMMA WrittenIsApart ==
  ASSUME AllocatedOK, NEW b \in Range(postorder),
         NEW j \in 1 .. Len(function.blocks[b].statements),
         NEW w \in Local, NEW l \in Local, l # w,
         LET i == function.blocks[b].statements[j]
         IN w \in Range(i.reads) \cup {i.defs} /\ l # i.defs,
         l \in LiveFrom(b)[j + 1], assigned[w] # None
  PROVE  assigned[l] # assigned[w]
<1>. SUFFICES ASSUME assigned[l] = assigned[w] PROVE FALSE
  OBVIOUS
<1>1. w \in DOMAIN interval /\ l \in DOMAIN interval /\ AnalysisOK /\ FlowOK
  BY DEF AllocatedOK, HasInterval, AnalysisOK
<1>2. b \in Range(Order) /\ Order \in Seq(Blocks)
  BY <1>1, RangeOfReverse, StartsAreNumbers DEF Order, FlowOK
<1>3. PICK i \in 1 .. Len(Order) : b = Order[i]
  BY <1>2 DEF Range
<1>. DEFINE code == function.blocks[b].statements
            p == Starts[i] + j - 1
<1>4. Starts[i] \in Nat /\ code \in Seq(Range(code)) /\ p \in Nat
  BY <1>1, <1>3, StartsAreNumbers
<1>5. p \in Marked(w)
  BY <1>1, <1>3, MarkedAt
<1>6. l \in LiveFrom(b)[j]
  <2>1. LiveFrom(b)[j] = Through(code[j], LiveFrom(b)[j + 1])
    BY <1>4, LiveFromIs
  <2>. QED BY <2>1 DEF Through
<1>7. PICK q \in Marked(l) : q <= p
  <2>1. j \in 1 .. Len(code) + 1
    BY <1>4
  <2>. QED BY <1>1, <1>3, <1>6, <2>1, MarkedBefore
<1>8. PICK r \in Marked(l) : r >= p
  <2>1. j \in 1 .. Len(code) + 1
    BY <1>4
  <2>. QED BY <1>1, <1>3, <1>6, <2>1, MarkedAfter
<1>. HIDE DEF p
<1>9. /\ interval[w].start <= p /\ p <= interval[w].end
      /\ interval[l].start <= q /\ r <= interval[l].end
  BY <1>1, <1>5, HullHasMarks DEF AllocatedOK
<1>10. q \in Nat /\ r \in Nat
  BY <1>1, MarksAreNumbers
<1>11. /\ interval[w].start \in Nat /\ interval[w].end \in Nat
       /\ interval[l].start \in Nat /\ interval[l].end \in Nat
  BY <1>1 DEF AllocatedOK, ScanTypeOK, Intervals
<1>12. \A x, y, z \in Nat : x <= y /\ y <= z => x <= z
  OBVIOUS
<1>13. Overlap(w, l)
  <2>1. p \in Nat /\ p <= r
    BY <1>4, <1>8, <1>10
  <2>2. interval[l].start <= p
    BY <1>7, <1>9, <1>10, <1>11, <1>12, <2>1, Zenon
  <2>3. p <= interval[l].end
    BY <1>9, <1>10, <1>11, <1>12, <2>1, Zenon
  <2>4. interval[l].start <= interval[w].end
    BY <1>9, <1>11, <1>12, <2>1, <2>2, Zenon
  <2>5. interval[w].start <= interval[l].end
    BY <1>9, <1>11, <1>12, <2>1, <2>3, Zenon
  <2>. QED BY <2>4, <2>5 DEF Overlap
<1>. QED BY <1>1, <1>13 DEF AllocatedOK, NoSharing

(* Nor do two locals that are live where the function is entered. *)
LEMMA EntryIsApart ==
  ASSUME AllocatedOK, NEW w \in Local, NEW l \in Local, l # w,
         w \in liveIn[Entry], l \in liveIn[Entry], assigned[w] # None
  PROVE  assigned[l] # assigned[w]
<1>. SUFFICES ASSUME assigned[l] = assigned[w] PROVE FALSE
  OBVIOUS
<1>1. w \in DOMAIN interval /\ l \in DOMAIN interval /\ AnalysisOK /\ FlowOK
  BY DEF AllocatedOK, HasInterval, AnalysisOK
<1>2. Entry \in Range(Order) /\ Order \in Seq(Blocks)
  BY <1>1, RangeOfReverse, StartsAreNumbers DEF Order, FlowOK, AnalysisOK
<1>3. PICK i \in 1 .. Len(Order) : Entry = Order[i]
  BY <1>2 DEF Range
<1>. DEFINE p == Starts[i]
<1>4. p \in Nat
  BY <1>1, StartsAreNumbers
<1>5. p \in Marked(w) /\ p \in Marked(l)
  BY <1>1, <1>3, MarkedAt
<1>. HIDE DEF p
<1>6. /\ interval[w].start <= p /\ p <= interval[w].end
      /\ interval[l].start <= p /\ p <= interval[l].end
  BY <1>1, <1>5, HullHasMarks DEF AllocatedOK
<1>7. /\ interval[w].start \in Nat /\ interval[w].end \in Nat
      /\ interval[l].start \in Nat /\ interval[l].end \in Nat
  BY <1>1 DEF AllocatedOK, ScanTypeOK, Intervals
<1>8. Overlap(w, l)
  BY <1>4, <1>6, <1>7 DEF Overlap
<1>. QED BY <1>1, <1>8 DEF AllocatedOK, NoSharing

-----------------------------------------------------------------------------
(* What is read is what was written: the inductive invariant *)

(* What the rest of the function reads before it writes it.  Between the two
   halves of an operation in place that is its right operand, and not its
   destination. *)
Live ==
  IF half THEN (LiveFrom(pc.block)[pc.at + 1] \ {Statement.defs}) \cup {Statement.reads[2]}
  ELSE LiveFrom(pc.block)[pc.at]

Sees(l) == truth[l] # None => Held(l) = truth[l]

RunOK ==
  /\ pc.block \in Range(postorder) /\ pc.at \in 1 .. Len(Here.statements) + 1
  /\ half \in BOOLEAN /\ (half => AtStatement /\ InPlace(Statement))
  /\ \A l \in Live \cap Local : Sees(l)

ReadInv ==
  /\ truth = [l \in Local |-> truth[l]]
  /\ phase = "flow" => WalkOK /\ RoundOK
  /\ phase # "flow" => AnalysisOK /\ HasInterval /\ interval = LiveIntervals(Local)
  /\ phase \in {"flow", "scan"} => half = FALSE
  /\ phase = "run" => RunOK

CompiledInv == KeepInv /\ SharedInv /\ ReadInv

(* After the analysis. *)
LEMMA IsAllocated ==
  ASSUME CompiledInv, phase # "flow"
  PROVE  AllocatedOK /\ AssignedOK /\ function \in Functions
BY DEF CompiledInv, KeepInv, SharedInv, ReadInv, AllocatedOK, ScanInv

(* The statement that is run, and what is live around it. *)
LEMMA StatementIs ==
  ASSUME AnalysisOK, NEW b \in Range(postorder),
         NEW j \in 1 .. Len(function.blocks[b].statements)
  PROVE  LET i == function.blocks[b].statements[j]
         IN /\ i.reads \in Seq(Local) /\ i.defs \in Local \cup {Nothing}
            /\ i.kind \in {"plain", "binary", "call"} => i.defs \in Local
            /\ i.kind = "binary" => Len(i.reads) = 2
            /\ i.kind = "drop" => i.defs = Nothing /\ Len(i.reads) = 1
            /\ LiveFrom(b)[j] = Through(i, LiveFrom(b)[j + 1])
            /\ i \in Range(function.blocks[b].statements)
            /\ function.blocks[b] \in Range(function.blocks)
<1>. DEFINE code == function.blocks[b].statements
<1>1. b \in Blocks /\ function \in Functions
  BY InRange DEF AnalysisOK, FlowOK
<1>2. code \in Seq(Range(code))
  BY <1>1, TargetsAreBlocks
<1>3. code[j] \in Range(code)
  BY <1>2 DEF Range
<1>4. function.blocks[b] \in Range(function.blocks)
  BY <1>1 DEF Blocks, Range
<1>5. LiveFrom(b)[j] = Through(code[j], LiveFrom(b)[j + 1])
  BY <1>2, LiveFromIs
<1>6. /\ code[j].reads \in Seq(Local)
      /\ code[j].defs \in (Local \ function.params) \cup {Nothing}
      /\ code[j].kind \in {"plain", "binary", "call"} => code[j].defs # Nothing
      /\ code[j].kind = "binary" => Len(code[j].reads) = 2
      /\ code[j].kind = "drop" => code[j].defs = Nothing /\ Len(code[j].reads) = 1
  BY <1>1, <1>3, <1>4, CodeAssumption
<1>. QED BY <1>3, <1>4, <1>5, <1>6

(* What the end of a block reads, and what its successors do, is live there. *)
LEMMA EndIs ==
  ASSUME AnalysisOK, NEW b \in Range(postorder)
  PROVE  /\ Range(function.blocks[b].reads) \subseteq Local
         /\ LiveFrom(b)[Len(function.blocks[b].statements) + 1]
              = LiveAfter(b) \cup Range(function.blocks[b].reads)
         /\ \A target \in Successors(b) :
              target \in Range(postorder) /\ LiveFrom(target)[1] \subseteq LiveAfter(b)
<1>1. b \in Blocks /\ function \in Functions
  BY InRange DEF AnalysisOK, FlowOK
<1>2. /\ function.blocks[b].reads \in Seq(Local)
      /\ function.blocks[b].statements \in Seq(Range(function.blocks[b].statements))
  BY <1>1, TargetsAreBlocks
<1>3. ASSUME NEW target \in Successors(b)
      PROVE  target \in Range(postorder) /\ LiveFrom(target)[1] \subseteq LiveAfter(b)
  <2>1. target \in Range(postorder)
    BY DEF AnalysisOK
  <2>2. LiveFrom(target)[1] = liveIn[target]
    BY <2>1 DEF AnalysisOK, IsSettled, LiveBefore
  <2>. QED BY <2>1, <2>2 DEF LiveAfter, Successors
<1>4. Range(function.blocks[b].reads) \subseteq Local
  BY <1>2, InRange
<1>. QED BY <1>2, <1>3, <1>4, LiveFromIs

(* No two locals have one slot of the frame. *)
LEMMA SlotsDiffer ==
  ASSUME NEW l \in InFrame, NEW k \in InFrame, Slot(l) = Slot(k)
  PROVE  l = k
<1>1. InFrame \in SUBSET Nat /\ IsFiniteSet(InFrame)
  <2>1. InFrame \in SUBSET Local
    BY DEF InFrame
  <2>. QED BY <2>1, FS_Subset
<1>2. \A x \in InFrame : Slot(x) \in Nat
  <2>1. IsFiniteSet(InFrame) /\ \A x \in InFrame : {y \in InFrame : y < x} \in SUBSET InFrame
    BY <1>1
  <2>2. \A x \in InFrame : IsFiniteSet({y \in InFrame : y < x})
    BY <2>1, FS_Subset
  <2>. QED BY <2>2, FS_CardinalityType DEF Slot
<1>3. \A x, z \in InFrame : x < z => Slot(x) < Slot(z)
  BY <1>1, Rank DEF Slot
<1>4. ~(l < k) /\ ~(k < l)
  BY <1>2, <1>3
<1>. QED BY <1>1, <1>4

(* Where the locals are, seen from the next state. *)
LEMMA PlacesLast ==
  ASSUME UNCHANGED <<assigned, function>>
  PROVE  /\ InFrame' = InFrame /\ \A l : Slot(l)' = Slot(l)
         /\ \A r : Name(r)' = Name(r)
         /\ \A l : Held(l)' = IF assigned[l] = None THEN frame'[Slot(l)]
                              ELSE register'[Name(assigned[l])]
<1>1. InFrame' = InFrame /\ RegisterFile' = RegisterFile
  BY DEF InFrame, RegisterFile, calls_something
<1>2. /\ \A l : Slot(l)' = Slot(l) 
      /\ \A r : Name(r)' = Name(r)
  BY <1>1 DEF Slot, Name
<1>. QED BY <1>1, <1>2 DEF Held

(* A local that is written holds what was written, and one that is elsewhere
   what it held. *)
LEMMA PutHolds ==
  ASSUME AssignedOK, FrameKeeps, UNCHANGED <<assigned, function>>,
         register = [n \in Names |-> register[n]],
         NEW w \in Local, NEW value, Put(w, value)
  PROVE  /\ Held(w)' = value
         /\ \A l \in Local : l # w /\ (assigned[w] # None => assigned[l] # assigned[w]) =>
              Held(l)' = Held(l)
<1>. DEFINE slots == 0 .. Cardinality(InFrame) + Cardinality(Saved) - 1
<1>1. CASE assigned[w] = None
  <2>1. w \in InFrame /\ frame' = [frame EXCEPT ![Slot(w)] = value] /\ register' = register
    BY <1>1 DEF Put, InFrame
  <2>2. Slot(w) \in slots /\ frame = [s \in slots |-> frame[s]]
    BY <2>1, Layout DEF FrameKeeps
  <2>3. frame'[Slot(w)] = value
    BY <2>1, <2>2
  <2>4. ASSUME NEW l \in Local, l # w PROVE Held(l)' = Held(l)
    <3>1. l \in InFrame => Slot(l) # Slot(w) /\ Slot(l) \in slots
      BY <2>1, <2>4, SlotsDiffer, Layout
    <3>2. l \in InFrame => frame'[Slot(l)] = frame[Slot(l)]
      BY <2>1, <2>2, <3>1
    <3>. QED BY <2>1, <3>2, PlacesLast DEF Held, InFrame
  <2>. QED BY <1>1, <2>3, <2>4, PlacesLast
<1>2. CASE assigned[w] # None
  <2>1. frame' = frame /\ register' = [register EXCEPT ![Name(assigned[w])] = value]
    BY <1>2 DEF Put
  <2>2. assigned[w] \in Register /\ Name(assigned[w]) \in Names
    BY <1>2, RegistersAreNamed DEF AssignedOK
  <2>3. register'[Name(assigned[w])] = value
    BY <2>1, <2>2
  <2>4. ASSUME NEW l \in Local, assigned[l] # assigned[w] PROVE Held(l)' = Held(l)
    <3>1. assigned[l] # None =>
            assigned[l] \in Register /\ Name(assigned[l]) # Name(assigned[w])
      BY <2>2, <2>4, RegistersAreNamed DEF AssignedOK
    <3>2. assigned[l] # None => register'[Name(assigned[l])] = register[Name(assigned[l])]
      BY <2>1, <3>1
    <3>. QED BY <2>1, <3>2, PlacesLast DEF Held
  <2>. QED BY <1>2, <2>3, <2>4, PlacesLast
<1>. QED BY <1>1, <1>2

(* A function that calls holds nothing in the registers a call destroys. *)
LEMMA CallHolds ==
  ASSUME AssignedOK, FrameKeeps, UNCHANGED <<assigned, function>>, calls_something(function),
         register = [n \in Names |-> register[n]], NEW w \in Local, NEW value,
         register' = [n \in Names |->
           IF w \notin InFrame /\ Name(assigned[w]) = n THEN value
           ELSE IF n \in Range(Volatile) THEN Junk ELSE register[n]],
         frame' = IF w \in InFrame THEN [frame EXCEPT ![Slot(w)] = value] ELSE frame
  PROVE  /\ Held(w)' = value
         /\ \A l \in Local : l # w /\ (assigned[w] # None => assigned[l] # assigned[w]) =>
              Held(l)' = Held(l)
<1>. DEFINE slots == 0 .. Cardinality(InFrame) + Cardinality(Saved) - 1
<1>1. \A l \in InFrame : Slot(l) \in slots /\ frame = [s \in slots |-> frame[s]]
  BY Layout DEF FrameKeeps
<1>2. \A l \in Local : l \notin InFrame => assigned[l] \in Register /\ Name(assigned[l]) \in Names
  BY RegistersAreNamed DEF AssignedOK, InFrame
<1>3. ASSUME NEW l \in Local, l \notin InFrame PROVE Name(assigned[l]) \notin Range(Volatile)
  <2>1. VolatileCount = 0
    BY DEF VolatileCount
  <2>2. assigned[l] \in Nat
    BY <1>2, <1>3, RegistersAreNamed
  <2>3. assigned[l] >= VolatileCount
    BY <2>1, <2>2
  <2>4. Name(assigned[l]) \in Range(Preserved)
    BY <1>2, <1>3, <2>3, RegistersAreNamed
  <2>. QED BY <2>4, PreservedIsNotVolatile
<1>4. Held(w)' = value
  <2>1. CASE w \in InFrame
    <3>1. frame'[Slot(w)] = value
      BY <1>1, <2>1
    <3>. QED BY <2>1, <3>1, PlacesLast DEF InFrame
  <2>2. CASE w \notin InFrame
    <3>1. register'[Name(assigned[w])] = value
      BY <1>2, <2>2
    <3>. QED BY <2>2, <3>1, PlacesLast DEF InFrame
  <2>. QED BY <2>1, <2>2
<1>5. ASSUME NEW l \in Local, l # w, assigned[w] # None => assigned[l] # assigned[w]
      PROVE  Held(l)' = Held(l)
  <2>1. CASE l \in InFrame
    <3>1. w \in InFrame => Slot(l) # Slot(w)
      BY <1>5, <2>1, SlotsDiffer
    <3>2. frame'[Slot(l)] = frame[Slot(l)]
      BY <1>1, <2>1, <3>1
    <3>. QED BY <2>1, <3>2, PlacesLast DEF Held, InFrame
  <2>2. CASE l \notin InFrame
    <3>1. w \notin InFrame => Name(assigned[w]) # Name(assigned[l])
      <4>1. w \notin InFrame => assigned[w] # None
        BY DEF InFrame
      <4>. QED BY <1>2, <1>5, <2>2, <4>1, RegistersAreNamed
    <3>2. register'[Name(assigned[l])] = register[Name(assigned[l])]
      BY <1>2, <1>3, <2>2, <3>1
    <3>. QED BY <2>2, <3>2, PlacesLast DEF Held, InFrame
  <2>. QED BY <2>1, <2>2
<1>. QED BY <1>4, <1>5

-----------------------------------------------------------------------------
(* The steps of the compilation *)

(* The walk starts at the entry, and nothing is known of any block. *)
LEMMA ReadInit == Init => ReadInv
<1>. SUFFICES ASSUME Init PROVE ReadInv
  OBVIOUS
<1>1. /\ FlowInit /\ phase = "flow" /\ half = FALSE /\ truth = [l \in Local |-> None]
  BY DEF Init
<1>2. /\ stack = <<[block |-> Entry, next |-> 1]>> /\ postorder = <<>> /\ reachable = {Entry}
      /\ sweep = <<>> /\ changed = TRUE
      /\ liveIn = [b \in Blocks |-> {}] /\ liveOut = [b \in Blocks |-> {}]
  BY <1>1 DEF FlowInit
<1>3. Range(stack) = {[block |-> Entry, next |-> 1]} /\ Range(postorder) = {}
  BY <1>2 DEF Range
<1>4. WalkOK
  <2>1. \A C \in SUBSET Blocks : IsClosed(C) => reachable \subseteq C
    BY <1>2 DEF IsClosed
  <2>2. \A top \in Range(stack) : top.block = Entry /\ top.next = 1
    BY <1>3
  <2>3. \A top \in Range(stack) :
          \A k \in 1 .. Len(function.blocks[top.block].successors) :
            k < top.next => function.blocks[top.block].successors[k] \in reachable
    BY <2>2
  <2>4. {top.block : top \in Range(stack)} = {Entry}
    BY <1>3
  <2>. QED BY <1>2, <1>3, <2>1, <2>3, <2>4 DEF WalkOK
<1>5. RoundOK
  BY <1>2, <1>3 DEF RoundOK
<1>. QED BY <1>1, <1>4, <1>5 DEF ReadInv

(* A step of the analysis: the walk, or a round of the data flow. *)
LEMMA AnalyseReads ==
  ASSUME CompiledInv, Analyse
  PROVE  ReadInv'
<1>1. /\ phase = "flow" /\ FlowNext /\ phase' = phase /\ half' = half /\ truth' = truth
  BY DEF Analyse, runVars
<1>2. FlowOK /\ WalkOK /\ RoundOK /\ half = FALSE /\ truth = [l \in Local |-> truth[l]]
  BY <1>1 DEF CompiledInv, SharedInv, ReadInv
<1>3. RoundOK'
  BY <1>1, <1>2, RoundKeeps
<1>4. WalkOK'
  <2>1. CASE Walk
    BY <1>2, <2>1, WalkKeeps
  <2>2. CASE StartRound \/ Flow
    <3>1. UNCHANGED <<function, stack, reachable, postorder>>
      BY <2>2 DEF StartRound, Flow
    <3>. QED BY <1>2, <3>1, WalkLasts
  <2>. QED BY <1>1, <2>1, <2>2 DEF FlowNext
<1>. QED BY <1>1, <1>2, <1>3, <1>4 DEF ReadInv

(* The hulls do not change with the allocation. *)
LEMMA HullsLast ==
  ASSUME UNCHANGED flowVars
  PROVE  LiveIntervals(Local)' = LiveIntervals(Local)
BY DEF flowVars, LiveIntervals, Marked, Starts, Order

(* The hulls are those of the analysis, and nothing has a register yet. *)
LEMMA AllocateReads ==
  ASSUME CompiledInv, Allocate
  PROVE  ReadInv'
<1>1. /\ phase = "flow" /\ FlowDone /\ phase' = "scan" /\ interval' = LiveIntervals(Local)
      /\ UNCHANGED flowVars /\ UNCHANGED <<assigned, half, truth>>
  BY DEF Allocate
<1>2. /\ FlowOK /\ WalkOK /\ RoundOK /\ half = FALSE /\ truth = [l \in Local |-> truth[l]]
      /\ assigned = [l \in Local |-> None]
  BY <1>1 DEF CompiledInv, SharedInv, ReadInv, ScanInit
<1>3. AnalysisOK
  BY <1>1, <1>2, AnalysisEnds
<1>4. AnalysisOK'
  BY <1>1, <1>3, AnalysisLasts
<1>5. LiveIntervals(Local)' = LiveIntervals(Local)
  BY <1>1, HullsLast
<1>6. HasInterval'
  BY <1>1, <1>2 DEF HasInterval
<1>. QED BY <1>1, <1>2, <1>4, <1>5, <1>6 DEF ReadInv

(* Only a local that was waiting is given a register. *)
LEMMA ScanReads ==
  ASSUME CompiledInv, Scan
  PROVE  ReadInv'
<1>1. /\ phase = "scan" /\ ScanNext /\ UNCHANGED flowVars /\ UNCHANGED <<phase, half, truth>>
  BY DEF Scan, runVars
<1>2. /\ AnalysisOK /\ HasInterval /\ interval = LiveIntervals(Local) /\ ScanTypeOK
      /\ half = FALSE /\ truth = [l \in Local |-> truth[l]]
  BY <1>1 DEF CompiledInv, SharedInv, ReadInv, ScanInv
<1>3. PICK l \in Local : Place(l)
  BY <1>1 DEF ScanNext
<1>4. l \in DOMAIN interval /\ interval' = interval
  BY <1>2, <1>3 DEF Place, ScanTypeOK
<1>5. HasInterval'
  <2>1. \A k \in Local : assigned'[k] # None => assigned[k] # None \/ k = l
    <3>1. assigned \in [Local -> Register \cup {None}]
      BY <1>2 DEF ScanTypeOK
    <3>2. CASE TakeFree(l)
      BY <3>1, <3>2 DEF TakeFree
    <3>3. CASE Evict(l)
      BY <3>1, <3>3 DEF Evict
    <3>4. CASE StayInFrame(l)
      BY <3>4 DEF StayInFrame
    <3>. QED BY <1>3, <3>2, <3>3, <3>4 DEF Place
  <2>. QED BY <1>2, <1>4, <2>1 DEF HasInterval
<1>6. AnalysisOK'
  BY <1>1, <1>2, AnalysisLasts
<1>7. LiveIntervals(Local)' = LiveIntervals(Local)
  BY <1>1, HullsLast
<1>. QED BY <1>1, <1>2, <1>4, <1>5, <1>6, <1>7 DEF ReadInv

(* A local that no instruction of a block writes, and that is not live where
   the block starts, is live nowhere in it. *)
LEMMA StaysDead ==
  ASSUME AnalysisOK, NEW b \in Range(postorder), NEW w, w \notin LiveFrom(b)[1],
         \A j \in 1 .. Len(function.blocks[b].statements) :
           function.blocks[b].statements[j].defs # w
  PROVE  \A j \in 1 .. Len(function.blocks[b].statements) + 1 : w \notin LiveFrom(b)[j]
<1>. DEFINE code == function.blocks[b].statements
            n == Len(code)
            T == {j \in 1 .. n + 1 : w \in LiveFrom(b)[j]}
<1>1. code \in Seq(Range(code))
  BY InRange, TargetsAreBlocks DEF AnalysisOK, FlowOK
<1>2. n \in Nat /\ \A j \in 1 .. n : LiveFrom(b)[j] = Through(code[j], LiveFrom(b)[j + 1])
  BY <1>1, LiveFromIs
<1>3. SUFFICES ASSUME T # {} PROVE FALSE
  OBVIOUS
<1>4. T \in SUBSET Nat
  BY <1>2
<1>. HIDE DEF n, code
<1>5. PICK k \in T : \A m \in T : k <= m
  <2>. HIDE DEF T
  <2>. QED BY <1>3, <1>4, Least
<1>6. k \in 1 .. n + 1 /\ w \in LiveFrom(b)[k]
  OBVIOUS
<1>7. k # 1
  BY <1>6
<1>8. k - 1 \in 1 .. n /\ (k - 1) + 1 = k /\ k - 1 \in 1 .. n + 1 /\ ~(k <= k - 1)
  BY <1>2, <1>6, <1>7
<1>9. LiveFrom(b)[k - 1] = Through(code[k - 1], LiveFrom(b)[k])
  BY <1>2, <1>8
<1>10. code[k - 1].defs # w
  BY <1>8 DEF n, code
<1>11. w \in LiveFrom(b)[k - 1]
  BY <1>6, <1>9, <1>10 DEF Through
<1>. QED BY <1>5, <1>8, <1>11

(* Parameters are not written, so one that has a register is live where the
   function is entered. *)
LEMMA ParametersEnter ==
  ASSUME AllocatedOK, NEW w \in function.params, assigned[w] # None
  PROVE  w \in Local /\ w \in liveIn[Entry]
<1>. DEFINE code(b) == function.blocks[b].statements
            C == {b \in Range(postorder) : w \notin liveIn[b]}
<1>1. /\ AnalysisOK /\ FlowOK /\ function \in Functions /\ HasInterval
      /\ interval = LiveIntervals(Local)
  BY DEF AllocatedOK, AnalysisOK, FlowOK
<1>2. w \in Local
  BY <1>1, CodeAssumption
<1>3. Marked(w) # {}
  BY <1>1, <1>2 DEF HasInterval, LiveIntervals
<1>4. SUFFICES ASSUME w \notin liveIn[Entry] PROVE FALSE
  BY <1>2
<1>5. Range(postorder) \subseteq Blocks
  BY <1>1, InRange DEF FlowOK
<1>6. \A b \in Range(postorder) :
        /\ function.blocks[b] \in Range(function.blocks) /\ code(b) \in Seq(Range(code(b)))
        /\ \A j \in 1 .. Len(code(b)) : code(b)[j] \in Range(code(b)) /\ code(b)[j].defs # w
  <2>. SUFFICES ASSUME NEW b \in Range(postorder)
                PROVE  /\ function.blocks[b] \in Range(function.blocks)
                       /\ code(b) \in Seq(Range(code(b)))
                       /\ \A j \in 1 .. Len(code(b)) :
                            code(b)[j] \in Range(code(b)) /\ code(b)[j].defs # w
    OBVIOUS
  <2>1. function.blocks[b] \in Range(function.blocks) /\ code(b) \in Seq(Range(code(b)))
    BY <1>1, <1>5, TargetsAreBlocks DEF Blocks, Range
  <2>2. \A i \in Range(code(b)) : i.defs \in (Local \ function.params) \cup {Nothing}
    BY <1>1, <2>1, CodeAssumption
  <2>3. \A i \in Range(code(b)) : i.defs # w
    BY <1>2, <2>2, CodeAssumption
  <2>4. \A j \in 1 .. Len(code(b)) : code(b)[j] \in Range(code(b))
    BY <2>1 DEF Range
  <2>. QED BY <2>1, <2>3, <2>4
<1>7. ASSUME NEW b \in C
      PROVE  /\ w \notin LiveAfter(b) /\ w \notin Range(function.blocks[b].reads)
             /\ \A j \in 1 .. Len(code(b)) : w \notin Range(code(b)[j].reads)
  <2>1. LiveFrom(b)[1] = liveIn[b]
    BY <1>1 DEF AnalysisOK, IsSettled, LiveBefore
  <2>2. \A j \in 1 .. Len(code(b)) + 1 : w \notin LiveFrom(b)[j]
    BY <1>1, <1>6, <2>1, StaysDead
  <2>3. Len(code(b)) \in Nat
    BY <1>6
  <2>4. w \notin LiveFrom(b)[Len(code(b)) + 1]
    BY <2>2, <2>3
  <2>5. /\ LiveFrom(b)[Len(code(b)) + 1] = LiveAfter(b) \cup Range(function.blocks[b].reads)
        /\ \A j \in 1 .. Len(code(b)) : LiveFrom(b)[j] = Through(code(b)[j], LiveFrom(b)[j + 1])
    BY <1>6, LiveFromIs
  <2>6. ASSUME NEW j \in 1 .. Len(code(b)) PROVE w \notin Range(code(b)[j].reads)
    <3>1. j \in 1 .. Len(code(b)) + 1
      BY <2>3
    <3>2. w \notin LiveFrom(b)[j]
      BY <2>2, <3>1
    <3>3. LiveFrom(b)[j] = Through(code(b)[j], LiveFrom(b)[j + 1])
      BY <2>5
    <3>. HIDE DEF code
    <3>. QED BY <3>2, <3>3 DEF Through
  <2>7. w \notin LiveAfter(b) /\ w \notin Range(function.blocks[b].reads)
    BY <2>4, <2>5
  <2>. QED BY <2>6, <2>7
<1>8. IsClosed(C)
  <2>1. Entry \in C
    BY <1>1, <1>4 DEF AnalysisOK
  <2>2. ASSUME NEW b \in C, NEW target \in Successors(b) PROVE target \in C
    <3>1. b \in Range(postorder)
      BY <2>2
    <3>2. target \in Range(postorder)
      BY <1>1, <2>2, <3>1 DEF AnalysisOK
    <3>3. liveIn[target] \subseteq LiveAfter(b)
      BY <2>2 DEF LiveAfter, Successors
    <3>. QED BY <1>7, <3>2, <3>3
  <2>. QED BY <2>1, <2>2 DEF IsClosed
<1>9. Range(postorder) \subseteq C
  <2>1. C \in SUBSET Blocks
    BY <1>5
  <2>. QED BY <1>1, <1>8, <2>1 DEF AnalysisOK
<1>10. \A x \in DOMAIN Order : Order[x] \in C /\ w \notin liveIn[Order[x]] /\ w \notin liveOut[Order[x]]
  <2>1. Range(Order) = Range(postorder) 
    BY <1>1, RangeOfReverse DEF Order, FlowOK
  <2>2. \A x \in DOMAIN Order : Order[x] \in Range(postorder)
    BY <2>1 DEF Range
  <2>3. \A b \in Range(postorder) : liveOut[b] = LiveAfter(b)
    BY <1>1 DEF AnalysisOK, IsSettled
  <2>. QED BY <1>7, <1>9, <2>2, <2>3
<1>. DEFINE of(x) == function.blocks[Order[x]]
            ins(x) == {Starts[x] : y \in liveIn[Order[x]] \cap {w}}
            ends(x) == {Starts[x] + Len(of(x).statements) :
                          y \in (liveOut[Order[x]] \cup Range(of(x).reads)) \cap {w}}
            mentions(x) == {Starts[x] + j - 1 : j \in {k \in DOMAIN of(x).statements :
                     w \in Range(of(x).statements[k].reads) \cup {of(x).statements[k].defs}}}
<1>11. Marked(w) = UNION {ins(x) \cup ends(x) \cup mentions(x) : x \in DOMAIN Order}
  BY DEF Marked
<1>12. ASSUME NEW x \in DOMAIN Order PROVE ins(x) = {} /\ ends(x) = {} /\ mentions(x) = {}
  <2>1. ins(x) = {}
    BY <1>10
  <2>2. ends(x) = {}
    BY <1>7, <1>10
  <2>3. DOMAIN of(x).statements = 1 .. Len(of(x).statements)
    BY <1>6, <1>9, <1>10
  <2>4. mentions(x) = {}
    BY <1>6, <1>7, <1>10, <2>3
  <2>. QED BY <2>1, <2>2, <2>4
<1>. HIDE DEF ins, ends, mentions
<1>. QED BY <1>3, <1>11, <1>12

-----------------------------------------------------------------------------
(* The steps of the run *)

(* What was settled before the run stays as it is. *)
LEMMA SettledLasts ==
  ASSUME CompiledInv, phase # "flow", phase' # "flow", UNCHANGED flowVars, UNCHANGED scanVars
  PROVE  /\ (AnalysisOK /\ HasInterval /\ interval = LiveIntervals(Local))'
         /\ postorder' = postorder /\ function' = function /\ assigned' = assigned
         /\ \A b : LiveFrom(b)' = LiveFrom(b)
         /\ AllocatedOK /\ AssignedOK /\ AnalysisOK /\ function \in Functions
<1>1. /\ AnalysisOK /\ HasInterval /\ interval = LiveIntervals(Local)
  BY DEF CompiledInv, ReadInv
<1>2. AnalysisOK' /\ \A b : LiveFrom(b)' = LiveFrom(b)
  BY <1>1, AnalysisLasts
<1>3. LiveIntervals(Local)' = LiveIntervals(Local)
  BY HullsLast
<1>4. HasInterval'
  BY <1>1 DEF HasInterval, scanVars
<1>5. /\ interval' = interval /\ postorder' = postorder
      /\ function' = function /\ assigned' = assigned
  BY DEF scanVars, flowVars
<1>. QED BY <1>1, <1>2, <1>3, <1>4, <1>5, IsAllocated

(* The parameters are where the function was called with them. *)
LEMMA EnterReads ==
  ASSUME CompiledInv, Enter
  PROVE  ReadInv'
<1>. DEFINE params == function.params
            slots == 0 .. Cardinality(InFrame) + Cardinality(Saved) - 1
            inSlot(s) == CHOOSE l \in params \cap InFrame : Slot(l) = s
            inName(n) == CHOOSE l \in params \ InFrame : Name(assigned[l]) = n
<1>1. /\ phase = "scan" /\ phase' = "run" /\ UNCHANGED flowVars /\ UNCHANGED scanVars
      /\ pc' = pc /\ half' = half
      /\ truth' = [l \in Local |-> IF l \in params THEN Value(l, 0) ELSE None]
      /\ \A l \in InFrame \cap params :
           Slot(l) \in slots => frame'[Slot(l)] = Value(inSlot(Slot(l)), 0)
      /\ \A l \in params \ InFrame :
           Name(assigned[l]) \in Names =>
             register'[Name(assigned[l])] = Value(inName(Name(assigned[l])), 0)
  BY DEF Enter
<1>2. half = FALSE /\ pc = [block |-> Entry, at |-> 1]
  BY <1>1 DEF CompiledInv, KeepInv, ReadInv
<1>3. /\ (AnalysisOK /\ HasInterval /\ interval = LiveIntervals(Local))'
      /\ postorder' = postorder /\ function' = function /\ assigned' = assigned
      /\ \A b : LiveFrom(b)' = LiveFrom(b)
      /\ AllocatedOK /\ AssignedOK /\ AnalysisOK /\ function \in Functions
  BY <1>1, SettledLasts
<1>4. params \subseteq Local
  BY <1>3, CodeAssumption
<1>5. ASSUME NEW l \in params PROVE Held(l)' = Value(l, 0)
  <2>1. CASE assigned[l] = None
    <3>1. l \in InFrame /\ Slot(l) \in slots
      BY <1>3, <1>4, <2>1, Layout DEF InFrame
    <3>2. inSlot(Slot(l)) \in params \cap InFrame /\ Slot(inSlot(Slot(l))) = Slot(l)
      BY <3>1
    <3>. HIDE DEF inSlot
    <3>3. inSlot(Slot(l)) = l
      BY <3>1, <3>2, SlotsDiffer
    <3>4. frame'[Slot(l)] = Value(l, 0)
      BY <1>1, <3>1, <3>3
    <3>. QED BY <1>3, <2>1, <3>4, PlacesLast
  <2>2. CASE assigned[l] # None
    <3>. DEFINE k == inName(Name(assigned[l]))
    <3>1. l \in params \ InFrame /\ assigned[l] \in Register /\ Name(assigned[l]) \in Names
      BY <1>3, <1>4, <2>2, RegistersAreNamed DEF InFrame, AssignedOK
    <3>2. k \in params \ InFrame /\ Name(assigned[k]) = Name(assigned[l])
      BY <3>1
    <3>. HIDE DEF inName, k
    <3>3. assigned[k] # None /\ assigned[k] \in Register
      BY <1>3, <1>4, <3>2 DEF InFrame, AssignedOK
    <3>4. assigned[k] = assigned[l]
      BY <1>3, <3>1, <3>2, <3>3, RegistersAreNamed
    <3>5. k \in Local /\ l \in Local /\ k \in liveIn[Entry] /\ l \in liveIn[Entry]
      BY <1>3, <2>2, <3>2, <3>3, ParametersEnter
    <3>6. k = l
      BY <1>3, <2>2, <3>4, <3>5, EntryIsApart
    <3>7. register'[Name(assigned[l])] = Value(l, 0)
      BY <1>1, <3>1, <3>6 DEF k
    <3>. QED BY <1>3, <2>2, <3>7, PlacesLast
  <2>. QED BY <2>1, <2>2
<1>6. \A l \in Local : Sees(l)'
  BY <1>1, <1>5 DEF Sees
<1>7. RunOK'
  <2>1. Entry \in Range(postorder)
    BY <1>3 DEF AnalysisOK
  <2>2. pc'.block \in Range(postorder)' /\ pc'.at = 1 /\ half' = FALSE
    BY <1>1, <1>2, <1>3, <2>1
  <2>3. 1 \in 1 .. Len(Here.statements)' + 1
    <3>1. Here = function.blocks[Entry] /\ Entry \in Blocks
      BY <1>2, <1>3, <2>1, InRange DEF Here, AnalysisOK, FlowOK
    <3>2. Len(Here.statements) \in Nat
      BY <1>3, <3>1, TargetsAreBlocks
    <3>3. Len(Here.statements)' = Len(Here.statements)
      BY <1>1, <1>3 DEF Here
    <3>. QED BY <3>2, <3>3
  <2>. QED BY <1>6, <2>2, <2>3 DEF RunOK
<1>8. truth' = [l \in Local |-> truth'[l]]
  BY <1>1
<1>. QED BY <1>1, <1>2, <1>3, <1>7, <1>8 DEF ReadInv

(* The statement that is run, and where it is. *)
LEMMA StatementIsRun ==
  ASSUME CompiledInv, AtStatement
  PROVE  LET after == LiveFrom(pc.block)[pc.at + 1]
         IN /\ pc = [block |-> pc.block, at |-> pc.at]
            /\ pc.block \in Range(postorder) /\ pc.at \in 1 .. Len(Here.statements)
            /\ Len(Here.statements) \in Nat
            /\ Here = function.blocks[pc.block] /\ Statement = Here.statements[pc.at]
            /\ Statement.reads \in Seq(Local) /\ Statement.defs \in Local \cup {Nothing}
            /\ Statement.kind \in {"plain", "binary", "call"} => Statement.defs \in Local
            /\ Statement.kind = "binary" => Len(Statement.reads) = 2
            /\ Statement.kind = "drop" => Statement.defs = Nothing /\ Len(Statement.reads) = 1
            /\ Statement.kind \in {"call", "drop"} => calls_something(function)
            /\ ~half => Live = Through(Statement, after)
            /\ half => Live = (after \ {Statement.defs}) \cup {Statement.reads[2]}
            /\ \A l \in Live \cap Local : Sees(l)
            /\ AllocatedOK /\ AssignedOK /\ AnalysisOK /\ FrameKeeps /\ half \in BOOLEAN
            /\ register = [n \in Names |-> register[n]] /\ truth = [l \in Local |-> truth[l]]
            /\ half => InPlace(Statement)
<1>. DEFINE b == pc.block
            j == pc.at
<1>1. phase = "run" /\ j <= Len(Here.statements)
  BY DEF AtStatement
<1>2. /\ RunOK /\ FrameKeeps /\ PcOK /\ AnalysisOK
      /\ register = [n \in Names |-> register[n]] /\ truth = [l \in Local |-> truth[l]]
  BY <1>1 DEF CompiledInv, KeepInv, ReadInv
<1>3. AllocatedOK /\ AssignedOK /\ function \in Functions
  BY <1>1, IsAllocated
<1>4. /\ b \in Range(postorder) /\ Here = function.blocks[b] /\ Statement = Here.statements[j]
      /\ j \in Nat \ {0}
  BY <1>2 DEF RunOK, PcOK, Here, Statement
<1>5. Len(Here.statements) \in Nat
  BY <1>2, <1>3, <1>4, InRange, TargetsAreBlocks DEF AnalysisOK, FlowOK
<1>6. j \in 1 .. Len(Here.statements)
  BY <1>1, <1>4, <1>5
<1>7. /\ Statement.reads \in Seq(Local) /\ Statement.defs \in Local \cup {Nothing}
      /\ Statement.kind \in {"plain", "binary", "call"} => Statement.defs \in Local
      /\ Statement.kind = "binary" => Len(Statement.reads) = 2
      /\ Statement.kind = "drop" => Statement.defs = Nothing /\ Len(Statement.reads) = 1
      /\ LiveFrom(b)[j] = Through(Statement, LiveFrom(b)[j + 1])
      /\ Statement \in Range(Here.statements) /\ Here \in Range(function.blocks)
  BY <1>2, <1>4, <1>6, StatementIs
<1>8. Statement.kind \in {"call", "drop"} => calls_something(function)
  BY <1>7 DEF calls_something
<1>9. /\ ~half => Live = LiveFrom(b)[j]
      /\ half => Live = (LiveFrom(b)[j + 1] \ {Statement.defs}) \cup {Statement.reads[2]}
  BY DEF Live
<1>10. \A l \in Live \cap Local : Sees(l)
  BY <1>2 DEF RunOK
<1>11. half \in BOOLEAN /\ (half => InPlace(Statement)) /\ pc = [block |-> b, at |-> j]
  BY <1>2 DEF RunOK, PcOK
<1>. QED BY <1>2, <1>3, <1>4, <1>5, <1>6, <1>7, <1>8, <1>9, <1>10, <1>11

(* What is live after a statement that does not define it is as it should be,
   and it is in no register that the statement writes. *)
LEMMA OthersAreApart ==
  ASSUME CompiledInv, AtStatement, NEW w \in Local,
         w \in Range(Statement.reads) \cup {Statement.defs},
         NEW l \in Local, l # w, l # Statement.defs, l \in LiveFrom(pc.block)[pc.at + 1]
  PROVE  Sees(l) /\ (assigned[w] # None => assigned[l] # assigned[w])
<1>1. l \in Live
  BY StatementIsRun DEF Through
<1>2. Sees(l)
  BY <1>1, StatementIsRun
<1>3. ASSUME assigned[w] # None PROVE assigned[l] # assigned[w]
  <2>. DEFINE b == pc.block
              j == pc.at
  <2>1. /\ b \in Range(postorder) /\ j \in 1 .. Len(function.blocks[b].statements) /\ AllocatedOK
        /\ Statement = function.blocks[b].statements[j]
    BY StatementIsRun
  <2>2. l \in LiveFrom(b)[j + 1]
    OBVIOUS
  <2>. HIDE DEF b, j
  <2>. QED BY <1>3, <2>1, <2>2, WrittenIsApart
<1>. QED BY <1>2, <1>3

(* After a statement the next one is run. *)
LEMMA AdvanceReads ==
  ASSUME CompiledInv, AtStatement, Advance, phase' = "run", half' = FALSE,
         UNCHANGED flowVars, UNCHANGED scanVars, truth' = [l \in Local |-> truth'[l]],
         \A l \in LiveFrom(pc.block)[pc.at + 1] \cap Local : Sees(l)'
  PROVE  ReadInv'
<1>1. /\ (AnalysisOK /\ HasInterval /\ interval = LiveIntervals(Local))'
      /\ postorder' = postorder /\ function' = function
      /\ \A b : LiveFrom(b)' = LiveFrom(b)
  BY SettledLasts DEF AtStatement
<1>2. /\ pc = [block |-> pc.block, at |-> pc.at] /\ pc.block \in Range(postorder)
      /\ pc.at \in 1 .. Len(Here.statements) /\ Len(Here.statements) \in Nat
  BY StatementIsRun
<1>3. pc'.block = pc.block /\ pc'.at = pc.at + 1
  BY <1>2 DEF Advance
<1>4. Here' = Here
  BY <1>1, <1>3 DEF Here
<1>5. pc'.at \in 1 .. Len(Here.statements)' + 1
  BY <1>2, <1>3, <1>4
<1>6. Live' = LiveFrom(pc.block)[pc.at + 1]
  BY <1>1, <1>3 DEF Live
<1>7. RunOK'
  BY <1>1, <1>2, <1>3, <1>5, <1>6 DEF RunOK
<1>. QED BY <1>1, <1>7 DEF ReadInv

(* The left operand of an operation in place is copied over a local that
   nothing reads any more. *)
LEMMA AccumulateReads ==
  ASSUME CompiledInv, Accumulate
  PROVE  ReadInv'
<1>. DEFINE s == Statement
            after == LiveFrom(pc.block)[pc.at + 1]
<1>1. /\ AtStatement /\ phase = "run" /\ phase' = phase /\ InPlace(s) /\ ~half /\ half' = TRUE
      /\ Put(s.defs, Held(s.reads[1])) /\ pc' = pc /\ truth' = truth
      /\ UNCHANGED flowVars /\ UNCHANGED scanVars
  BY DEF Accumulate, AtStatement
<1>2. /\ (AnalysisOK /\ HasInterval /\ interval = LiveIntervals(Local))'
      /\ postorder' = postorder /\ function' = function /\ assigned' = assigned
      /\ \A b : LiveFrom(b)' = LiveFrom(b)
  BY <1>1, SettledLasts
<1>3. /\ s.kind = "binary" /\ s.defs \in Local /\ s.reads \in Seq(Local) /\ Len(s.reads) = 2
      /\ assigned[s.defs] # None /\ assigned[s.reads[2]] # assigned[s.defs]
  BY <1>1, StatementIsRun DEF InPlace
<1>4. PICK w \in Local, r \in Local, value \in {Held(s.reads[1])} :
        w = s.defs /\ r = s.reads[2] /\ r \in Range(s.reads)
  <2>1. s.reads[2] \in Local /\ s.reads[2] \in Range(s.reads)
    BY <1>3 DEF Range
  <2>. QED BY <1>3, <2>1
<1>5. /\ AssignedOK /\ FrameKeeps /\ register = [n \in Names |-> register[n]]
  BY <1>1, StatementIsRun
<1>6. \A l \in Local : l # w /\ assigned[l] # assigned[w] => Held(l)' = Held(l)
  <2>1. Put(w, value)
    BY <1>1, <1>4
  <2>. QED BY <1>2, <1>5, <2>1, PutHolds
<1>7. ASSUME NEW l \in Local, l \in after, l # w PROVE Sees(l)'
  <2>1. Sees(l) /\ assigned[l] # assigned[w]
    BY <1>1, <1>3, <1>4, <1>7, OthersAreApart
  <2>. QED BY <1>1, <1>6, <1>7, <2>1 DEF Sees
<1>8. Sees(r)'
  <2>1. Live = Through(s, after) /\ \A l \in Live \cap Local : Sees(l)
    BY <1>1, StatementIsRun
  <2>2. Sees(r)
    BY <1>4, <2>1 DEF Through
  <2>3. Held(r)' = Held(r)
    BY <1>3, <1>4, <1>6
  <2>. QED BY <1>1, <2>2, <2>3 DEF Sees
<1>9. Here' = Here /\ Statement' = Statement
  BY <1>1, <1>2 DEF Here, Statement
<1>10. Live' = (after \ {w}) \cup {r}
  BY <1>1, <1>2, <1>4, <1>9 DEF Live
<1>11. InPlace(s)' /\ AtStatement'
  BY <1>1, <1>2, <1>9 DEF InPlace, AtStatement
<1>12. pc.block \in Range(postorder) /\ pc.at \in 1 .. Len(Here.statements) + 1
  BY <1>1, StatementIsRun
<1>13. RunOK'
  BY <1>1, <1>2, <1>7, <1>8, <1>9, <1>10, <1>11, <1>12 DEF RunOK
<1>. QED BY <1>1, <1>2, <1>13, StatementIsRun DEF ReadInv

(* A statement that calls nothing: everything is read before its destination is
   written. *)
LEMMA ExecuteReads ==
  ASSUME CompiledInv, Execute
  PROVE  ReadInv'
<1>. DEFINE s == Statement
            after == LiveFrom(pc.block)[pc.at + 1]
<1>1. /\ AtStatement /\ phase = "run" /\ phase' = "run" /\ s.kind \in {"plain", "binary"}
      /\ Put(s.defs, Fresh(s.defs)) /\ truth' = [truth EXCEPT ![s.defs] = Fresh(s.defs)]
      /\ half' = FALSE /\ Advance /\ UNCHANGED flowVars /\ UNCHANGED scanVars
  BY DEF Execute, AtStatement
<1>2. /\ s.defs \in Local /\ AssignedOK /\ FrameKeeps
      /\ register = [n \in Names |-> register[n]] /\ truth = [l \in Local |-> truth[l]]
  BY <1>1, StatementIsRun
<1>3. assigned' = assigned /\ function' = function
  BY <1>1 DEF scanVars, flowVars
<1>4. PICK w \in Local, value \in {Fresh(s.defs)} : w = s.defs
  BY <1>2
<1>5. Put(w, value) /\ truth' = [truth EXCEPT ![w] = value]
  BY <1>1, <1>4
<1>6. /\ Held(w)' = value
      /\ \A l \in Local : l # w /\ (assigned[w] # None => assigned[l] # assigned[w]) =>
           Held(l)' = Held(l)
  BY <1>2, <1>3, <1>5, PutHolds
<1>7. ASSUME NEW l \in Local, l \in after PROVE Sees(l)'
  <2>1. CASE l = w
    BY <1>2, <1>5, <1>6, <2>1 DEF Sees
  <2>2. CASE l # w
    <3>1. Sees(l) /\ (assigned[w] # None => assigned[l] # assigned[w])
      BY <1>1, <1>4, <1>7, <2>2, OthersAreApart
    <3>. QED BY <1>2, <1>5, <1>6, <2>2, <3>1 DEF Sees
  <2>. QED BY <2>1, <2>2
<1>8. truth' = [l \in Local |-> truth'[l]]
  BY <1>2, <1>5
<1>. QED BY <1>1, <1>7, <1>8, AdvanceReads

(* What a call destroys holds no local of a function that calls. *)
LEMMA CallReads ==
  ASSUME CompiledInv, Call
  PROVE  ReadInv'
<1>. DEFINE s == Statement
            after == LiveFrom(pc.block)[pc.at + 1]
<1>1. /\ AtStatement /\ phase = "run" /\ phase' = "run" /\ s.kind = "call"
      /\ LET l == s.defs IN
           /\ truth' = [truth EXCEPT ![l] = Fresh(l)]
           /\ register' = [n \in Names |->
                IF l \notin InFrame /\ Name(assigned[l]) = n THEN Fresh(l)
                ELSE IF n \in Range(Volatile) THEN Junk ELSE register[n]]
           /\ frame' = IF l \in InFrame THEN [frame EXCEPT ![Slot(l)] = Fresh(l)] ELSE frame
      /\ half' = half /\ Advance /\ UNCHANGED flowVars /\ UNCHANGED scanVars
  BY DEF Call, AtStatement
<1>2. /\ s.defs \in Local /\ AssignedOK /\ FrameKeeps /\ calls_something(function)
      /\ register = [n \in Names |-> register[n]] /\ truth = [l \in Local |-> truth[l]]
  BY <1>1, StatementIsRun
<1>3. assigned' = assigned /\ function' = function
  BY <1>1 DEF scanVars, flowVars
<1>4. half' = FALSE
  BY <1>1, StatementIsRun DEF InPlace
<1>5. PICK w \in Local, value \in {Fresh(s.defs)} : w = s.defs
  BY <1>2
<1>6. /\ truth' = [truth EXCEPT ![w] = value]
      /\ register' = [n \in Names |->
           IF w \notin InFrame /\ Name(assigned[w]) = n THEN value
           ELSE IF n \in Range(Volatile) THEN Junk ELSE register[n]]
      /\ frame' = IF w \in InFrame THEN [frame EXCEPT ![Slot(w)] = value] ELSE frame
  BY <1>1, <1>5
<1>7. /\ Held(w)' = value
      /\ \A l \in Local : l # w /\ (assigned[w] # None => assigned[l] # assigned[w]) =>
           Held(l)' = Held(l)
  BY <1>2, <1>3, <1>6, CallHolds
<1>8. ASSUME NEW l \in Local, l \in after PROVE Sees(l)'
  <2>1. CASE l = w
    BY <1>2, <1>6, <1>7, <2>1 DEF Sees
  <2>2. CASE l # w
    <3>1. Sees(l) /\ (assigned[w] # None => assigned[l] # assigned[w])
      BY <1>1, <1>5, <1>8, <2>2, OthersAreApart
    <3>. QED BY <1>2, <1>6, <1>7, <2>2, <3>1 DEF Sees
  <2>. QED BY <2>1, <2>2
<1>9. truth' = [l \in Local |-> truth'[l]]
  BY <1>2, <1>6
<1>. QED BY <1>1, <1>4, <1>8, <1>9, AdvanceReads

(* What is dropped holds nothing any more. *)
LEMMA DropReads ==
  ASSUME CompiledInv, Drop
  PROVE  ReadInv'
<1>. DEFINE s == Statement
            after == LiveFrom(pc.block)[pc.at + 1]
<1>1. /\ AtStatement /\ phase = "run" /\ phase' = "run" /\ s.kind = "drop"
      /\ LET l == s.reads[1] IN
           /\ truth' = [truth EXCEPT ![l] = None]
           /\ register' = [n \in Names |->
                IF l \notin InFrame /\ Name(assigned[l]) = n THEN Zero
                ELSE IF n \in Range(Volatile) THEN Junk ELSE register[n]]
           /\ frame' = IF l \in InFrame THEN [frame EXCEPT ![Slot(l)] = Zero] ELSE frame
      /\ half' = half /\ Advance /\ UNCHANGED flowVars /\ UNCHANGED scanVars
  BY DEF Drop, AtStatement
<1>2. /\ AssignedOK /\ FrameKeeps /\ calls_something(function)
      /\ register = [n \in Names |-> register[n]] /\ truth = [l \in Local |-> truth[l]]
      /\ s.defs = Nothing /\ Len(s.reads) = 1 /\ s.reads \in Seq(Local)
  BY <1>1, StatementIsRun
<1>3. assigned' = assigned /\ function' = function
  BY <1>1 DEF scanVars, flowVars
<1>4. half' = FALSE
  BY <1>1, StatementIsRun DEF InPlace
<1>5. PICK w \in Local : w = s.reads[1] /\ w \in Range(s.reads)
  BY <1>2 DEF Range
<1>6. /\ truth' = [truth EXCEPT ![w] = None]
      /\ register' = [n \in Names |->
           IF w \notin InFrame /\ Name(assigned[w]) = n THEN Zero
           ELSE IF n \in Range(Volatile) THEN Junk ELSE register[n]]
      /\ frame' = IF w \in InFrame THEN [frame EXCEPT ![Slot(w)] = Zero] ELSE frame
  BY <1>1, <1>5
<1>7. \A l \in Local : l # w /\ (assigned[w] # None => assigned[l] # assigned[w]) =>
        Held(l)' = Held(l)
  <2>1. PICK value : value = Zero
    OBVIOUS
  <2>. QED BY <1>2, <1>3, <1>6, <2>1, CallHolds
<1>8. ASSUME NEW l \in Local, l \in after PROVE Sees(l)'
  <2>1. CASE l = w
    BY <1>2, <1>6, <2>1 DEF Sees
  <2>2. CASE l # w
    <3>1. l # s.defs
      BY <1>2, CodeAssumption
    <3>2. Sees(l) /\ (assigned[w] # None => assigned[l] # assigned[w])
      BY <1>1, <1>5, <1>8, <2>2, <3>1, OthersAreApart
    <3>. QED BY <1>2, <1>6, <1>7, <2>2, <3>2 DEF Sees
  <2>. QED BY <2>1, <2>2
<1>9. truth' = [l \in Local |-> truth'[l]]
  BY <1>2, <1>6
<1>. QED BY <1>1, <1>4, <1>8, <1>9, AdvanceReads

(* What the next block reads is live at the end of this one. *)
LEMMA JumpReads ==
  ASSUME CompiledInv, Jump
  PROVE  ReadInv'
<1>. DEFINE b == pc.block
<1>1. /\ phase = "run" /\ phase' = "run" /\ pc.at = Len(Here.statements) + 1
      /\ UNCHANGED flowVars /\ UNCHANGED scanVars
      /\ register' = register /\ frame' = frame /\ half' = half /\ truth' = truth
  BY DEF Jump
<1>2. PICK target \in Range(Here.successors) : pc' = [block |-> target, at |-> 1]
  BY DEF Jump
<1>3. /\ (AnalysisOK /\ HasInterval /\ interval = LiveIntervals(Local))'
      /\ postorder' = postorder /\ function' = function /\ assigned' = assigned
      /\ \A x : LiveFrom(x)' = LiveFrom(x)
      /\ AnalysisOK /\ function \in Functions
  BY <1>1, SettledLasts
<1>4. RunOK /\ truth = [l \in Local |-> truth[l]]
  BY <1>1 DEF CompiledInv, ReadInv
<1>5. b \in Range(postorder) /\ Here = function.blocks[b]
  BY <1>4 DEF RunOK, Here
<1>6. target \in Range(postorder) /\ LiveFrom(target)[1] \subseteq LiveAfter(b)
  BY <1>2, <1>3, <1>5, EndIs DEF Successors
<1>7. Len(Here.statements) \in Nat /\ Len(function.blocks[target].statements) \in Nat
  BY <1>3, <1>5, <1>6, InRange, TargetsAreBlocks DEF AnalysisOK, FlowOK
<1>8. half = FALSE
  BY <1>1, <1>4, <1>7 DEF RunOK, AtStatement
<1>9. Live = LiveFrom(b)[Len(Here.statements) + 1]
  BY <1>1, <1>8 DEF Live
<1>10. LiveAfter(b) \subseteq Live
  BY <1>3, <1>5, <1>9, EndIs
<1>11. Live' = LiveFrom(target)[1]
  BY <1>1, <1>2, <1>3, <1>8 DEF Live
<1>12. \A l \in Local : Sees(l)' = Sees(l)
  BY <1>1, <1>3, PlacesLast DEF Sees, Held
<1>13. pc'.at \in 1 .. Len(Here.statements)' + 1
  BY <1>2, <1>3, <1>7 DEF Here
<1>14. RunOK'
  BY <1>1, <1>2, <1>3, <1>4, <1>6, <1>8, <1>10, <1>11, <1>12, <1>13 DEF RunOK
<1>. QED BY <1>1, <1>3, <1>4, <1>14 DEF ReadInv

(* The epilogue: nothing is read any more. *)
LEMMA ReturnReads ==
  ASSUME CompiledInv, Return
  PROVE  ReadInv'
<1>1. /\ phase = "run" /\ phase' = "returned" /\ truth' = truth
      /\ UNCHANGED flowVars /\ UNCHANGED scanVars
  BY DEF Return
<1>2. (AnalysisOK /\ HasInterval /\ interval = LiveIntervals(Local))'
  BY <1>1, SettledLasts
<1>3. truth = [l \in Local |-> truth[l]]
  BY DEF CompiledInv, ReadInv
<1>. QED BY <1>1, <1>2, <1>3 DEF ReadInv

(* Where nothing happens, nothing changes. *)
LEMMA StutterReads ==
  ASSUME CompiledInv, UNCHANGED vars
  PROVE  ReadInv'
<1>1. /\ UNCHANGED flowVars /\ UNCHANGED scanVars
      /\ UNCHANGED <<phase, register, frame, pc, half, truth>>
  BY DEF vars, runVars
<1>2. truth = [l \in Local |-> truth[l]] /\ (phase \in {"flow", "scan"} => half = FALSE)
  BY DEF CompiledInv, ReadInv
<1>3. CASE phase = "flow"
  <2>1. WalkOK /\ RoundOK
    BY <1>3 DEF CompiledInv, ReadInv
  <2>2. WalkOK'
    BY <1>1, <2>1, WalkLasts DEF flowVars
  <2>3. RoundOK'
    <3>1. UNCHANGED <<function, stack, postorder, liveIn, liveOut, sweep, changed>>
      BY <1>1 DEF flowVars
    <3>2. Blocks' = Blocks /\ \A b : IsSettled(b)' = IsSettled(b)
      BY <3>1 DEF Blocks, IsSettled, LiveAfter, LiveBefore, LiveFrom
    <3>. QED BY <2>1, <3>1, <3>2 DEF RoundOK
  <2>. QED BY <1>1, <1>2, <1>3, <2>2, <2>3 DEF ReadInv
<1>4. CASE phase # "flow"
  <2>1. /\ (AnalysisOK /\ HasInterval /\ interval = LiveIntervals(Local))'
        /\ postorder' = postorder /\ function' = function /\ assigned' = assigned
        /\ \A b : LiveFrom(b)' = LiveFrom(b)
    BY <1>1, <1>4, SettledLasts
  <2>2. ASSUME phase = "run" PROVE RunOK'
    <3>1. RunOK
      BY <2>2 DEF CompiledInv, ReadInv
    <3>2. \A l \in Local : Sees(l)' = Sees(l)
      BY <1>1, <2>1, PlacesLast DEF Sees, Held
    <3>3. Here' = Here /\ Statement' = Statement
      BY <1>1, <2>1 DEF Here, Statement
    <3>4. Live' = Live
      BY <1>1, <2>1, <3>3 DEF Live
    <3>5. AtStatement' = AtStatement /\ InPlace(Statement)' = InPlace(Statement)
      BY <1>1, <2>1, <3>3 DEF AtStatement, InPlace
    <3>. QED BY <1>1, <2>1, <3>1, <3>2, <3>3, <3>4, <3>5 DEF RunOK
  <2>. QED BY <1>1, <1>2, <1>4, <2>1, <2>2 DEF ReadInv
<1>. QED BY <1>3, <1>4

(* What the next instruction reads is live. *)
LEMMA ReadsAreLive ==
  ASSUME CompiledInv, phase = "run"
  PROVE  ToRead \subseteq Live \cap Local
<1>. DEFINE b == pc.block
            n == Len(Here.statements)
<1>1. RunOK /\ AnalysisOK /\ function \in Functions
  BY IsAllocated DEF CompiledInv, ReadInv
<1>2. b \in Range(postorder) /\ Here = function.blocks[b] /\ pc.at \in 1 .. n + 1
  BY <1>1 DEF RunOK, Here
<1>3. n \in Nat
  BY <1>1, <1>2, InRange, TargetsAreBlocks DEF AnalysisOK, FlowOK
<1>4. CASE pc.at > n
  <2>1. pc.at = n + 1 /\ ~(pc.at <= n)
    BY <1>2, <1>3, <1>4
  <2>2. ~half
    BY <1>1, <2>1 DEF RunOK, AtStatement
  <2>3. Live = LiveFrom(b)[n + 1]
    BY <2>1, <2>2 DEF Live
  <2>4. ToRead = Range(Here.reads)
    BY <1>4 DEF ToRead
  <2>. QED BY <1>1, <1>2, <2>3, <2>4, EndIs
<1>5. CASE ~(pc.at > n)
  <2>1. AtStatement
    BY <1>2, <1>3, <1>5 DEF AtStatement
  <2>2. ToRead = IF half THEN {Statement.reads[2]} ELSE Range(Statement.reads)
    BY <1>5 DEF ToRead
  <2>3. Statement.reads \in Seq(Local)
    BY <2>1, StatementIsRun
  <2>4. CASE half
    <3>1. Statement.kind = "binary"
      BY <2>1, <2>4, StatementIsRun DEF InPlace
    <3>2. Len(Statement.reads) = 2
      BY <2>1, <3>1, StatementIsRun
    <3>3. Statement.reads[2] \in Local
      BY <2>3, <3>2
    <3>4. Statement.reads[2] \in Live
      BY <2>4 DEF Live
    <3>. QED BY <2>2, <2>4, <3>3, <3>4
  <2>5. CASE ~half
    <3>1. Range(Statement.reads) \subseteq Local
      BY <2>3, InRange
    <3>2. Range(Statement.reads) \subseteq Live
      BY <2>1, <2>5, StatementIsRun DEF Through
    <3>. QED BY <2>2, <2>5, <3>1, <3>2
  <2>. QED BY <2>4, <2>5
<1>. QED BY <1>4, <1>5

(* Every step keeps what a compiled function relies on. *)
LEMMA CompiledStep == CompiledInv /\ [Next]_vars => CompiledInv'
<1>1. CompiledInv /\ [Next]_vars => KeepInv' /\ SharedInv'
  BY KeepStep, SharedStep DEF CompiledInv
<1>2. ASSUME CompiledInv, [Next]_vars PROVE ReadInv'
  BY <1>2, AnalyseReads, AllocateReads, ScanReads, EnterReads, AccumulateReads,
     ExecuteReads, CallReads, DropReads, JumpReads, ReturnReads, StutterReads DEF Next
<1>. QED BY <1>1, <1>2 DEF CompiledInv

(* Wherever a local was put, what is read there is what was last written to it,
   in every function, whatever its blocks and however many registers there
   are: its register is given to no other local while something may still read
   it, also round a loop, between the halves of an operation in place, and
   across a call (liveness, live_intervals, allocate and the code generator
   together). *)
THEOREM LocalsKeepTheirValues == Spec => []ReadsSeeWrites
<1>1. Init => CompiledInv
  BY KeepInit, SharedInit, ReadInit DEF CompiledInv
<1>2. CompiledInv /\ [Next]_vars => CompiledInv'
  BY CompiledStep
<1>3. CompiledInv => ReadsSeeWrites
  BY ReadsAreLive DEF ReadsSeeWrites, CompiledInv, ReadInv, RunOK, Sees
<1>. QED BY <1>1, <1>2, <1>3, PTL DEF Spec

-----------------------------------------------------------------------------
(* Nothing is live for longer than it is needed *)

(* The blocks are numbered, and lead to blocks. *)
LEMMA BlocksAreNumbered ==
  ASSUME function \in Functions
  PROVE  /\ Len(function.blocks) \in Nat /\ Blocks = 1 .. Len(function.blocks)
         /\ \A b \in Blocks : Successors(b) \subseteq Blocks
<1>1. function.blocks \in Seq(Range(function.blocks))
  BY CodeAssumption
<1>2. Len(function.blocks) \in Nat /\ Blocks = 1 .. Len(function.blocks)
  BY <1>1 DEF Blocks
<1>3. ASSUME NEW b \in Blocks PROVE Successors(b) \subseteq Blocks
  BY <1>3, TargetsAreBlocks, InRange DEF Successors
<1>. QED BY <1>2, <1>3

(* What is read before it is written, or is live after the block and not written in
   it, is live before it. *)
LEMMA NeededIsLive ==
  ASSUME function \in Functions, NEW b \in Blocks, NEW l,
         l \in ReadFirst(b) \/ (l \notin DefinedIn(b) /\ l \in LiveAfter(b))
  PROVE  l \in LiveBefore(b)
<1>. DEFINE code == function.blocks[b].statements
            n == Len(code)
            live == LiveFrom(b)
            T == {k \in 1 .. n + 1 : l \in live[k] /\ \A m \in 1 .. k - 1 : code[m].defs # l}
<1>1. code \in Seq(Range(code)) /\ n \in Nat
  BY TargetsAreBlocks
<1>2. /\ live[n + 1] = LiveAfter(b) \cup Range(function.blocks[b].reads)
      /\ \A j \in 1 .. n : live[j] = Through(code[j], live[j + 1])
  BY <1>1, LiveFromIs
<1>3. DefinedIn(b) = {code[m].defs : m \in 1 .. n}
  BY <1>1 DEF DefinedIn, Range
<1>4. \/ \E j \in 1 .. n : l \in Range(code[j].reads) /\ \A m \in 1 .. j - 1 : code[m].defs # l
      \/ l \notin DefinedIn(b) /\ l \in live[n + 1]
  <2>. DEFINE written(j) == {code[m].defs : m \in 1 .. j - 1}
  <2>1. ReadFirst(b) = (UNION {Range(code[j].reads) \ written(j) : j \in DOMAIN code})
                       \cup (Range(function.blocks[b].reads) \ DefinedIn(b))
    BY DEF ReadFirst
  <2>2. l \in LiveAfter(b) \cup Range(function.blocks[b].reads) => l \in live[n + 1]
    BY <1>2
  <2>3. CASE l \notin DefinedIn(b) /\ l \in LiveAfter(b)
    BY <2>2, <2>3
  <2>4. CASE l \in Range(function.blocks[b].reads) \ DefinedIn(b)
    BY <2>2, <2>4
  <2>5. CASE \E j \in DOMAIN code : l \in Range(code[j].reads) \ written(j)
    <3>1. PICK j \in DOMAIN code : l \in Range(code[j].reads) \ written(j)
      BY <2>5
    <3>2. j \in 1 .. n
      BY <1>1
    <3>. QED BY <3>1, <3>2
  <2>. QED BY <2>1, <2>3, <2>4, <2>5
<1>. HIDE DEF code, n, live
<1>5. T # {}
  <2>1. CASE \E j \in 1 .. n : l \in Range(code[j].reads) /\ \A m \in 1 .. j - 1 : code[m].defs # l
    <3>1. PICK j \in 1 .. n : l \in Range(code[j].reads) /\ \A m \in 1 .. j - 1 : code[m].defs # l
      BY <2>1
    <3>2. l \in live[j]
      BY <1>2, <3>1 DEF Through
    <3>3. j \in 1 .. n + 1
      BY <1>1
    <3>4. j \in T
      BY <3>1, <3>2, <3>3
    <3>. QED BY <3>4
  <2>2. CASE l \notin DefinedIn(b) /\ l \in live[n + 1]
    <3>1. n + 1 \in 1 .. n + 1 /\ (n + 1) - 1 = n
      BY <1>1
    <3>2. \A m \in 1 .. n : code[m].defs # l
      BY <1>3, <2>2
    <3>3. n + 1 \in T
      BY <2>2, <3>1, <3>2
    <3>. QED BY <3>3
  <2>. QED BY <1>4, <2>1, <2>2
<1>6. T \in SUBSET Nat
  BY <1>1
<1>7. PICK k \in T : \A j \in T : k <= j
  <2>. HIDE DEF T
  <2>. QED BY <1>5, <1>6, Least
<1>8. k \in 1 .. n + 1 /\ l \in live[k] /\ \A m \in 1 .. k - 1 : code[m].defs # l
  OBVIOUS
<1>9. k = 1
  <2>. SUFFICES ASSUME k # 1 PROVE FALSE
    OBVIOUS
  <2>1. PICK j \in 1 .. n : k = j + 1 /\ j < k
    BY <1>1, <1>8
  <2>2. code[j].defs # l /\ \A m \in 1 .. j - 1 : code[m].defs # l
    BY <1>1, <1>8, <2>1
  <2>3. l \in live[j]
    BY <1>2, <1>8, <2>1, <2>2 DEF Through
  <2>4. j \in T
    BY <1>1, <2>1, <2>2, <2>3
  <2>. QED BY <1>1, <1>7, <1>8, <2>1, <2>4
<1>. QED BY <1>8, <1>9 DEF live, LiveBefore

(* ... and nothing else is. *)
LEMMA LiveIsNeeded ==
  ASSUME function \in Functions, NEW b \in Blocks, NEW l \in LiveBefore(b), l \notin ReadFirst(b)
  PROVE  l \notin DefinedIn(b) /\ l \in LiveAfter(b)
<1>. DEFINE code == function.blocks[b].statements
            n == Len(code)
            live == LiveFrom(b)
            IsGood(k) == l \in live[k] /\ \A m \in 1 .. k - 1 : code[m].defs # l
            T == {k \in 1 .. n + 1 : ~IsGood(k)}
<1>1. code \in Seq(Range(code)) /\ n \in Nat
  BY TargetsAreBlocks
<1>2. /\ live[n + 1] = LiveAfter(b) \cup Range(function.blocks[b].reads)
      /\ \A j \in 1 .. n : live[j] = Through(code[j], live[j + 1])
  BY <1>1, LiveFromIs
<1>3. DefinedIn(b) = {code[m].defs : m \in 1 .. n}
  BY <1>1 DEF DefinedIn, Range
<1>4. /\ \A j \in 1 .. n : l \in Range(code[j].reads) => \E m \in 1 .. j - 1 : code[m].defs = l
      /\ l \notin DefinedIn(b) => l \notin Range(function.blocks[b].reads)
  <2>1. ASSUME NEW j \in 1 .. n, l \in Range(code[j].reads), \A m \in 1 .. j - 1 : code[m].defs # l
        PROVE  FALSE
    <3>1. j \in DOMAIN code
      BY <1>1
    <3>. QED BY <2>1, <3>1 DEF ReadFirst
  <2>. QED BY <2>1 DEF ReadFirst
<1>5. l \in live[1]
  BY DEF LiveBefore
<1>. HIDE DEF code, n, live
<1>6. ASSUME T # {} PROVE FALSE
  <2>1. T \in SUBSET Nat
    BY <1>1
  <2>2. PICK k \in T : \A j \in T : k <= j
    <3>. HIDE DEF T
    <3>. QED BY <1>6, <2>1, Least
  <2>3. k \in 1 .. n + 1 /\ ~IsGood(k)
    OBVIOUS
  <2>4. k # 1
    BY <1>5, <2>3
  <2>5. PICK j \in 1 .. n : k = j + 1 /\ j < k
    BY <1>1, <2>3, <2>4
  <2>6. IsGood(j)
    <3>. SUFFICES ASSUME ~IsGood(j) PROVE FALSE
      OBVIOUS
    <3>1. j \in T
      BY <1>1, <2>5
    <3>. QED BY <1>1, <2>2, <2>5, <3>1
  <2>7. l \notin Range(code[j].reads)
    BY <1>4, <2>6
  <2>8. l \in live[j + 1] /\ l # code[j].defs
    BY <1>2, <2>6, <2>7 DEF Through
  <2>9. \A m \in 1 .. k - 1 : code[m].defs # l
    <3>1. \A m \in 1 .. k - 1 : m = j \/ m \in 1 .. j - 1
      BY <1>1, <2>5
    <3>. QED BY <2>6, <2>8, <3>1
  <2>. QED BY <2>3, <2>5, <2>8, <2>9
<1>7. IsGood(n + 1)
  <2>1. n + 1 \in 1 .. n + 1
    BY <1>1
  <2>. HIDE DEF IsGood
  <2>. QED BY <1>6, <2>1
<1>8. l \notin DefinedIn(b)
  BY <1>1, <1>3, <1>7
<1>9. l \in live[n + 1]
  BY <1>7
<1>. QED BY <1>2, <1>4, <1>8, <1>9

-----------------------------------------------------------------------------
(* The blocks a value may reach unwritten *)

(* Where a value of l goes on from a set of blocks that have not written it. *)
Onwards(S, l) == UNION {Successors(x) : x \in {y \in S : l \notin DefinedIn(y)}}

(* A set of blocks that a value of l does not leave unwritten. *)
Carries(C, l) == \A b \in C : l \notin DefinedIn(b) => Successors(b) \subseteq C

(* There are the sets that Carried defines, from a block on. *)
LEMMA GrowthExists ==
  ASSUME NEW n \in Nat, NEW first, NEW l
  PROVE  \E into : into = [k \in 0 .. n |-> IF k = 0 THEN first
                                             ELSE into[k - 1] \cup Onwards(into[k - 1], l)]
<1>. DEFINE Is(m, into) ==
              \A k \in 0 .. m : into[k] = IF k = 0 THEN first
                                          ELSE into[k - 1] \cup Onwards(into[k - 1], l)
            T == {m \in 0 .. n : ~ \E into : Is(m, into)}
<1>1. ASSUME T # {} PROVE FALSE
  <2>1. T \in SUBSET Nat
    OBVIOUS
  <2>2. PICK m \in T : \A k \in T : m <= k
    <3>. HIDE DEF T
    <3>. QED BY <1>1, <2>1, Least
  <2>3. m \in 0 .. n /\ ~ \E into : Is(m, into)
    OBVIOUS
  <2>4. CASE m = 0
    <3>1. Is(m, [k \in {0} |-> first])
      BY <2>4
    <3>. QED BY <2>3, <3>1
  <2>5. CASE m # 0
    <3>1. m - 1 \in 0 .. n /\ ~(m <= m - 1)
      BY <2>3, <2>5
    <3>2. m - 1 \notin T
      BY <2>2, <3>1
    <3>3. PICK short : Is(m - 1, short)
      BY <3>1, <3>2
    <3>. DEFINE long == [k \in 0 .. m |-> IF k = m THEN short[m - 1] \cup Onwards(short[m - 1], l)
                                          ELSE short[k]]
    <3>4. ASSUME NEW k \in 0 .. m
          PROVE  long[k] = IF k = 0 THEN first ELSE long[k - 1] \cup Onwards(long[k - 1], l)
      <4>1. CASE k = m
        <5>1. k # 0 /\ k - 1 \in 0 .. m /\ k - 1 # m
          BY <2>3, <2>5, <4>1
        <5>2. long[k] = short[m - 1] \cup Onwards(short[m - 1], l) /\ long[k - 1] = short[m - 1]
          BY <4>1, <5>1
        <5>. QED BY <5>1, <5>2
      <4>2. CASE k # m
        <5>1. k \in 0 .. m - 1 /\ (k # 0 => k - 1 \in 0 .. m /\ k - 1 # m)
          BY <2>3, <3>4, <4>2
        <5>2. short[k] = IF k = 0 THEN first ELSE short[k - 1] \cup Onwards(short[k - 1], l)
          BY <3>3, <5>1
        <5>3. long[k] = short[k] /\ (k # 0 => long[k - 1] = short[k - 1])
          BY <5>1, <4>2
        <5>. QED BY <5>2, <5>3
      <4>. QED BY <4>1, <4>2
    <3>5. Is(m, long)
      BY <3>4
    <3>. QED BY <2>3, <3>5
  <2>. QED BY <2>4, <2>5
<1>2. PICK into : Is(n, into)
  <2>1. n \in 0 .. n
    OBVIOUS
  <2>2. n \notin T
    <3>. HIDE DEF T
    <3>. QED BY <1>1
  <2>. HIDE DEF Is
  <2>. QED BY <2>1, <2>2
<1>. DEFINE full == [k \in 0 .. n |-> into[k]]
<1>3. full = [k \in 0 .. n |-> IF k = 0 THEN first ELSE full[k - 1] \cup Onwards(full[k - 1], l)]
  <2>1. ASSUME NEW k \in 0 .. n
        PROVE  into[k] = IF k = 0 THEN first ELSE full[k - 1] \cup Onwards(full[k - 1], l)
    <3>1. into[k] = IF k = 0 THEN first ELSE into[k - 1] \cup Onwards(into[k - 1], l)
      BY <1>2
    <3>2. k # 0 => full[k - 1] = into[k - 1]
      BY <2>1
    <3>. QED BY <3>1, <3>2
  <2>. QED BY <2>1
<1>. QED BY <1>3

(* The rounds of Carried. *)
IsGrowth(into, b, l) ==
  /\ into[0] = {b} /\ Carried(b, l) = into[Len(function.blocks)]
  /\ \A k \in 1 .. Len(function.blocks) : into[k] = into[k - 1] \cup Onwards(into[k - 1], l)

(* Carried is what its definition says. *)
LEMMA CarriedByRounds ==
  ASSUME function \in Functions, NEW b, NEW l
  PROVE  \E into : IsGrowth(into, b, l)
<1>. DEFINE n == Len(function.blocks)
            first == {b}
            Is(m, f, w, x) == x = [k \in 0 .. m |-> IF k = 0 THEN f
                                                    ELSE x[k - 1] \cup Onwards(x[k - 1], w)]
            IsInto(x) == Is(n, first, l, x)
            into == CHOOSE x : IsInto(x)
<1>1. n \in Nat
  BY BlocksAreNumbered
<1>2. \E x : IsInto(x)
  <2>1. \A m \in Nat : \A f, w : \E x : Is(m, f, w, x)
    BY GrowthExists
  <2>. HIDE DEF Is, n, first
  <2>. QED BY <1>1, <2>1
<1>3. Carried(b, l) = into[n]
  BY DEF Carried, Onwards, Successors
<1>4. IsInto(into)
  <2>. HIDE DEF IsInto
  <2>. QED BY <1>2
<1>. HIDE DEF into, n
<1>5. into[0] = {b}
  BY <1>1, <1>4
<1>6. ASSUME NEW k \in 1 .. n PROVE into[k] = into[k - 1] \cup Onwards(into[k - 1], l)
  <2>1. k \in 0 .. n /\ k # 0
    BY <1>1
  <2>. QED BY <1>4, <2>1
<1>7. IsGrowth(into, b, l)
  BY <1>3, <1>5, <1>6 DEF IsGrowth, n
<1>. QED BY <1>7

(* It is the least set of blocks with b that carries the value: after as many
   rounds as there are blocks no round adds a block any more. *)
LEMMA CarriedIs ==
  ASSUME function \in Functions, NEW b \in Blocks, NEW l
  PROVE  /\ Carried(b, l) \in SUBSET Blocks /\ b \in Carried(b, l) /\ Carries(Carried(b, l), l)
         /\ \A C : b \in C /\ Carries(C, l) => Carried(b, l) \subseteq C
<1>. DEFINE n == Len(function.blocks)
            all == Carried(b, l)
<1>1. n \in Nat /\ Blocks = 1 .. n /\ \A x \in Blocks : Successors(x) \subseteq Blocks
  BY BlocksAreNumbered
<1>. PICK into : IsGrowth(into, b, l)
  BY CarriedByRounds
<1>2. /\ into[0] = {b} /\ all = into[n]
      /\ \A k \in 1 .. n : into[k] = into[k - 1] \cup Onwards(into[k - 1], l)
  BY DEF IsGrowth
<1>. HIDE DEF n, all
<1>3. ASSUME NEW C, b \in C, Carries(C, l)
      PROVE  \A k \in 0 .. n : into[k] \subseteq C
  <2>. DEFINE T == {k \in 0 .. n : ~(into[k] \subseteq C)}
  <2>1. ASSUME T # {} PROVE FALSE
    <3>1. T \in SUBSET Nat
      BY <1>1
    <3>2. PICK k \in T : \A m \in T : k <= m
      <4>. HIDE DEF T
      <4>. QED BY <2>1, <3>1, Least
    <3>3. k # 0
      BY <1>2, <1>3
    <3>4. k \in 1 .. n /\ k - 1 \in 0 .. n /\ ~(k <= k - 1)
      BY <1>1, <3>3
    <3>5. into[k - 1] \subseteq C
      BY <3>2, <3>4
    <3>6. Onwards(into[k - 1], l) \subseteq C
      BY <1>3, <3>5 DEF Onwards, Carries
    <3>7. into[k] \subseteq C
      BY <1>2, <3>4, <3>5, <3>6
    <3>. QED BY <3>2, <3>7
  <2>. QED BY <2>1
<1>4. Carries(Blocks, l)
  BY <1>1 DEF Carries
<1>5. \A k \in 0 .. n : into[k] \in SUBSET Blocks
  BY <1>3, <1>4
<1>6. \A k \in 0 .. n : b \in into[k]
  <2>. DEFINE T == {k \in 0 .. n : b \notin into[k]}
  <2>1. ASSUME T # {} PROVE FALSE
    <3>1. T \in SUBSET Nat
      BY <1>1
    <3>2. PICK k \in T : \A m \in T : k <= m
      <4>. HIDE DEF T
      <4>. QED BY <2>1, <3>1, Least
    <3>3. k # 0
      BY <1>2
    <3>4. k \in 1 .. n /\ k - 1 \in 0 .. n /\ ~(k <= k - 1)
      BY <1>1, <3>3
    <3>5. b \in into[k - 1]
      BY <3>2, <3>4
    <3>. QED BY <1>2, <3>2, <3>4, <3>5
  <2>. QED BY <2>1
<1>7. IsFiniteSet(Blocks) /\ Cardinality(Blocks) = n
  <2>1. 1 \in Int /\ n \in Int
    BY <1>1
  <2>2. IsFiniteSet(1 .. n) /\ Cardinality(1 .. n) = IF 1 > n THEN 0 ELSE n - 1 + 1
    BY <2>1, FS_Interval
  <2>. QED BY <1>1, <2>2
<1>8. \A k \in 0 .. n : IsFiniteSet(into[k]) /\ Cardinality(into[k]) \in 0 .. n
  <2>. SUFFICES ASSUME NEW k \in 0 .. n
                PROVE  IsFiniteSet(into[k]) /\ Cardinality(into[k]) \in 0 .. n
    OBVIOUS
  <2>1. IsFiniteSet(into[k]) /\ Cardinality(into[k]) <= Cardinality(Blocks)
    BY <1>5, <1>7, FS_Subset
  <2>2. Cardinality(into[k]) \in Nat
    BY <2>1, FS_CardinalityType
  <2>. QED BY <1>1, <1>7, <2>1, <2>2
(* Some round adds nothing. *)
<1>9. PICK still \in 1 .. n : into[still] = into[still - 1]
  <2>. SUFFICES ASSUME \A k \in 1 .. n : into[k] # into[k - 1] PROVE FALSE
    OBVIOUS
  <2>. DEFINE T == {k \in 0 .. n : ~(Cardinality(into[k]) >= k + 1)}
  <2>1. n \in T
    <3>1. n \in 0 .. n
      BY <1>1
    <3>2. Cardinality(into[n]) \in 0 .. n
      BY <1>8, <3>1
    <3>. QED BY <1>1, <3>1, <3>2
  <2>2. T \in SUBSET Nat
    BY <1>1
  <2>3. PICK k \in T : \A m \in T : k <= m
    <3>1. T # {}
      BY <2>1
    <3>. HIDE DEF T
    <3>. QED BY <2>2, <3>1, Least
  <2>4. k # 0
    <3>. SUFFICES ASSUME k = 0 PROVE FALSE
      OBVIOUS
    <3>1. Cardinality(into[0]) = 1
      BY <1>2, FS_Singleton
    <3>. QED BY <2>3, <3>1
  <2>5. k \in 1 .. n /\ k - 1 \in 0 .. n /\ ~(k <= k - 1) /\ k \in 0 .. n
    BY <1>1, <2>4
  <2>6. Cardinality(into[k - 1]) >= k
    <3>1. k - 1 \notin T
      BY <2>3, <2>5
    <3>2. Cardinality(into[k - 1]) >= (k - 1) + 1
      BY <2>5, <3>1
    <3>. QED BY <1>1, <2>5, <3>2
  <2>7. into[k - 1] \in SUBSET into[k] /\ into[k] # into[k - 1]
    BY <1>2, <2>5
  <2>8. Cardinality(into[k - 1]) <= Cardinality(into[k]) /\ Cardinality(into[k - 1]) # Cardinality(into[k])
    BY <1>8, <2>5, <2>7, FS_Subset
  <2>9. Cardinality(into[k]) >= k + 1
    <3>1. Cardinality(into[k]) \in 0 .. n /\ Cardinality(into[k - 1]) \in 0 .. n
      BY <1>8, <2>5
    <3>2. Cardinality(into[k]) \in Nat /\ Cardinality(into[k - 1]) \in Nat /\ k \in Nat
      BY <1>1, <2>5, <3>1
    <3>. QED BY <2>6, <2>8, <3>2
  <2>. QED BY <2>3, <2>9
(* ... and then none after it does. *)
<1>10. Onwards(into[still - 1], l) \subseteq into[still - 1]
  BY <1>2, <1>9
<1>11. into[n] = into[still - 1]
  <2>. DEFINE T == {k \in still - 1 .. n : into[k] # into[still - 1]}
  <2>1. ASSUME T # {} PROVE FALSE
    <3>1. T \in SUBSET Nat
      BY <1>1, <1>9
    <3>2. PICK k \in T : \A m \in T : k <= m
      <4>. HIDE DEF T
      <4>. QED BY <2>1, <3>1, Least
    <3>3. k # still - 1
      BY <3>2
    <3>4. k \in 1 .. n /\ k - 1 \in still - 1 .. n /\ ~(k <= k - 1)
      BY <1>1, <1>9, <3>3
    <3>5. into[k - 1] = into[still - 1]
      BY <3>2, <3>4
    <3>. QED BY <1>2, <1>10, <3>2, <3>4, <3>5
  <2>2. n \in still - 1 .. n
    BY <1>1, <1>9
  <2>. QED BY <2>1, <2>2
<1>12. n \in 0 .. n
  BY <1>1
<1>13. Carries(all, l)
  BY <1>2, <1>10, <1>11 DEF Onwards, Carries
<1>. QED BY <1>2, <1>3, <1>5, <1>6, <1>12, <1>13 DEF all

-----------------------------------------------------------------------------
(* Liveness is exact *)

(* At every moment of the analysis what was found live is needed: no set of
   blocks carries it without reading it. *)
NoneTooMany ==
  \A b \in Blocks : \A l \in liveIn[b] : \A C \in SUBSET Blocks :
    b \in C /\ Carries(C, l) => \E c \in C : l \in ReadFirst(c)

ExactInv ==
  /\ NoneTooMany
  /\ phase # "flow" => reachable = Range(postorder)

(* Nothing is live at first. *)
LEMMA ExactInit == Init => ExactInv
<1>. SUFFICES ASSUME Init PROVE ExactInv
  OBVIOUS
<1>1. phase = "flow" /\ liveIn = [b \in Blocks |-> {}]
  BY DEF Init, FlowInit
<1>. QED BY <1>1 DEF ExactInv, NoneTooMany

(* What is not touched by it stays exact. *)
LEMMA ExactLasts ==
  ASSUME NoneTooMany, UNCHANGED <<function, liveIn>>
  PROVE  NoneTooMany'
<1>1. /\ Blocks' = Blocks
      /\ \A b : ReadFirst(b)' = ReadFirst(b)
      /\ \A C, l : Carries(C, l)' = Carries(C, l)
  BY DEF Blocks, ReadFirst, DefinedIn, Carries, Successors
<1>. QED BY <1>1 DEF NoneTooMany

(* What a block is found to need, a block it leads to needs, or it itself. *)
LEMMA FlowIsExact ==
  ASSUME FlowOK, RoundOK, NoneTooMany, Flow
  PROVE  NoneTooMany'
<1>. DEFINE block == Head(sweep)
<1>1. /\ UNCHANGED function /\ sweep # <<>> /\ sweep \in Seq(Blocks) /\ function \in Functions
      /\ liveIn' = [liveIn EXCEPT ![block] = LiveBefore(block)]
      /\ liveIn = [b \in Blocks |-> liveIn[b]]
  BY DEF Flow, FlowOK, RoundOK
<1>2. block \in Blocks
  BY <1>1, RangeOfTail
<1>3. /\ Blocks' = Blocks
      /\ \A b : ReadFirst(b)' = ReadFirst(b)
      /\ \A C, l : Carries(C, l)' = Carries(C, l)
  BY <1>1 DEF Blocks, ReadFirst, DefinedIn, Carries, Successors
<1>. HIDE DEF block
<1>4. ASSUME NEW b \in Blocks, NEW l \in liveIn'[b], NEW C \in SUBSET Blocks, b \in C, Carries(C, l)
      PROVE  \E c \in C : l \in ReadFirst(c)
  <2>1. CASE l \in liveIn[b]
    BY <1>4, <2>1 DEF NoneTooMany
  <2>2. CASE l \notin liveIn[b]
    <3>1. b = block /\ l \in LiveBefore(b)
      BY <1>1, <1>2, <1>4, <2>2
    <3>2. CASE l \in ReadFirst(b)
      BY <1>4, <3>2
    <3>3. CASE l \notin ReadFirst(b)
      <4>1. l \notin DefinedIn(b) /\ l \in LiveAfter(b)
        BY <1>1, <3>1, <3>3, LiveIsNeeded
      <4>2. PICK target \in Successors(b) : l \in liveIn[target]
        BY <4>1 DEF LiveAfter, Successors
      <4>3. target \in C /\ target \in Blocks
        BY <1>4, <4>1, <4>2 DEF Carries
      <4>. QED BY <1>4, <4>2, <4>3 DEF NoneTooMany
    <3>. QED BY <3>2, <3>3
  <2>. QED BY <2>1, <2>2
<1>. QED BY <1>3, <1>4 DEF NoneTooMany

(* Every step keeps it so. *)
LEMMA ExactStep == CompiledInv /\ ExactInv /\ [Next]_vars => ExactInv'
<1>. SUFFICES ASSUME CompiledInv, ExactInv, [Next]_vars PROVE ExactInv'
  OBVIOUS
<1>1. CASE Analyse
  <2>1. phase = "flow" /\ phase' = phase /\ FlowNext
    BY <1>1 DEF Analyse, runVars
  <2>2. FlowOK /\ RoundOK /\ NoneTooMany
    BY <2>1 DEF CompiledInv, SharedInv, ReadInv, ExactInv
  <2>3. CASE Flow
    BY <2>1, <2>2, <2>3, FlowIsExact DEF ExactInv
  <2>4. CASE Walk \/ StartRound
    <3>1. UNCHANGED <<function, liveIn>>
      BY <2>4 DEF Walk, StartRound
    <3>. QED BY <2>1, <2>2, <3>1, ExactLasts DEF ExactInv
  <2>. QED BY <2>1, <2>3, <2>4 DEF FlowNext
<1>2. CASE Allocate
  <2>1. phase = "flow" /\ stack = <<>> /\ UNCHANGED <<function, liveIn, reachable, postorder>>
    BY <1>2 DEF Allocate, FlowDone, flowVars
  <2>2. reachable = Range(postorder) \cup {top.block : top \in Range(stack)}
    BY <2>1 DEF CompiledInv, ReadInv, WalkOK
  <2>3. Range(stack) = {}
    BY <2>1 DEF Range
  <2>4. reachable' = Range(postorder)'
    BY <2>1, <2>2, <2>3
  <2>. QED BY <2>1, <2>4, ExactLasts DEF ExactInv
<1>3. CASE UNCHANGED flowVars /\ (phase' # "flow" => phase # "flow")
  <2>1. UNCHANGED <<function, liveIn, reachable, postorder>>
    BY <1>3 DEF flowVars
  <2>2. NoneTooMany'
    BY <2>1, ExactLasts DEF ExactInv
  <2>3. phase' # "flow" => (reachable = Range(postorder))'
    BY <1>3, <2>1 DEF ExactInv
  <2>. QED BY <2>2, <2>3 DEF ExactInv
<1>. QED BY <1>1, <1>2, <1>3 DEF Next, vars, runVars, Scan, Enter, Accumulate, Execute, Call, Drop,
                                Jump, Return

(* A local that is not live into a block is read by nothing that the block
   carries it to. *)
LEMMA CarriedIsLive ==
  ASSUME AnalysisOK, NEW b \in Range(postorder), NEW l,
         NEW c \in Carried(b, l), l \in ReadFirst(c)
  PROVE  l \in liveIn[b]
<1>. DEFINE C == {x \in Range(postorder) : l \in liveIn[x] => l \in liveIn[b]}
<1>1. function \in Functions /\ Range(postorder) \subseteq Blocks
  BY InRange DEF AnalysisOK, FlowOK
<1>2. \A x \in Range(postorder) : /\ Successors(x) \subseteq Range(postorder)
                                  /\ liveIn[x] = LiveBefore(x)
  BY DEF AnalysisOK, IsSettled
<1>3. ASSUME NEW x \in C, l \notin DefinedIn(x), NEW target \in Successors(x)
      PROVE  target \in C
  <2>1. target \in Range(postorder)
    BY <1>2
  <2>2. ASSUME l \in liveIn[target] PROVE l \in liveIn[b]
    <3>1. l \in LiveAfter(x)
      BY <2>2 DEF LiveAfter, Successors
    <3>2. l \in LiveBefore(x)
      BY <1>1, <1>3, <3>1, NeededIsLive
    <3>. QED BY <1>2, <3>2
  <2>. QED BY <2>1, <2>2
<1>4. b \in C /\ Carries(C, l)
  BY <1>3 DEF Carries
<1>5. b \in Blocks
  BY <1>1
<1>. HIDE DEF C
<1>6. Carried(b, l) \subseteq C
  BY <1>1, <1>4, <1>5, CarriedIs
<1>7. c \in Range(postorder) /\ (l \in liveIn[c] => l \in liveIn[b])
  BY <1>6 DEF C
<1>8. l \in LiveBefore(c)
  BY <1>1, <1>7, NeededIsLive
<1>. QED BY <1>2, <1>7, <1>8

(* In every function, however its blocks are linked, a local is live into a
   block that can be reached exactly if some path from there reads it before
   any write (`Liveness` in cfg.rs): the rounds of the data flow stop neither
   before what a loop carries is found nor with more than that. *)
THEOREM LivenessIsRight == Spec => []LivenessIsExact
<1>1. Init => CompiledInv /\ ExactInv
  BY KeepInit, SharedInit, ReadInit, ExactInit DEF CompiledInv
<1>2. CompiledInv /\ ExactInv /\ [Next]_vars => (CompiledInv /\ ExactInv)'
  BY CompiledStep, ExactStep
<1>3. ASSUME CompiledInv, ExactInv PROVE LivenessIsExact
  <2>. SUFFICES ASSUME FlowDone, NEW b \in reachable, NEW l
                PROVE  l \in liveIn[b] <=> \E c \in Carried(b, l) : l \in ReadFirst(c)
    BY DEF LivenessIsExact
  <2>1. AnalysisOK
    <3>1. CASE phase = "flow"
      BY <1>3, <3>1, AnalysisEnds DEF CompiledInv, SharedInv, ReadInv
    <3>. QED BY <1>3, <3>1 DEF CompiledInv, ReadInv
  <2>2. reachable = Range(postorder)
    <3>1. CASE phase = "flow"
      <4>1. reachable = Range(postorder) \cup {top.block : top \in Range(stack)} /\ stack = <<>>
        BY <1>3, <3>1 DEF CompiledInv, ReadInv, WalkOK, FlowDone
      <4>2. Range(stack) = {}
        BY <4>1 DEF Range
      <4>. QED BY <4>1, <4>2
    <3>. QED BY <1>3, <3>1 DEF ExactInv
  <2>3. b \in Range(postorder) /\ b \in Blocks /\ function \in Functions
    BY <2>1, <2>2, InRange DEF AnalysisOK, FlowOK
  <2>4. ASSUME l \in liveIn[b] PROVE \E c \in Carried(b, l) : l \in ReadFirst(c)
    <3>1. Carried(b, l) \in SUBSET Blocks /\ b \in Carried(b, l) /\ Carries(Carried(b, l), l)
      BY <2>3, CarriedIs
    <3>. QED BY <1>3, <2>3, <2>4, <3>1 DEF ExactInv, NoneTooMany
  <2>5. ASSUME NEW c \in Carried(b, l), l \in ReadFirst(c) PROVE l \in liveIn[b]
    BY <2>1, <2>3, <2>5, CarriedIsLive
  <2>. QED BY <2>4, <2>5
<1>. QED BY <1>1, <1>2, <1>3, PTL DEF Spec
=============================================================================
