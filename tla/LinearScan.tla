----------------------------- MODULE LinearScan -----------------------------
(***************************************************************************)
(* Register allocation by linear scan (regalloc.rs `allocate`): the locals  *)
(* of a function, by the start of their live intervals, each get a register *)
(* for their whole interval or stay in the frame.                           *)
(*                                                                          *)
(* Locals are numbers: ties are broken by them.                             *)
(***************************************************************************)
EXTENDS Naturals, FiniteSets

CONSTANTS
  Local,       \* the locals of the function
  None

ASSUME ScanAssumption ==
  /\ Local \subseteq Nat /\ IsFiniteSet(Local)
  /\ None \notin Nat

VARIABLES
  registers,   \* how many registers the backend offers
  interval,    \* local |-> its live interval, for those that are live anywhere
  waiting,     \* locals whose interval is still to come
  assigned,    \* local |-> its register, or None
  busy,        \* the registers that are taken
  active       \* the locals that hold them

scanVars == <<registers, interval, waiting, assigned, busy, active>>

Register == 0 .. registers - 1

(* Positions are counted in the linear order of the blocks. *)
Intervals == [start : Nat, end : Nat]

(* The order of the scan: by start, then end, then local. *)
Before(l, k) ==
  \/ interval[l].start < interval[k].start
  \/ interval[l].start = interval[k].start /\ interval[l].end < interval[k].end
  \/ interval[l].start = interval[k].start /\ interval[l].end = interval[k].end /\ l < k

(* Locals in no block that can be reached have no interval, and those whose
   address is taken wait for no register. *)
ScanInit(count, intervals) ==
  /\ registers = count
  /\ interval = intervals
  /\ waiting = DOMAIN intervals
  /\ assigned = [l \in Local |-> None]
  /\ busy = {} /\ active = {}

(* Mutant: an interval that ends where another starts has expired. *)
MutantExpiresAtEnd(l) == {k \in active : interval[k].end <= interval[l].start}

(* Strictly: what an instruction reads does not share a register with what it
   writes. *)
Expired(l) == {k \in active : interval[k].end < interval[l].start}

StillBusy(l) == busy \ {assigned[k] : k \in Expired(l)}
StillActive(l) == active \ Expired(l)

(* The first register that is free. *)
TakeFree(l) ==
  \E r \in Register \ StillBusy(l) :
    /\ \A q \in Register \ StillBusy(l) : r <= q
    /\ assigned' = [assigned EXCEPT ![l] = r]
    /\ busy' = StillBusy(l) \cup {r}
    /\ active' = StillActive(l) \cup {l}

(* The active interval that ends last, by end and then local. *)
EndsLast(k, l) ==
  /\ k \in StillActive(l)
  /\ \A j \in StillActive(l) :
       \/ interval[j].end < interval[k].end
       \/ interval[j].end = interval[k].end /\ j <= k

(* Mutant: the interval that loses its register keeps it as well. *)
MutantEvictKeeps(l) ==
  /\ Register \subseteq StillBusy(l)
  /\ \E k \in StillActive(l) :
       /\ EndsLast(k, l)
       /\ interval[k].end > interval[l].end
       /\ assigned' = [assigned EXCEPT ![l] = assigned[k]]
       /\ busy' = StillBusy(l)
       /\ active' = (StillActive(l) \ {k}) \cup {l}

(* No register is free: the interval that ends last gives its own up, if it
   ends after the newcomer. *)
Evict(l) ==
  /\ Register \subseteq StillBusy(l)
  /\ \E k \in StillActive(l) :
       /\ EndsLast(k, l)
       /\ interval[k].end > interval[l].end
       /\ assigned' = [assigned EXCEPT ![k] = None, ![l] = assigned[k]]
       /\ busy' = StillBusy(l)
       /\ active' = (StillActive(l) \ {k}) \cup {l}

(* The newcomer ends last, or there is no register at all. *)
StayInFrame(l) ==
  /\ Register \subseteq StillBusy(l)
  /\ \A k \in StillActive(l) : EndsLast(k, l) => interval[k].end <= interval[l].end
  /\ busy' = StillBusy(l)
  /\ active' = StillActive(l)
  /\ UNCHANGED assigned

Place(l) ==
  /\ l \in waiting
  /\ \A k \in waiting \ {l} : Before(l, k)
  /\ TakeFree(l) \/ Evict(l) \/ StayInFrame(l)
  /\ waiting' = waiting \ {l}
  /\ UNCHANGED <<registers, interval>>

ScanNext == \E l \in Local : Place(l)

(* Any number of registers, and any intervals of any of the locals. *)
ScanSpec ==
  /\ \E count \in Nat, live \in SUBSET Local :
       \E intervals \in [live -> Intervals] :
         /\ \A l \in live : intervals[l].start <= intervals[l].end
         /\ ScanInit(count, intervals)
  /\ [][ScanNext]_scanVars

-----------------------------------------------------------------------------
(* Properties *)

Overlap(l, k) ==
  /\ interval[l].start <= interval[k].end
  /\ interval[k].start <= interval[l].end

(* Two locals that hold one register are never live at the same position. *)
NoSharing ==
  \A l, k \in DOMAIN interval :
    l # k /\ assigned[l] # None /\ assigned[l] = assigned[k] => ~Overlap(l, k)

LiveAt(p) == {k \in DOMAIN interval : interval[k].start <= p /\ p <= interval[k].end}

(* A local is left in the frame only where more locals are live at one position
   than there are registers. *)
SpillsUnderPressure ==
  \A l \in DOMAIN interval \ waiting :
    assigned[l] = None =>
      \E k \in DOMAIN interval : Cardinality(LiveAt(interval[k].start)) > registers

(* What the scan relies on from one interval to the next. *)

Placed == DOMAIN interval \ waiting

ScanTypeOK ==
  /\ registers \in Nat
  /\ DOMAIN interval \subseteq Local /\ interval \in [DOMAIN interval -> Intervals]
  /\ \A l \in DOMAIN interval : interval[l].start <= interval[l].end
  /\ waiting \subseteq DOMAIN interval
  /\ assigned \in [Local -> Register \cup {None}]
  /\ active \subseteq Placed

(* The registers that are taken are those the active locals hold, each by one. *)
BusyIsHeld ==
  /\ busy = {assigned[l] : l \in active}
  /\ \A l \in active : assigned[l] # None
  /\ \A l, k \in active : assigned[l] = assigned[k] => l = k

(* Nothing that waits starts before what was placed, and a local that holds a
   register and is not active any more ended before anything that waits. *)
WaitingIsAhead ==
  \A k \in waiting :
    /\ assigned[k] = None
    /\ \A l \in Placed :
         /\ interval[l].start <= interval[k].start
         /\ l \notin active /\ assigned[l] # None => interval[l].end < interval[k].start

ScanInv ==
  /\ ScanTypeOK /\ BusyIsHeld /\ WaitingIsAhead
  /\ NoSharing /\ SpillsUnderPressure
=============================================================================
