------------------------------ MODULE RegAlloc ------------------------------
(***************************************************************************)
(* A function compiled and run (codegen.rs `function`): LiveIntervals finds *)
(* where its locals are live, LinearScan gives them registers, and the code *)
(* generated reads and writes its locals where they were put.               *)
(*                                                                          *)
(* What a local is supposed to hold is kept next to what its register or    *)
(* its frame slot does hold.  A value is the local it was written to and    *)
(* one bit that tells it from the value before.                             *)
(***************************************************************************)
EXTENDS LiveIntervals, LinearScan

CONSTANTS
  Volatile,    \* names of the registers a call destroys, in LEAF's order
  Preserved,   \* names of those it does not (CALLEE_SAVED)
  Junk         \* what nobody has written

VARIABLES
  phase,       \* "flow", "scan", "run", "returned"
  register,    \* register name |-> value
  frame,       \* slot |-> value
  pc,          \* block, and the number of the instruction in it
  half,        \* an operation in place has copied its left operand
  truth        \* local |-> the value it holds, or None

runVars == <<phase, register, frame, pc, half, truth>>
vars == <<flowVars, scanVars, runVars>>

Names == Range(Volatile) \cup Range(Preserved)

(* A register has one name, and is one or the other. *)
ASSUME RegistersAssumption ==
  LET file == Volatile \o Preserved IN
    /\ Volatile \in Seq(Names) /\ Preserved \in Seq(Names)
    /\ \A i, j \in DOMAIN file : file[i] = file[j] => i = j

(* What is compiled names its own locals and blocks, and writes no parameter:
   they are immutable, and only a drop clears one. *)
ASSUME CodeAssumption ==
  /\ Nothing \notin Local
  /\ \A f \in Functions :
       /\ f.params \subseteq Local /\ f.blocks \in Seq(Range(f.blocks)) /\ Entry \in DOMAIN f.blocks
       /\ \A b \in Range(f.blocks) :
            /\ b.statements \in Seq(Range(b.statements))
            /\ b.reads \in Seq(Local) /\ b.successors \in Seq(DOMAIN f.blocks)
            /\ \A i \in Range(b.statements) :
                 /\ i.reads \in Seq(Local) /\ i.defs \in (Local \ f.params) \cup {Nothing}
                 /\ i.kind \in {"plain", "binary", "call"} => i.defs # Nothing
                 /\ i.kind = "binary" => Len(i.reads) = 2
                 /\ i.kind = "drop" => i.defs = Nothing /\ Len(i.reads) = 1

(* What a register or a slot may hold, besides Junk. *)
Caller(name) == [caller |-> name]
Value(l, bit) == [of |-> l, bit |-> bit]
Zero == [number |-> 0]

Init ==
  /\ FlowInit
  /\ ScanInit(0, [l \in {} |-> None])
  /\ phase = "flow"
  /\ register = [n \in Names |-> IF n \in Range(Preserved) THEN Caller(n) ELSE Junk]
  /\ frame = <<>> /\ pc = [block |-> Entry, at |-> 1] /\ half = FALSE
  /\ truth = [l \in Local |-> None]

Analyse ==
  /\ phase = "flow"
  /\ FlowNext
  /\ UNCHANGED <<scanVars, runVars>>

-----------------------------------------------------------------------------
(* Allocation *)

(* Mutant: a drop is not counted among the calls. *)
MutantDropIsNoCall(f) ==
  \E b \in Range(f.blocks) : \E i \in Range(b.statements) : i.kind = "call"

(* Deliberately conservative: by the instruction. *)
calls_something(f) ==
  \E b \in Range(f.blocks) : \E i \in Range(b.statements) : i.kind \in {"call", "drop"}

RegisterFile == IF calls_something(function) THEN Preserved ELSE Volatile \o Preserved

(* How many of the file's first registers need no saving. *)
VolatileCount == IF calls_something(function) THEN 0 ELSE Len(Volatile)

Allocate ==
  /\ phase = "flow" /\ FlowDone
  /\ phase' = "scan"
  /\ registers' = Len(RegisterFile)
  /\ interval' = LiveIntervals(Local)
  /\ waiting' = DOMAIN interval'
  /\ UNCHANGED <<flowVars, assigned, busy, active, register, frame, pc, half, truth>>

Scan ==
  /\ phase = "scan"
  /\ ScanNext
  /\ UNCHANGED <<flowVars, runVars>>

(* The slots of the locals are numbered without gaps. *)
InFrame == {l \in Local : assigned[l] = None}
Slot(l) == Cardinality({k \in InFrame : k < l})

Name(r) == RegisterFile[r + 1]

(* Above them the registers that have to be given back as they were. *)
Saved == {r \in {assigned[l] : l \in Local} \ {None} : r >= VolatileCount}

(* Mutant: the saved registers are numbered from the bottom of the frame. *)
MutantSaveAtBottom(r) == Cardinality({q \in Saved : q < r})

SaveSlot(r) == Cardinality(InFrame) + Cardinality({q \in Saved : q < r})

-----------------------------------------------------------------------------
(* Running what was generated *)

Held(l) == IF assigned[l] = None THEN frame[Slot(l)] ELSE register[Name(assigned[l])]

Put(l, value) ==
  IF assigned[l] = None
  THEN /\ frame' = [frame EXCEPT ![Slot(l)] = value]
       /\ UNCHANGED register
  ELSE /\ register' = [register EXCEPT ![Name(assigned[l])] = value]
       /\ UNCHANGED frame

Fresh(l) == Value(l, IF truth[l] = Value(l, 0) THEN 1 ELSE 0)

(* The prologue, and store_parameters. *)
Enter ==
  /\ phase = "scan" /\ waiting = {}
  /\ phase' = "run"
  /\ LET params == function.params
         saves  == [s \in 0 .. Cardinality(InFrame) + Cardinality(Saved) - 1 |->
                      IF \E r \in Saved : SaveSlot(r) = s
                      THEN register[Name(CHOOSE r \in Saved : SaveSlot(r) = s)] ELSE Junk]
     IN /\ truth' = [l \in Local |-> IF l \in params THEN Value(l, 0) ELSE None]
        /\ frame' = [s \in DOMAIN saves |->
             IF \E l \in params \cap InFrame : Slot(l) = s
             THEN Value(CHOOSE l \in params \cap InFrame : Slot(l) = s, 0) ELSE saves[s]]
        /\ register' = [n \in Names |->
             IF \E l \in params \ InFrame : Name(assigned[l]) = n
             THEN Value(CHOOSE l \in params \ InFrame : Name(assigned[l]) = n, 0) ELSE register[n]]
  /\ UNCHANGED <<flowVars, scanVars, pc, half>>

Here == function.blocks[pc.block]
AtStatement == phase = "run" /\ pc.at <= Len(Here.statements)
Statement == Here.statements[pc.at]

Advance == pc' = [pc EXCEPT !.at = @ + 1]

(* Mutant: the right operand may be the destination. *)
MutantInPlaceAnyway(s) == s.kind = "binary" /\ assigned[s.defs] # None

(* accumulate_in_place: the destination is a register, and not that of the
   right operand. *)
InPlace(s) ==
  /\ s.kind = "binary" /\ assigned[s.defs] # None
  /\ assigned[s.reads[2]] # assigned[s.defs]

Accumulate ==
  /\ AtStatement /\ InPlace(Statement) /\ ~half
  /\ Put(Statement.defs, Held(Statement.reads[1]))
  /\ half' = TRUE
  /\ UNCHANGED <<flowVars, scanVars, phase, pc, truth>>

(* Everything is read before the destination is written; a binary operation in
   place has its right operand left to read. *)
Execute ==
  /\ AtStatement /\ Statement.kind \in {"plain", "binary"}
  /\ InPlace(Statement) = half
  /\ Put(Statement.defs, Fresh(Statement.defs))
  /\ truth' = [truth EXCEPT ![Statement.defs] = Fresh(Statement.defs)]
  /\ half' = FALSE /\ Advance
  /\ UNCHANGED <<flowVars, scanVars, phase>>

(* The callee uses the volatile registers as it likes and gives the others back. *)
Call ==
  /\ AtStatement /\ Statement.kind = "call"
  /\ LET l == Statement.defs IN
       /\ truth' = [truth EXCEPT ![l] = Fresh(l)]
       /\ register' = [n \in Names |->
            IF l \notin InFrame /\ Name(assigned[l]) = n THEN Fresh(l)
            ELSE IF n \in Range(Volatile) THEN Junk ELSE register[n]]
       /\ frame' = IF l \in InFrame THEN [frame EXCEPT ![Slot(l)] = Fresh(l)] ELSE frame
  /\ Advance
  /\ UNCHANGED <<flowVars, scanVars, phase, half>>

(* A call, and the local itself is zeroed. *)
Drop ==
  /\ AtStatement /\ Statement.kind = "drop"
  /\ LET l == Statement.reads[1] IN
       /\ truth' = [truth EXCEPT ![l] = None]
       /\ register' = [n \in Names |->
            IF l \notin InFrame /\ Name(assigned[l]) = n THEN Zero
            ELSE IF n \in Range(Volatile) THEN Junk ELSE register[n]]
       /\ frame' = IF l \in InFrame THEN [frame EXCEPT ![Slot(l)] = Zero] ELSE frame
  /\ Advance
  /\ UNCHANGED <<flowVars, scanVars, phase, half>>

Jump ==
  /\ phase = "run" /\ pc.at = Len(Here.statements) + 1
  /\ \E target \in Range(Here.successors) : pc' = [block |-> target, at |-> 1]
  /\ UNCHANGED <<flowVars, scanVars, phase, register, frame, half, truth>>

(* The epilogue. *)
Return ==
  /\ phase = "run" /\ pc.at = Len(Here.statements) + 1 /\ Here.successors = <<>>
  /\ phase' = "returned"
  /\ register' = [n \in Names |->
       IF \E r \in Saved : Name(r) = n
       THEN frame[SaveSlot(CHOOSE r \in Saved : Name(r) = n)] ELSE register[n]]
  /\ UNCHANGED <<flowVars, scanVars, frame, pc, half, truth>>

Next ==
  \/ Analyse \/ Allocate \/ Scan
  \/ Enter \/ Accumulate \/ Execute \/ Call \/ Drop \/ Jump \/ Return

Spec == Init /\ [][Next]_vars

-----------------------------------------------------------------------------
(* Properties *)

(* What the next machine instruction reads. *)
ToRead ==
  IF pc.at > Len(Here.statements) THEN Range(Here.reads)
  ELSE IF half THEN {Statement.reads[2]} ELSE Range(Statement.reads)

(* Wherever a local was put, what is read there is what was last written to it:
   nothing else was put there meanwhile, also round a loop, and no call has
   destroyed it (docs/architecture.md on allocation). *)
ReadsSeeWrites ==
  phase = "run" => \A l \in ToRead : truth[l] # None => Held(l) = truth[l]

(* The caller finds the registers a call does not destroy as they were. *)
CallerKeepsRegisters ==
  phase = "returned" => \A n \in Range(Preserved) : register[n] = Caller(n)
=============================================================================
