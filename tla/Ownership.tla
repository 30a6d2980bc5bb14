------------------------------ MODULE Ownership ------------------------------
(***************************************************************************)
(* A function body that the ownership rules accept (BorrowCheck), lowered   *)
(* (DropLowering) and run along every path: nothing uses or drops a value   *)
(* that is gone, nothing is left over, and what was deferred runs.          *)
(*                                                                          *)
(* The compiler checks a whole body before it lowers it.  Neither looks at  *)
(* the other's state, so here both take one token at a time, and what each  *)
(* believes about a binding can be compared.                                *)
(***************************************************************************)
EXTENDS DropLowering

CONSTANT Dead   \* what a local holds whose value was dropped

VARIABLES
  phase,     \* "compile", "run", "returned"
  block, pc, \* the instruction that is next
  store,     \* local |-> the value it holds
  alive,     \* the values that exist, by number: tag, fields, and all it owns
  armed,     \* the `defer`s that were passed and have not run
  faults     \* what went wrong: "use", "drop" of a value that is gone, "defer"

runVars == <<phase, block, pc, store, alive, armed, faults>>
vars == <<checkVars, lowerVars, runVars>>

Init ==
  /\ CheckInit /\ LowerInit
  /\ phase = "compile" /\ block = 1 /\ pc = 1
  /\ store = [l \in {} |-> Dead] /\ alive = [v \in {} |-> Dead] /\ armed = {} /\ faults = {}

-----------------------------------------------------------------------------
(* Compiling *)

Compile(check, lower) == phase = "compile" /\ check /\ lower /\ UNCHANGED runVars

Refused  == Compile(Refuse, UNCHANGED lowerVars)
Let      == Compile(CheckLet, LowerLet)
Alias    == Compile(CheckAlias, LowerLet)
Ref      == Compile(CheckRef, LowerLet)
Call     == Compile(CheckCall /\ Here.op # "try", LowerCall)
Try      == Compile(CheckCall /\ Here.op = "try", LowerTry)
Assign   == Compile(CheckSet, LowerSet)
Defer    == Compile(CheckDefer, LowerDefer)
Leave    == Compile(CheckLeave, LowerJump)
GiveBack == Compile(CheckReturn, LowerReturn)
OpenForm == Compile(CheckHead, LowerHead)
OpenMatch == Compile(CheckMatch, LowerMatch)
OpenArm  == Compile(CheckArm, LowerArm)
EndMatch == Compile(CheckEndMatch, LowerEndMatch)
Else     == Compile(CheckElse, LowerElse)
EndIf    == Compile(CheckEndIf, LowerEndIf)
EndLoop  == Compile(CheckEndLoop, LowerEndLoop)
EndDo    == Compile(CheckEndDo, LowerEndDo)

Finish ==
  /\ phase = "compile" /\ CheckDone
  /\ LowerBody
  /\ phase' = "run"
  /\ UNCHANGED <<checkVars, block, pc, store, alive, armed, faults>>

-----------------------------------------------------------------------------
(* Running *)

Code == blocks[block].body
Next0 == blocks[block].next
At(op) == phase = "run" /\ pc <= Len(Code) /\ Code[pc].op = op
Now == Code[pc]

Holds(l) == IF l \in DOMAIN store THEN store[l] ELSE Dead
Gone(l) == Holds(l) \notin DOMAIN alive
(* A value with all it owns, some of which may be gone. *)
Inside(l) == IF Gone(l) THEN {} ELSE alive[Holds(l)].all
Whole(l) == ~Gone(l) /\ Inside(l) \subseteq DOMAIN alive
Blame(what, bad) == faults' = IF bad THEN faults \cup {what} ELSE faults
Forgotten(vs, ls) == [l \in DOMAIN store |-> IF store[l] \in vs /\ l \in ls THEN Dead ELSE store[l]]
Without_(vs) == [v \in DOMAIN alive \ vs |-> alive[v]]
(* The first numbers that no value has. *)
Unused(n) == SubSeq(SetToSortSeq((1 .. Cardinality(DOMAIN alive) + n) \ DOMAIN alive, <), 1, n)

Step == pc' = pc + 1 /\ UNCHANGED <<checkVars, lowerVars, phase, block>>

(* A value of one of the shapes. *)
New ==
  /\ At("new")
  /\ \E shape \in Now.from :
       LET named == Unused(Len(shape))
           at_(v) == CHOOSE k \in DOMAIN shape : named[k] = v
           made(k) == [tag |-> shape[k].tag, fields |-> [j \in DOMAIN shape[k].fields |-> named[shape[k].fields[j]]],
                       all |-> {named[i] : i \in k .. shape[k].last}]
       IN /\ alive' = [v \in Range(named) |-> made(at_(v))] @@ alive
          /\ store' = (Now.to :> named[1]) @@ store
  /\ Step /\ UNCHANGED <<armed, faults>>

Copy ==
  /\ At("copy")
  /\ Blame("use", Gone(Now.from))
  /\ store' = (Now.to :> Holds(Now.from)) @@ store
  /\ Step /\ UNCHANGED <<alive, armed>>

(* A part of a block. *)
Field ==
  /\ At("field")
  /\ LET of == Now.from[1]
         k  == Now.from[2]
         has == ~Gone(of) /\ k \in DOMAIN alive[Holds(of)].fields
     IN /\ Blame("use", ~has)
        /\ store' = (Now.to :> IF has THEN alive[Holds(of)].fields[k] ELSE Dead) @@ store
  /\ Step /\ UNCHANGED <<alive, armed>>

Read ==
  /\ At("read")
  /\ Blame("use", Gone(Now.from))
  /\ Step /\ UNCHANGED <<store, alive, armed>>

(* A value that grows may move, and what it holds; borrows do not follow. *)
Grow ==
  /\ At("grow")
  /\ Blame("use", Gone(Now.from))
  /\ store' = Forgotten(Inside(Now.from), refs)
  /\ Step /\ UNCHANGED <<alive, armed>>

(* A callee drops what it is given. *)
Drop ==
  /\ At("drop") \/ At("eat")
  /\ Blame("drop", ~Whole(Now.from))
  /\ alive' = Without_(Inside(Now.from))
  /\ store' = Forgotten(Inside(Now.from), DOMAIN store)
  /\ Step /\ UNCHANGED armed

(* A block alone. *)
Free ==
  /\ At("free")
  /\ Blame("drop", Gone(Now.from))
  /\ alive' = Without_({Holds(Now.from)})
  /\ store' = Forgotten({Holds(Now.from)}, DOMAIN store)
  /\ Step /\ UNCHANGED armed

Arm ==
  /\ At("arm")
  /\ Blame("defer", Now.to \in armed)
  /\ armed' = armed \cup {Now.to}
  /\ Step /\ UNCHANGED <<store, alive>>

RunDeferred ==
  /\ At("defer")
  /\ faults' = faults \cup (IF Now.to \notin armed THEN {"defer"} ELSE {})
                      \cup (IF Gone(Now.from) THEN {"use"} ELSE {})
  /\ armed' = armed \ {Now.to}
  /\ Step /\ UNCHANGED <<store, alive>>

Jump ==
  /\ phase = "run" /\ pc > Len(Code)
  /\ Next0.op # "tag"
  /\ \E b \in Range(Next0.to) : block' = b
  /\ pc' = 1
  /\ UNCHANGED <<checkVars, lowerVars, phase, store, alive, armed, faults>>

(* A test goes the way the value says. *)
TestTag ==
  /\ phase = "run" /\ pc > Len(Code) /\ Next0.op = "tag"
  /\ LET of == Next0.value[1]
         is == ~Gone(of) /\ alive[Holds(of)].tag = Next0.value[2]
     IN Blame("use", Gone(of)) /\ block' = Next0.to[IF is THEN 1 ELSE 2]
  /\ pc' = 1
  /\ UNCHANGED <<checkVars, lowerVars, phase, store, alive, armed>>

(* What is returned is the caller's. *)
Answer ==
  /\ phase = "run" /\ pc > Len(Code) /\ Next0.op = "return"
  /\ Blame("use", Next0.value # None /\ ~Whole(Next0.value))
  /\ alive' = IF Next0.value = None THEN alive ELSE Without_(Inside(Next0.value))
  /\ phase' = "returned"
  /\ UNCHANGED <<checkVars, lowerVars, block, pc, store, armed>>

Next ==
  \/ Refused \/ Let \/ Alias \/ Ref \/ Call \/ Try \/ Assign \/ Defer \/ Leave \/ GiveBack
  \/ OpenForm \/ OpenMatch \/ OpenArm \/ EndMatch \/ Else \/ EndIf \/ EndLoop \/ EndDo \/ Finish
  \/ New \/ Copy \/ Field \/ Read \/ Grow \/ Drop \/ Free \/ Arm \/ RunDeferred \/ Jump \/ TestTag \/ Answer

Spec == Init /\ [][Next]_vars

-----------------------------------------------------------------------------
(* Properties *)

(* A body that is accepted never reads, moves or answers a value that was dropped,
   through a binding or a borrow, and never drops one twice (docs/security.md: a
   program that passes the check has no use after free and no double free). *)
UsesOnlyTheLiving == faults \cap {"use", "drop"} = {}

(* While it runs a local owns every value, or owns what owns it, and when it returns
   every value it made was dropped or handed on, whichever path it took: what an arm
   gave away another drops, and what no pattern names goes with its block. *)
NothingLeaks ==
  /\ phase = "run" => DOMAIN alive \subseteq UNION {alive[v].all : v \in Range(store) \cap DOMAIN alive}
  /\ phase = "returned" => DOMAIN alive = {}

(* Every `defer` that was passed runs once before its scope's next turn, whichever
   way the scope ends, and none runs that was not passed. *)
DefersRunOnce == "defer" \notin faults /\ (phase = "returned" => armed = {})

(* Where the path being lowered can be reached, a binding that the rules hold to be
   unmoved is one that the lowering will drop: the two passes, which walk the body
   apart, agree about who owns what. *)
PassesAgree ==
  phase = "compile" /\ ~refused /\ ~left =>
    \A p \in visible(env) : LET id == env.names[p[1]][p[2]]
                            IN id \notin refs \cup env.moved => id \in live
=============================================================================
