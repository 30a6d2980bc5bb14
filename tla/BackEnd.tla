-------------------------------- MODULE BackEnd --------------------------------
(***************************************************************************)
(* From a module of the intermediate language to a running program (lib.rs): *)
(* verified, optimized in a release build, given to the code generator of a  *)
(* target, and run.                                                          *)
(***************************************************************************)
EXTENDS Optimizer, Assembler

CONSTANT Programs  \* bound: the modules, each with the answers C and devices
                   \* give it, and whether it is one that no lowering makes

VARIABLES
  program,   \* what a lowered module does: C's answers to it, and how it behaves
  target,    \* the machine code was written for, or "",
  wish,      \* which locals its allocator would have in registers,
  outcome    \* and how that code behaves

backVars == <<optVars, program, target, wish, outcome>>

X86 == INSTANCE X86Emitter
Arm == INSTANCE Arm64Emitter

Targets == {"x86_64", "aarch64"}

(* Which locals the allocator finds a register for: none, each that can have
   one, or every other. *)
Wishes == {"none", "all", "odd"}
Wanted(w) ==
  [f \in DOMAIN module.functions |->
     {l \in DOMAIN module.functions[f].locals : w = "all" \/ (w = "odd" /\ l % 2 = 1)}]

Outcome(M) == [behaviour |-> Behaviour(M), leaked |-> Leaked(M)]

Nothing == [behaviour |-> [events |-> <<>>, status |-> ""], leaked |-> 0]

Init ==
  /\ \E p \in Programs :
       /\ OptimizeInit({p.module})
       /\ program = [answers |-> p.answers, illegal |-> p.illegal,
                     promised |-> Outcome(Run(p.module, p.answers))]
  /\ target = "" /\ wish = "" /\ outcome = Nothing

(* The code a target's generator writes. *)
Generate(t, w) ==
  IF t = "x86_64" THEN X86!generate(module, Wanted(w)) ELSE Arm!generate(module, Wanted(w))

(* What it does once it is assembled, written to an object file and linked, from the start of the process to its end. *)
Execute(t, code) ==
  IF t = "x86_64" THEN X86!Executed(code, module, program.answers, X86!SystemV, X86!Registers)
  ELSE Arm!Executed(code, module, program.answers, Arm!AAPCS64, Arm!Registers)

(* A development build has verified what was lowered; a release build has also
   optimized it.  Either is built, and run, on either machine. *)
Build(t, w) ==
  /\ stage \in {"devirtualization", "optimized"} /\ target = ""
  /\ target' = t /\ wish' = w
  /\ outcome' = Outcome(Execute(t, Assembled(module, Generate(t, w), t = "aarch64")))
  /\ UNCHANGED <<optVars, program>>

Next ==
  \/ Optimize /\ target = "" /\ UNCHANGED <<program, target, wish, outcome>>
  \/ \E t \in Targets, w \in Wishes : Build(t, w)
Spec == Init /\ [][Next]_backVars

-----------------------------------------------------------------------------
(* The outside sees the same, and no more of the heap is left behind. *)
Kept(o) ==
  /\ o.behaviour = program.promised.behaviour
  /\ o.behaviour.status = "ended" => o.leaked <= program.promised.leaked
Refused == stage \in {"complaint", "assertion", "unsettled"}
Wrong == program.promised.behaviour.status = "wrong"

(* opt.rs: every pass preserves observable behaviour: whatever the passes have
   done to a module, step by step, it calls, reads, writes, stops and ends as
   what was lowered does, and gives back what that does. *)
PassesKeepTheMeaning == target = "" /\ ~Refused => Kept(Outcome(Run(module, program.answers)))

(* aarch64.rs computes a remainder whose left operand is in memory from a
   register it has already overwritten. *)
RemainderOfMemory ==
  target = "aarch64" /\
  \E f \in Compiled : \E i \in Of(module.functions[f], {"binary"}) :
    i.name = "rem" /\ Arm!FrameLayout(module, f, Wanted(wish)[f]).of[i.args[1]].k = "frame"

(* codegen.rs, aarch64.rs, lowering.rs: on either machine, in a debug build and
   in a release build, wherever its locals are kept, the code behaves as the
   module does: no operand is lost on the way through the scratch registers, a
   call or a frame, every stop is reached when the number says so, and every
   register the caller owns is given back.  Remainders that the other run shows
   to be wrong are set aside. *)
CodeKeepsTheMeaning == outcome # Nothing /\ ~RemainderOfMemory => Kept(outcome)

(* The same, of every remainder: `msub` is the identity of `%` and `/`. *)
RemaindersKeepTheMeaning == outcome # Nothing => Kept(outcome)

(* verify.rs: what no pass, and no lowering, makes is refused, before code is
   written for it; and nothing else is, neither at first nor after any pass. *)
OnlyTheWrongIsRefused == (Refused => program.illegal) /\ (Wrong => target = "")
=============================================================================
