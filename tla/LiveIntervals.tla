---------------------------- MODULE LiveIntervals ----------------------------
(***************************************************************************)
(* Where each local of a function is live (cfg.rs): a depth-first walk of   *)
(* its blocks, backward data flow to a fixpoint, and of every local the     *)
(* hull of its live positions in the order of the walk.                     *)
(*                                                                          *)
(* A function is a record: its parameters, the locals whose address is      *)
(* taken, and its blocks in order.  A block is what its instructions do, and *)
(* which blocks may follow.                                                 *)
(***************************************************************************)
EXTENDS Naturals, Sequences, FiniteSets, SequencesExt

CONSTANTS
  Functions,   \* the functions that are compiled
  Nothing      \* an instruction that defines no local

VARIABLES
  function,
  stack,           \* the walk: blocks, each with how many successors were seen
  reachable,
  postorder,
  liveIn, liveOut, \* block |-> locals
  sweep,           \* blocks left in this round, or the end of it
  changed          \* whether this round has changed anything

flowVars == <<function, stack, reachable, postorder, liveIn, liveOut, sweep, changed>>

(* An instruction reads some locals, in order, and then defines one, or none.
   It may be a call, it may drop a local, and it may be arithmetic. *)
Instruction(kind, defs, reads) == [kind |-> kind, defs |-> defs, reads |-> reads]
Block(statements, reads, successors) ==
  [statements |-> statements, reads |-> reads, successors |-> successors]

Blocks == DOMAIN function.blocks
Entry == 1

FlowInit ==
  /\ function \in Functions
  /\ stack = <<[block |-> Entry, next |-> 1]>>
  /\ reachable = {Entry} /\ postorder = <<>>
  /\ liveIn = [b \in Blocks |-> {}] /\ liveOut = [b \in Blocks |-> {}]
  /\ sweep = <<>> /\ changed = TRUE

-----------------------------------------------------------------------------
(* Cfg::new *)

(* One round of its loop: the next successor of the block on top, or, when
   there is none left, the block itself. *)
Walk ==
  /\ stack # <<>>
  /\ LET top     == Last(stack)
         targets == function.blocks[top.block].successors
     IN \/ /\ top.next <= Len(targets)
           /\ LET target == targets[top.next]
                  seen   == Append(Front(stack), [top EXCEPT !.next = @ + 1])
              IN /\ reachable' = reachable \cup {target}
                 /\ stack' = IF target \in reachable THEN seen
                             ELSE Append(seen, [block |-> target, next |-> 1])
           /\ UNCHANGED postorder
        \/ /\ top.next > Len(targets)
           /\ postorder' = Append(postorder, top.block)
           /\ stack' = Front(stack)
           /\ UNCHANGED reachable
  /\ UNCHANGED <<function, liveIn, liveOut, sweep, changed>>

-----------------------------------------------------------------------------
(* liveness *)

LiveAfter(block) ==
  UNION {liveIn[b] : b \in Range(function.blocks[block].successors)}

(* Mutant: the reads are added before the write is cleared. *)
MutantReadsFirst(instruction, live) == (live \cup Range(instruction.reads)) \ {instruction.defs}

(* Before an instruction: the write is cleared before the reads are added. *)
Through(instruction, live) == (live \ {instruction.defs}) \cup Range(instruction.reads)

(* What is live before each instruction of a block and before its end. *)
LiveFrom(block) ==
  LET code == function.blocks[block].statements
      live[j \in 1 .. Len(code) + 1] ==
        IF j = Len(code) + 1 THEN LiveAfter(block) \cup Range(function.blocks[block].reads)
        ELSE Through(code[j], live[j + 1])
  IN live

LiveBefore(block) == LiveFrom(block)[1]

(* A round over the blocks, the last of the order first, for as long as the
   round before has changed something. *)
StartRound ==
  /\ stack = <<>> /\ sweep = <<>> /\ changed
  /\ sweep' = postorder /\ changed' = FALSE
  /\ UNCHANGED <<function, stack, reachable, postorder, liveIn, liveOut>>

(* Mutant: that a block has changed goes unnoticed. *)
MutantNotNoticed ==
  /\ sweep # <<>>
  /\ LET block == Head(sweep) IN
       /\ liveOut' = [liveOut EXCEPT ![block] = LiveAfter(block)]
       /\ liveIn' = [liveIn EXCEPT ![block] = LiveBefore(block)]
  /\ UNCHANGED changed
  /\ sweep' = Tail(sweep)
  /\ UNCHANGED <<function, stack, reachable, postorder>>

Flow ==
  /\ sweep # <<>>
  /\ LET block == Head(sweep) IN
       /\ liveOut' = [liveOut EXCEPT ![block] = LiveAfter(block)]
       /\ liveIn' = [liveIn EXCEPT ![block] = LiveBefore(block)]
       /\ changed' = \/ changed
                     \/ LiveAfter(block) # liveOut[block] \/ LiveBefore(block) # liveIn[block]
  /\ sweep' = Tail(sweep)
  /\ UNCHANGED <<function, stack, reachable, postorder>>

FlowNext == Walk \/ StartRound \/ Flow

FlowDone == stack = <<>> /\ sweep = <<>> /\ ~changed

-----------------------------------------------------------------------------
(* live_intervals *)

Order == Reverse(postorder)

(* Where the blocks start: statements are numbered, and then the terminator. *)
Starts ==
  LET starts[i \in 1 .. Len(Order)] ==
        IF i = 1 THEN 0
        ELSE starts[i - 1] + Len(function.blocks[Order[i - 1]].statements) + 1
  IN starts

(* Mutant: only mentions count, and not what is live across a block. *)
MutantMentions(l) ==
  LET starts == Starts
      of(i)  == function.blocks[Order[i]]
  IN UNION {
       {starts[i] + Len(of(i).statements) : x \in Range(of(i).reads) \cap {l}}
       \cup {starts[i] + j - 1 : j \in {k \in DOMAIN of(i).statements :
                l \in Range(of(i).statements[k].reads) \cup {of(i).statements[k].defs}}}
       : i \in DOMAIN Order}

(* The positions where a local is live at an end of a block, or mentioned. *)
Marked(l) ==
  LET starts == Starts
      of(i)  == function.blocks[Order[i]]
  IN UNION {
       {starts[i] : x \in liveIn[Order[i]] \cap {l}}
       \cup {starts[i] + Len(of(i).statements) :
              x \in (liveOut[Order[i]] \cup Range(of(i).reads)) \cap {l}}
       \cup {starts[i] + j - 1 : j \in {k \in DOMAIN of(i).statements :
                l \in Range(of(i).statements[k].reads) \cup {of(i).statements[k].defs}}}
       : i \in DOMAIN Order}

(* The hulls, of the locals that are live anywhere and may have a register. *)
LiveIntervals(locals) ==
  [l \in {x \in locals \ function.pinned : Marked(x) # {}} |->
     [start |-> Min(Marked(l)), end |-> Max(Marked(l))]]

-----------------------------------------------------------------------------
(* Properties *)

DefinedIn(block) == {i.defs : i \in Range(function.blocks[block].statements)}

(* What a block reads before it writes it. *)
ReadFirst(block) ==
  LET code == function.blocks[block].statements
      written(j) == {code[k].defs : k \in 1 .. j - 1}
  IN (UNION {Range(code[j].reads) \ written(j) : j \in DOMAIN code})
     \cup (Range(function.blocks[block].reads) \ DefinedIn(block))

(* The blocks a value of l that enters `block` may reach unwritten. *)
Carried(block, l) ==
  LET into[n \in 0 .. Len(function.blocks)] ==
        IF n = 0 THEN {block}
        ELSE into[n - 1] \cup
             UNION {Range(function.blocks[b].successors) :
                      b \in {x \in into[n - 1] : l \notin DefinedIn(x)}}
  IN into[Len(function.blocks)]

(* At the fixpoint a local is live into a block exactly if some path from there
   reads it before any write: a value carried round a loop is neither missed
   nor kept longer than that (`Liveness` in cfg.rs). *)
LivenessIsExact ==
  FlowDone =>
    \A b \in reachable : \A l \in UNION {liveIn[x] \cup ReadFirst(x) : x \in Blocks} :
      l \in liveIn[b] <=> \E c \in Carried(b, l) : l \in ReadFirst(c)

=============================================================================
