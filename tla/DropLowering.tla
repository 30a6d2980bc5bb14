---------------------------- MODULE DropLowering ----------------------------
(***************************************************************************)
(* Where mir.rs puts the drops: a body of BorrowCheck, lowered token by     *)
(* token to basic blocks, with the set of bindings that hold a value on the *)
(* path being lowered, and the scopes that end wherever that path leaves.   *)
(*                                                                          *)
(* A binding's local has the binding's number.  The scope a branch or a     *)
(* loop has around its body's is left out: nothing is ever in it.           *)
(***************************************************************************)
EXTENDS BorrowCheck

VARIABLES
  blocks,    \* [body, next]: instructions, and the terminator
  current,   \* the block being filled
  live,      \* the bindings that still hold a value
  left,      \* the statements lowered last ended by leaving
  scopes,    \* what every open scope owns and what it deferred, in order
  nest       \* the forms that are open: their blocks, and `live` around them

lowerVars == <<blocks, current, live, left, scopes, nest>>

(* "new", "copy", "read", "grow", "eat" and "drop" do what they say to locals; "field"
   reads one out of a block, and "free" gives the block back.  A call of what a `defer`
   registered is a read, marked with its number. *)
Instruction(op, to, from) == [op |-> op, to |-> to, from |-> from]
Block == [body |-> <<>>, next |-> [op |-> "unreachable", to |-> <<>>, value |-> None]]
Goto(b) == [op |-> "goto", to |-> <<b>>, value |-> None]
Branch(b, c) == [op |-> "branch", to |-> <<b, c>>, value |-> None]
Test(local, tag, b, c) == [op |-> "tag", to |-> <<b, c>>, value |-> <<local, tag>>]
Return(value) == [op |-> "return", to |-> <<>>, value |-> value]

Scope == [bindings |-> <<>>, defers |-> <<>>]

emit_in(bs, b, code) == [bs EXCEPT ![b].body = @ \o code]
Sealed(bs, b, next) == [bs EXCEPT ![b].next = next]
Fresh3(bs) == bs \o <<Block, Block, Block>>

LowerInit ==
  /\ blocks = <<Block>> /\ current = 1
  /\ live = {} /\ left = FALSE
  /\ scopes = <<Scope>> /\ nest = <<>>

-----------------------------------------------------------------------------
(* The end of a scope *)

run_defers(scope) ==
  LET last == Reverse(scope.defers)
  IN [i \in DOMAIN last |-> Instruction("defer", last[i].at, last[i].reads)]

(* Mutant: in a scope that ends by falling through, what is deferred runs last. *)
MutantDefersLast(scope, holding) ==
  LET owned == SelectSeq(Reverse(scope.bindings), LAMBDA id : id \in holding /\ ~IsRef(id))
  IN [i \in DOMAIN owned |-> Instruction("drop", None, owned[i])] \o run_defers(scope)

(* drop_scope_except: what is deferred, then what is owned, last first.  The value
   that leaves has been moved out of its binding, so it needs no exception. *)
ScopeEnd(scope, holding) ==
  LET owned == SelectSeq(Reverse(scope.bindings), LAMBDA id : id \in holding /\ ~IsRef(id))
  IN run_defers(scope) \o [i \in DOMAIN owned |-> Instruction("drop", None, owned[i])]

(* Mutant: the unwinder forgets the scope it starts from. *)
MutantUnwindShort(depth, holding) ==
  FlattenSeq([i \in 1 .. Len(scopes) - depth |-> ScopeEnd(scopes[Len(scopes) + 1 - i], holding)])

(* Every scope from this one outwards ends, innermost first.  Nothing is marked
   dead: control leaves. *)
unwind_scopes(depth, holding) ==
  FlattenSeq([i \in 1 .. Len(scopes) + 1 - depth |->
                ScopeEnd(scopes[Len(scopes) + 1 - i], holding)])

Owned(scope) == Range(scope.bindings)

-----------------------------------------------------------------------------
(* Statements *)

Emit(code) ==
  /\ blocks' = emit_in(blocks, current, code)
  /\ UNCHANGED <<current, left, nest>>

(* Mutant: what was moved out of a binding stays in it. *)
MutantStillLive(id) == live

(* A value that is taken leaves its binding. *)
Without(id) == live \ {id}

Bound(scope) == [scope EXCEPT !.bindings = Append(@, Binding)]

LowerLet ==
  /\ Emit(IF Here.from = Fresh THEN <<Instruction("new", Binding, Here.made)>>
          ELSE <<Instruction("copy", Binding, Named)>>)
  /\ live' = (IF Here.op = "let" /\ Here.from # Fresh THEN Without(Named) ELSE live) \cup {Binding}
  /\ scopes' = [scopes EXCEPT ![Len(scopes)] = Bound(@)]

LowerCall ==
  /\ Emit(CASE Here.op = "show" -> <<Instruction("read", None, Named)>>
            [] Here.op = "grow" -> <<Instruction("grow", None, Named)>>
            [] Here.op = "eat"  -> <<Instruction("eat", None, Named)>>)
  /\ live' = IF Here.op = "eat" THEN Without(Named) ELSE live
  /\ UNCHANGED scopes

(* Mutant: a binding that was moved out of is dropped all the same. *)
MutantDropAlways(id) == <<Instruction("drop", None, id)>>

(* What `set` finds in the binding is dropped. *)
Overwritten(id) == IF id \in live THEN <<Instruction("drop", None, id)>> ELSE <<>>

(* The new value is made first; it is nobody's until it is assigned. *)
LowerSet ==
  /\ Emit((IF Here.op = "set" THEN Overwritten(Target) ELSE <<Instruction("eat", None, Target)>>)
          \o <<Instruction("new", Target, Here.made)>>)
  /\ live' = live \cup {Target}
  /\ UNCHANGED scopes

(* Registration is the whole of it.  "arm" is no instruction of the code: it marks
   that this point was passed. *)
LowerDefer ==
  /\ Emit(<<Instruction("arm", at, None)>>)
  /\ scopes' = [scopes EXCEPT ![Len(scopes)].defers = Append(@, [at |-> at, reads |-> Named])]
  /\ UNCHANGED live

(* The error leaves through every scope; the other arm goes on. *)
LowerTry ==
  LET arms == blocks \o <<Block, Block>>
      fine == Len(blocks) + 1
      error == Len(blocks) + 2
  IN /\ blocks' = Sealed(emit_in(Sealed(arms, current, Branch(fine, error)),
                                 error, unwind_scopes(1, live)),
                         error, Return(None))
     /\ current' = fine
     /\ UNCHANGED <<live, left, scopes, nest>>

LowerReturn ==
  /\ live' = IF Here.from = None THEN live ELSE Without(Named)
  /\ blocks' = Append(Sealed(emit_in(blocks, current, unwind_scopes(1, live')), current,
                             Return(IF Here.from = None THEN None ELSE Named)),
                      Block)
  /\ current' = Len(blocks) + 1 /\ left' = TRUE
  /\ UNCHANGED <<scopes, nest>>

(* lower_loop_jump, to the innermost loop. *)
LowerJump ==
  LET loop == Last(SelectSeq(nest, LAMBDA f : f.op \in {"loop", "while"}))
      goes == IF Here.op = "continue" THEN loop.first ELSE loop.first + 2
  IN /\ blocks' = Append(Sealed(emit_in(blocks, current, unwind_scopes(loop.depth, live)), current,
                                Goto(goes)),
                         Block)
     /\ current' = Len(blocks) + 1 /\ left' = TRUE
     /\ UNCHANGED <<live, scopes, nest>>

-----------------------------------------------------------------------------
(* Forms *)

(* Blocks first, first + 1 and first + 2 are the branches of an `if` and where they
   meet, or the condition, the body and the exit of a loop.  The arms of a `match`
   meet in block first; `check` is where the next is tested, `ends` where those that
   did not leave ended, and with what. *)
Nest(op) ==
  [op |-> op, first |-> Len(blocks) + 1, depth |-> Len(scopes) + 1, base |-> live, at |-> at,
   live |-> {}, left |-> FALSE, end |-> 0,
   entered |-> FALSE, check |-> current, ends |-> <<>>, scrutinee |-> None]

LowerHead ==
  LET first == Len(blocks) + 1
      into(b, next) == Sealed(Fresh3(blocks), b, next)
  IN /\ blocks' = CASE Here.op = "do" -> blocks
                    [] Here.op = "if" -> into(current, Branch(first, first + 1))
                    [] Here.op = "loop" -> Sealed(into(current, Goto(first)), first, Goto(first + 1))
                    [] Here.op = "while" -> Sealed(into(current, Goto(first)), first,
                                                   Branch(first + 1, first + 2))
     /\ current' = CASE Here.op = "do" -> current [] Here.op = "if" -> first
                     [] OTHER -> first + 1
     /\ nest' = Append(nest, Nest(Here.op))
     /\ scopes' = Append(scopes, Scope)
     /\ UNCHANGED <<live, left>>

Inner == Last(nest)
Ended == emit_in(blocks, current, ScopeEnd(Last(scopes), live))
Outlive == live \ Owned(Last(scopes))

(* A branch that left has no way to where the branches meet. *)
Joined(bs, meet) == IF left THEN bs ELSE Sealed(bs, current, Goto(meet))

LowerElse ==
  /\ blocks' = Joined(Ended, Inner.first + 2)
  /\ nest' = [nest EXCEPT ![Len(nest)] = [@ EXCEPT !.live = Outlive, !.left = left,
                                                   !.end = current]]
  /\ live' = Inner.base /\ left' = FALSE /\ current' = Inner.first + 1
  /\ scopes' = Append(Front(scopes), Scope)

(* Mutant: one branch has it and the other does not, and nobody drops it. *)
MutantNoBalance(kept, lost) == <<>>

(* A branch that still has what the other gave away drops it. *)
Balance(kept, lost) ==
  LET only == SetToSortSeq({id \in kept \ lost : id < Id(Inner.at, 0) /\ ~IsRef(id)}, >)
  IN [i \in DOMAIN only |-> Instruction("drop", None, only[i])]

(* Mutant: a branch that left is merged like any other. *)
MutantMergeLeft(thenLeft, elseLeft) == thenLeft /\ elseLeft

OneLeft(thenLeft, elseLeft) == thenLeft \/ elseLeft

LowerEndIf ==
  LET then == Inner.live
      else == Outlive
  IN /\ blocks' = IF OneLeft(Inner.left, left) THEN Joined(Ended, Inner.first + 2)
                  ELSE emit_in(emit_in(Joined(Ended, Inner.first + 2),
                                       Inner.end, Balance(then, else)),
                               current, Balance(else, then))
     /\ live' = CASE Inner.left -> else
                  [] left /\ ~Inner.left -> then
                  [] OTHER -> then \cap else
     /\ left' = (Inner.left /\ left)
     /\ current' = Inner.first + 2
     /\ nest' = Front(nest) /\ scopes' = Front(scopes)

(* The loop is where its breaks meet: control goes on at its exit. *)
LowerEndLoop ==
  /\ blocks' = Sealed(Ended, current, Goto(Inner.first))
  /\ live' = Outlive
  /\ left' = FALSE
  /\ current' = Inner.first + 2
  /\ nest' = Front(nest) /\ scopes' = Front(scopes)

LowerEndDo ==
  /\ blocks' = Ended
  /\ live' = Outlive
  /\ nest' = Front(nest) /\ scopes' = Front(scopes)
  /\ UNCHANGED <<left, current>>

-----------------------------------------------------------------------------
(* Arms *)

(* Where a part of the pattern is: the scrutinee itself, or a local of its own. *)
PartOf(p, r) == IF r = 1 /\ p[1].k # "bind" THEN Inner.scrutinee ELSE Id(at, r)

(* pattern_field, and what a name at the top is assigned. *)
pattern_field(p, r) ==
  CASE r > 1 -> <<Instruction("field", Id(at, r), <<PartOf(p, p[r].up), p[r].index>>)>>
    [] r = 1 /\ p[r].k = "bind" -> <<Instruction("copy", Id(at, r), Inner.scrutinee)>>
    [] OTHER -> <<>>

(* branch_pattern: a part is read and its tag compared, one after another, where
   that can fail. *)
branch_pattern(bs, from, p, success, failure) ==
  LET test(w, r) ==
        LET read == emit_in(w.blocks, w.at, pattern_field(p, r)) IN
          IF Irrefutable(p, r) THEN w
          ELSE IF p[r].k # "enum" THEN [w EXCEPT !.blocks = read]
          ELSE [blocks |-> Append(Sealed(read, w.at, Test(PartOf(p, r), p[r].tag, Len(read) + 1, failure)), Block),
                at |-> Len(read) + 1]
      tested == FoldLeft(test, [blocks |-> bs, at |-> from], [r \in DOMAIN p |-> r])
  IN Sealed(tested.blocks, tested.at, Goto(success))

(* Mutant: what the pattern does not name is left where it is. *)
MutantForgetsTheRest(p, looks) ==
  LET after(r) == SelectSeq(Reverse([i \in DOMAIN p |-> i]),
                            LAMBDA i : p[i].k \in {"enum", "struct"} /\ Max(Within(p, i)) = r)
  IN FlattenSeq([r \in DOMAIN p |->
       pattern_field(p, r)
       \o (IF looks THEN <<>>
           ELSE [i \in DOMAIN after(r) |-> Instruction("free", None, PartOf(p, after(r)[i]))])])

(* consume_pattern: what has a name is taken, what has none is dropped, and a block
   is given back behind everything in it; nothing of that through a borrow. *)
consume_pattern(p, looks) ==
  LET after(r) == SelectSeq(Reverse([i \in DOMAIN p |-> i]),
                            LAMBDA i : p[i].k \in {"enum", "struct"} /\ Max(Within(p, i)) = r)
  IN FlattenSeq([r \in DOMAIN p |->
       pattern_field(p, r)
       \o (IF looks THEN <<>>
           ELSE (IF p[r].k = "wild" THEN <<Instruction("drop", None, PartOf(p, r))>> ELSE <<>>)
                \o [i \in DOMAIN after(r) |-> Instruction("free", None, PartOf(p, after(r)[i]))])])

(* Mutant: the guard takes the value apart, and so may the next arm. *)
MutantGuardTakes(p, looks) == consume_pattern(p, looks)

(* bind_pattern_for_guard: every part is read, and none taken. *)
bind_pattern_for_guard(p, looks) == FlattenSeq([r \in DOMAIN p |-> pattern_field(p, r)])

LowerMatch ==
  /\ live' = IF Here.op = "look" \/ IsRef(Named) THEN live ELSE Without(Named)
  /\ blocks' = Append(blocks, Block)
  /\ nest' = Append(nest, [Nest(Here.op) EXCEPT !.base = live', !.left = TRUE, !.scrutinee = Named])
  /\ UNCHANGED <<current, left, scopes>>

(* An arm that did not leave goes to where they meet. *)
ArmEnds == IF left \/ ~Inner.entered THEN Inner.ends ELSE Append(Inner.ends, [block |-> current, live |-> Outlive])
ArmClosed == IF left \/ ~Inner.entered THEN blocks ELSE Sealed(Ended, current, Goto(Inner.first))
EveryArmLeft == Inner.left /\ (Inner.entered => left)

LowerArm ==
  LET p       == Here.to
      arm     == Len(blocks) + 1
      next    == arm + 1
      guard   == arm + 2
      guarded == Here.from # None
      made    == Fresh3(ArmClosed)
      asked   == IF guarded
                 THEN Sealed(emit_in(made, guard, bind_pattern_for_guard(p, Top.looks)
                                       \o <<Instruction("read", None, lookup_id(ArmEnv, Here.from))>>),
                             guard, Branch(arm, next))
                 ELSE made
      named   == SelectSeq([r \in DOMAIN p |-> r], LAMBDA r : r \in Binds(p))
      owned   == [i \in DOMAIN named |-> Id(at, named[i])]
  IN /\ blocks' = emit_in(branch_pattern(asked, Inner.check, p, IF guarded THEN guard ELSE arm, next),
                          arm, consume_pattern(p, Top.looks))
     /\ nest' = [nest EXCEPT ![Len(nest)] = [@ EXCEPT !.entered = TRUE, !.check = next, !.ends = ArmEnds,
                                                      !.left = EveryArmLeft]]
     /\ live' = Inner.base \cup Range(owned)
     /\ scopes' = Append(IF Inner.entered THEN Front(scopes) ELSE scopes, [Scope EXCEPT !.bindings = owned])
     /\ left' = FALSE /\ current' = arm

(* What survived in one arm and not in another is dropped where it survived. *)
Survivors(ends) == {id \in UNION {e.live : e \in Range(ends)} : \A e \in Range(ends) : id \in e.live}
BalanceArms(bs, ends) ==
  FoldLeft(LAMBDA all, e : emit_in(all, e.block, Balance(e.live, Survivors(ends))), bs, ends)

LowerEndMatch ==
  /\ blocks' = BalanceArms(Sealed(ArmClosed, Inner.check, Goto(Inner.first)), ArmEnds)
  /\ live' = IF ArmEnds = <<>> THEN Inner.base ELSE Inner.base \cap Survivors(ArmEnds)
  /\ left' = EveryArmLeft
  /\ current' = Inner.first
  /\ nest' = Front(nest) /\ scopes' = Front(scopes)

(* lower_body: a body that left has returned already. *)
LowerBody ==
  /\ blocks' = IF left THEN Ended ELSE Sealed(Ended, current, Return(None))
  /\ live' = Outlive
  /\ UNCHANGED <<current, left, scopes, nest>>
=============================================================================
