------------------------------- MODULE Optimizer -------------------------------
(***************************************************************************)
(* The release pipeline over a module (opt.rs, opt/inline.rs): calls through *)
(* closures made direct, small functions inlined, dead closures taken away,  *)
(* and then rounds of constant propagation, control-flow simplification and  *)
(* dead code elimination, each of them followed by the verifier.             *)
(***************************************************************************)
EXTENDS MirVerifier

CONSTANTS
  MAX_ROUNDS,             \* rounds of the pipeline
  MAX_DATAFLOW_ROUNDS,    \* rounds of one constant propagation
  MAX_CALLEE_STATEMENTS, MAX_CALLEE_BLOCKS,                \* what may be inlined,
  MAX_HINTED_CALLEE_STATEMENTS, MAX_HINTED_CALLEE_BLOCKS,  \* what if it was asked for,
  MAX_CALLER_GROWTH,      \* and how much of it
  CLOSURE_HEADER          \* the words of a closure's block before its captures

VARIABLES
  module,     \* as the passes have left it
  stage,      \* the pass that runs next, or how it ended
  unclaimed,  \* inlining: the functions not yet gone through
  growth,     \* inlining: what has been added to the first of them
  bodies,     \* inlining: the module as it was before
  rounds, changed,
  volatile    \* how many volatile accesses each function has

optVars == <<module, stage, unclaimed, growth, bodies, rounds, changed, volatile>>

CodeAt(function, b, p) == function.blocks[b].code[p]
EachBlock(function, new(_)) == [function EXCEPT !.blocks = Mapped(@, LAMBDA b : new(function.blocks[b]))]
Compiled == DOMAIN module.functions \ module.externs
EachFunction(new(_)) ==
  [module EXCEPT !.functions = [f \in DOMAIN @ |-> IF f \in Compiled THEN new(@[f]) ELSE @[f]]]

-----------------------------------------------------------------------------
(* Devirtualization *)

(* The instruction that last defined a local above a position, if one did. *)
LastDefinition(code, p, l) ==
  LET at == {j \in 1 .. p - 1 : defs(code[j]) = l} IN IF at = {} THEN {} ELSE {code[Max(at)]}

(* Where the code word of a closure came from: out of a block, through plain
   copies of it, that a structure of this block's own was built for. *)
trace_closure_symbol(code, p, callee) ==
  LET loaded == UNION {LastDefinition(code, p, i.args[1]) :
                         i \in {j \in LastDefinition(code, p, callee) : j.op = "field" /\ j.n = 0}}
      follow(is) == UNION {IF i.op = "assign" THEN LastDefinition(code, p, i.args[1]) ELSE {i} : i \in is}
      built == {i \in Settled(follow, loaded, Len(code)).now :
                  i.op = "struct" /\ i.name \in DOMAIN module.structs /\ i.args # <<>>}
  IN {j.n : j \in {x \in UNION {LastDefinition(code, p, i.args[1]) : i \in built} : x.op = "fn"}}
     \cap Compiled

devirtualize_block(block) ==
  [block EXCEPT !.code = [p \in DOMAIN @ |->
     LET i     == @[p]
         known == {f \in trace_closure_symbol(@, p, i.args[1]) :
                     Len(module.functions[f].params) = Len(i.args) - 1}
     IN IF i.op = "callValue" /\ known # {}
        THEN LET f == CHOOSE f \in known : TRUE
             IN Call(i.dst, f, Tail(i.args), Append(ParamTypes(module.functions[f]), ResultType(i)))
        ELSE i]]

-----------------------------------------------------------------------------
(* Inlining *)

Callees(function) == {i.n : i \in Of(function, {"call"})}
(* A function that reaches itself through calls. *)
Recursive(f) ==
  f \in Settled(LAMBDA reached : reached \cup UNION {Callees(bodies.functions[g]) : g \in reached},
                Callees(bodies.functions[f]), Len(bodies.functions)).now

body_size(function) == Fold(LAMBDA n, b : n + Len(b.code), 0, function.blocks)

(* The bodies that may be copied are those from before the first was. *)
collect_candidates ==
  {f \in DOMAIN bodies.functions :
     LET function == bodies.functions[f] IN
       /\ ~Recursive(f)
       /\ Len(function.blocks) <= IF function.hint THEN MAX_HINTED_CALLEE_BLOCKS ELSE MAX_CALLEE_BLOCKS
       /\ body_size(function) <= IF function.hint THEN MAX_HINTED_CALLEE_STATEMENTS ELSE MAX_CALLEE_STATEMENTS
       /\ \A b \in DOMAIN function.blocks : function.blocks[b].end.k # "unreachable"}

(* The first call of a function by itself that may be replaced by the body:
   block and position. *)
CallSites(f) ==
  LET function == module.functions[f] IN
  {s \in (DOMAIN function.blocks) \X (1 .. body_size(function)) :
     /\ s[2] \in DOMAIN function.blocks[s[1]].code
     /\ LET i == CodeAt(function, s[1], s[2]) IN
          /\ i.op = "call" /\ i.n # f
          /\ i.n \notin module.externs
          /\ bodies.functions[i.n].owner = function.owner
          /\ i.n \in collect_candidates
          /\ Len(bodies.functions[i.n].params) = Len(i.args)}

find_call_site(sites) ==
  CHOOSE s \in sites : \A t \in sites : s[1] < t[1] \/ (s[1] = t[1] /\ s[2] <= t[2])

(* The callee's locals and blocks are appended; the block of the call ends with
   the arguments bound and the body entered; what followed the call is a block
   of its own, that every return of the body goes to. *)
splice(caller, b, p, callee) ==
  LET call  == CodeAt(caller, b, p)
      base  == Len(caller.locals)
      from  == Len(caller.blocks)
      after == from + Len(callee.blocks) + 1
      own(l) == IF l = 0 THEN 0 ELSE l + base
      remapped(i) == [i EXCEPT !.dst = own(@), !.args = [k \in DOMAIN @ |-> own(@[k])]]
      ending(end) == IF end.k = "return" THEN Goto(after)
                     ELSE [end EXCEPT !.uses = [k \in DOMAIN @ |-> own(@[k])],
                                      !.targets = [k \in DOMAIN @ |-> @[k] + from]]
      bound(end) == IF end.k = "return" /\ end.uses # <<>> THEN <<Assign(call.dst, own(end.uses[1]))>> ELSE <<>>
      body(block) == BasicBlock([k \in DOMAIN block.code |-> remapped(block.code[k])] \o bound(block.end),
                                ending(block.end))
      old   == caller.blocks[b]
      entry == BasicBlock(SubSeq(old.code, 1, p - 1) \o
                            [k \in DOMAIN callee.params |-> Assign(own(callee.params[k]), call.args[k])],
                          Goto(callee.entry + from))
      rest  == BasicBlock(SubSeq(old.code, p + 1, Len(old.code)), old.end)
  IN [caller EXCEPT !.locals = @ \o callee.locals,
                    !.blocks = [@ EXCEPT ![b] = entry] \o [k \in DOMAIN callee.blocks |-> body(callee.blocks[k])]
                               \o <<rest>>]

-----------------------------------------------------------------------------
(* Dead closures *)

Reads(function) == UNION {Range(uses(i)) : i \in Code_(function)} \cup
                   UNION {Range(function.blocks[b].end.uses) : b \in DOMAIN function.blocks}

(* Functions that never mention their last parameter, and layouts that hold the
   header of a closure and nothing else. *)
UnreadBlockParameter ==
  {f \in Compiled : module.functions[f].params # <<>>
                    /\ Last(module.functions[f].params) \notin Reads(module.functions[f])}
BareBlocks == {s \in DOMAIN module.structs : Len(module.structs[s]) = CLOSURE_HEADER}

Positions(function) ==
  UNION {{<<b, p>> : p \in DOMAIN function.blocks[b].code} : b \in DOMAIN function.blocks}
At(function, s) == CodeAt(function, s[1], s[2])
DefinedOnce(function, l) == Cardinality({s \in Positions(function) : defs(At(function, s)) = l}) = 1

(* The locals that hold the block a local was built with: copies of it, where
   the copy is the only definition. *)
block_aliases(function, origin) ==
  LET copies == {c \in Of(function, {"assign"}) : DefinedOnce(function, c.dst)}
  IN Settled(LAMBDA grown : grown \cup {c.dst : c \in {i \in copies : i.args[1] \in grown}},
             {origin}, Len(function.locals)).now

CodeLoad(function, i) == i.op = "field" /\ i.n = 0 /\ i.dst \notin Reads(function)

(* Copies, the word a direct call hands to a parameter nobody reads, loads of
   the code word that nobody reads, and the drop. *)
Permitted(function, i, aliases) ==
  \/ i.op = "assign" /\ i.dst \in aliases
  \/ i.op = "call" /\ Last(i.args) \in aliases /\ i.n \in UnreadBlockParameter
  \/ CodeLoad(function, i)
  \/ i.op = "drop"

permitted_uses(function, aliases) ==
  /\ \A b \in DOMAIN function.blocks : Range(function.blocks[b].end.uses) \cap aliases = {}
  /\ \A i \in Code_(function) : Range(uses(i)) \cap aliases # {} => Permitted(function, i, aliases)

eliminate_dead_allocations_in(function) ==
  LET dead == {s \in Positions(function) :
                 LET i == At(function, s) IN
                   /\ i.op = "struct" /\ function.locals[i.dst].k = "fn" /\ i.name \in BareBlocks
                   /\ permitted_uses(function, block_aliases(function, i.dst))}
      gone == UNION {{s \in Positions(function) :
                        LET i == At(function, s) IN
                          /\ Range(uses(i)) \cap block_aliases(function, At(function, d).dst) # {}
                          /\ i.op \in {"field", "drop"}} : d \in dead}
      kept(b) == SelectSeq([p \in DOMAIN function.blocks[b].code |-> p], LAMBDA p : <<b, p>> \notin gone)
      new(s) == IF s \in dead THEN ConstInt(At(function, s).dst, 0) ELSE At(function, s)
  IN [function EXCEPT !.blocks = [b \in DOMAIN @ |->
        [@[b] EXCEPT !.code = [k \in DOMAIN kept(b) |-> new(<<b, kept(b)[k]>>)]]]]

-----------------------------------------------------------------------------
(* Constant propagation.  What is known of a local is nothing yet, one constant,
   or that it varies. *)

Lattice(k, kind, n) == [k |-> k, kind |-> kind, n |-> n]
Unknown == Lattice("unknown", "", 0)
Varying == Lattice("varying", "", 0)
Known(kind, n) == Lattice("known", kind, n)

meet(v, w) == IF v.k = "unknown" THEN w ELSE IF w.k = "unknown" \/ v = w THEN v ELSE Varying

(* codegen.rs: an integer's own width and sign, and for the rest a signed word. *)
regime(ty) == IF ty.k = "int" THEN ty ELSE Word

(* Nothing that would stop the program is folded: overflow, division by zero, a
   shift past the width. *)
fold_binary(op, ty, a, b) ==
  LET kind == regime(ty)
      whole == kind.signed \/ kind.bits < WordBits   \* computed as a signed word
      x == IF whole THEN Signed(a) ELSE a
      y == IF whole THEN Signed(b) ELSE b
      amount == Signed(b)
      fits(n) == InRange(n, IF whole THEN Word ELSE kind)
      int(n) == IF canonicalize(Wrap(n), kind) = Wrap(n) THEN {Known("int", Wrap(n))} ELSE {}
      checked(n) == IF fits(n) THEN int(n) ELSE {}
      shifted(n) == IF amount \in 0 .. kind.bits - 1 THEN {Known("int", canonicalize(Wrap(n), kind))} ELSE {}
      low == IF kind.signed THEN Signed(a) ELSE a
      bool(p) == {Known("bool", Truth(p))}
  IN CASE op = "add" -> checked(x + y)
       [] op = "sub" -> checked(x - y)
       [] op = "mul" -> checked(x * y)
       [] op = "div" -> IF y = 0 THEN {} ELSE checked(Quotient(x, y))
       [] op = "rem" -> IF y = 0 \/ ~fits(Quotient(x, y)) THEN {} ELSE checked(x - y * Quotient(x, y))
       [] op \in {"and", "or", "xor"} -> int(Operation(op, a, b, Word))
       [] op = "shl" -> shifted(a * 2 ^ (amount % WordBits))
       [] op = "shr" -> shifted(low \div 2 ^ (amount % WordBits))
       [] op = "less" -> bool(x < y)
       [] op = "greater" -> bool(x > y)
       [] op = "lessEqual" -> bool(x <= y)
       [] op = "greaterEqual" -> bool(x >= y)
       [] op = "equal" -> bool(x = y)
       [] op = "notEqual" -> bool(x # y)

Folded(state, i) ==
  IF \A k \in 1 .. 2 : state[i.args[k]].k = "known"
  THEN fold_binary(i.name, i.types[1], state[i.args[1]].n, state[i.args[2]].n) ELSE {}

(* The one there is, or another. *)
Only(values, other) == IF values = {} THEN other ELSE CHOOSE v \in values : TRUE

(* What an instruction does to what is known.  A local whose address is taken
   may be written behind the pass's back. *)
apply(i, state) ==
  LET set(v) == [state EXCEPT ![i.dst] = v] IN
  CASE i.op \in {"int", "bool"} -> set(Known(i.op, Wrap(i.n)))
    [] i.op = "assign" -> set(state[i.args[1]])
    [] i.op = "binary" -> set(Only(Folded(state, i), Varying))
    [] i.op = "address" -> [set(Varying) EXCEPT ![i.args[1]] = Varying]
    [] i.dst # 0 /\ i.op \notin {"int", "bool", "assign", "binary", "address"} -> set(Varying)
    [] OTHER -> state

transfer(function, b, state) == Fold(LAMBDA s, i : apply(i, s), state, function.blocks[b].code)

(* One round over the blocks, in the order of the walk; what is known where a
   block begins is met with what every predecessor leaves. *)
DataflowRound(function, entry) ==
  LET joined(known, t, left) ==
        [known EXCEPT ![t] = IF @ = <<>> THEN left ELSE Mapped(left, LAMBDA l : meet(known[t][l], left[l]))]
      passed(known, b) ==
        LET left == transfer(function, b, known[b]) IN
        IF known[b] = <<>> THEN known
        ELSE Fold(LAMBDA k, t : joined(k, t, left), known, successors(function, b))
  IN Fold(passed, entry, reverse_postorder(function))

(* What is known at the start of each block (<<>> where no walk gets), after at
   most so many rounds that changed something. *)
Dataflow(function) ==
  LET given == Mapped(function.locals, LAMBDA l : IF l \in Range(function.params) THEN Varying ELSE Unknown)
      start == Mapped(function.blocks, LAMBDA b : IF b = function.entry THEN given ELSE <<>>)
  IN Settled(LAMBDA entry : DataflowRound(function, entry), start, MAX_DATAFLOW_ROUNDS)

rewrite_with_constants(function, entry) ==
  LET constant(d, v) == IF v.kind = "int" THEN ConstInt(d, v.n) ELSE ConstBool(d, v.n)
      rewritten(state, i) ==
        Only(IF i.op = "binary" THEN {constant(i.dst, v) : v \in Folded(state, i)} ELSE {}, i)
      through(b, code) ==
        Fold(LAMBDA s, i :
               [state |-> apply(i, s.state),
                code |-> IF i.op = "assign" /\ i.dst = i.args[1] THEN s.code
                         ELSE Append(s.code, rewritten(s.state, i))],
             [state |-> entry[b], code |-> <<>>], code)
      decided(end, c) == IF c.k = "known" /\ c.kind = "bool" THEN Goto(end.targets[IF c.n = 1 THEN 1 ELSE 2]) ELSE end
      ended(end, to) == BasicBlock(to.code, IF end.k = "branch" THEN decided(end, to.state[end.uses[1]]) ELSE end)
      block(b) ==
        IF entry[b] = <<>> THEN function.blocks[b]
        ELSE ended(function.blocks[b].end, through(b, function.blocks[b].code))
  IN [function EXCEPT !.blocks = Mapped(@, block)]

-----------------------------------------------------------------------------
(* Simplification of the control flow *)

thread_gotos(function) ==
  LET skips(b) == LET block == function.blocks[b] IN
        block.code = <<>> /\ block.end.k = "goto" /\ block.end.targets[1] # b
      resolve(t) == Settled(LAMBDA b : IF skips(b) THEN function.blocks[b].end.targets[1] ELSE b,
                            t, Len(function.blocks)).now
  IN EachBlock(function, LAMBDA block :
       [block EXCEPT !.end.targets = [k \in DOMAIN @ |-> resolve(@[k])]])

(* Mutant of Merges: a block that others go to as well is merged. *)
MutantMergesShared(function) ==
  {b \in DOMAIN function.blocks :
     /\ is_reachable(function, b) /\ function.blocks[b].end.k = "goto"
     /\ function.blocks[b].end.targets[1] \notin {b, function.entry}}

(* A block goes into the one that leads to it, if no other does. *)
Merges(function) ==
  {b \in DOMAIN function.blocks :
     /\ is_reachable(function, b) /\ function.blocks[b].end.k = "goto"
     /\ LET t == function.blocks[b].end.targets[1]
        IN t # b /\ t # function.entry /\ Predecessors(function, t) = <<b>>}

merge_linear_chains(function) ==
  LET merge(now) ==
        LET b == Min(Merges(now))
            t == now.blocks[b].end.targets[1]
        IN IF Merges(now) = {} THEN now
           ELSE [now EXCEPT !.blocks[b] = BasicBlock(@.code \o now.blocks[t].code, now.blocks[t].end),
                            !.blocks[t] = BasicBlock(<<>>, Unreachable)]
  IN Settled(merge, function, Len(function.blocks)).now

remove_unreachable_blocks(function) ==
  LET kept == SelectSeq([b \in DOMAIN function.blocks |-> b], LAMBDA b : is_reachable(function, b))
      new(b) == CHOOSE k \in DOMAIN kept : kept[k] = b
  IN [function EXCEPT
        !.entry = new(@),
        !.blocks = [k \in DOMAIN kept |-> [function.blocks[kept[k]] EXCEPT
                      !.end.targets = [j \in DOMAIN @ |-> new(@[j])]]]]

simplify_cfg(function) == remove_unreachable_blocks(merge_linear_chains(thread_gotos(function)))

-----------------------------------------------------------------------------
(* Dead code *)

(* Mutant of is_pure: arithmetic stops nothing. *)
MutantArithmeticIsPure(i) == i.op \notin {"call", "builtin", "callValue", "drop", "free", "volatileLoad",
                                         "volatileStore", "fieldStore", "enumFieldStore"}

is_pure(i) == i.op \notin {"binary", "call", "builtin", "callValue", "drop", "free", "volatileLoad", "volatileStore",
                           "fieldStore", "enumFieldStore"}

eliminate_dead_code(function) ==
  LET sweep(now) ==
        LET used == Reads(now) \cup Range(now.params) IN
        EachBlock(now, LAMBDA block : [block EXCEPT !.code = SelectSeq(@, LAMBDA i : ~is_pure(i) \/ i.dst \in used)])
  IN Settled(sweep, function, body_size(function) + 1).now

volatile_count(function) ==
  Cardinality({s \in Positions(function) : At(function, s).op \in {"volatileLoad", "volatileStore"}})
volatile_counts(m) == [f \in DOMAIN m.functions |-> volatile_count(m.functions[f])]

-----------------------------------------------------------------------------
(* The pipeline *)

(* A pass leaves a module, and the verifier looks at it before the next one. *)
check_after(m, next) == stage' = IF check_block_targets(m) /\ verify_module(m) THEN next ELSE "complaint"
(* The assertion on the volatile accesses, in a build that has assertions. *)
check_volatile(m, exact, next) ==
  LET ok == \A f \in Compiled :
              IF exact THEN volatile_counts(m)[f] = volatile[f] ELSE volatile_counts(m)[f] <= volatile[f]
  IN IF ok THEN check_after(m, next) ELSE stage' = "assertion"

OptimizeInit(modules) ==
  /\ module \in modules
  /\ stage = "lowered" /\ bodies = module
  /\ unclaimed = <<>> /\ growth = 0 /\ rounds = 0 /\ changed = FALSE /\ volatile = <<>>

(* The driver's own check, of what lowering has made. *)
VerifyLowered ==
  /\ stage = "lowered"
  /\ check_after(module, "devirtualization")
  /\ UNCHANGED <<module, unclaimed, growth, bodies, rounds, changed, volatile>>

Devirtualize ==
  /\ stage = "devirtualization"
  /\ module' = EachFunction(LAMBDA function : EachBlock(function, devirtualize_block))
  /\ bodies' = module'
  /\ unclaimed' = [f \in DOMAIN module.functions |-> f] /\ growth' = 0
  /\ check_after(module', "inlining")
  /\ UNCHANGED <<rounds, changed, volatile>>

Inline ==
  /\ stage = "inlining" /\ unclaimed # <<>>
  /\ LET f        == Head(unclaimed)
         sites    == IF f \in Compiled THEN CallSites(f) ELSE {}
         site     == find_call_site(sites)
         callee   == bodies.functions[CodeAt(module.functions[f], site[1], site[2]).n]
         fits     == sites # {} /\ growth + body_size(callee) <= MAX_CALLER_GROWTH
     IN \/ /\ fits
           /\ module' = [module EXCEPT !.functions[f] = splice(@, site[1], site[2], callee)]
           /\ growth' = growth + body_size(callee)
           /\ UNCHANGED <<stage, unclaimed>>
        \/ /\ ~fits
           /\ unclaimed' = Tail(unclaimed) /\ growth' = 0
           /\ IF Len(unclaimed) = 1 THEN check_after(module, "allocations") ELSE UNCHANGED stage
           /\ UNCHANGED module
  /\ UNCHANGED <<bodies, rounds, changed, volatile>>

EliminateDeadAllocations ==
  /\ stage = "allocations"
  /\ module' = EachFunction(eliminate_dead_allocations_in)
  /\ volatile' = volatile_counts(module')
  /\ check_after(module', "constants")
  /\ UNCHANGED <<unclaimed, growth, bodies, rounds, changed>>

(* A lattice that has not settled is not used: the compilation ends. *)
PropagateConstants ==
  /\ stage = "constants" /\ rounds < MAX_ROUNDS
  /\ IF \E f \in Compiled : Dataflow(module.functions[f]).changed
     THEN stage' = "unsettled" /\ UNCHANGED <<module, changed>>
     ELSE /\ module' = EachFunction(LAMBDA function : rewrite_with_constants(function, Dataflow(function).now))
          /\ changed' = (module' # module)
          /\ check_volatile(module', TRUE, "control flow")
  /\ UNCHANGED <<unclaimed, growth, bodies, rounds, volatile>>

SimplifyCfg ==
  /\ stage = "control flow"
  /\ module' = EachFunction(simplify_cfg)
  /\ changed' = (changed \/ module' # module)
  /\ volatile' = volatile_counts(module')
  /\ check_volatile(module', FALSE, "dead code")
  /\ UNCHANGED <<unclaimed, growth, bodies, rounds>>

EliminateDeadCode ==
  /\ stage = "dead code"
  /\ module' = EachFunction(eliminate_dead_code)
  /\ LET more == changed \/ module' # module
         last == ~more \/ rounds + 1 = MAX_ROUNDS
     IN check_volatile(module', TRUE, IF last THEN "optimized" ELSE "constants")
  /\ rounds' = rounds + 1
  /\ UNCHANGED <<unclaimed, growth, bodies, changed, volatile>>

Optimize ==
  \/ VerifyLowered \/ Devirtualize \/ Inline \/ EliminateDeadAllocations
  \/ PropagateConstants \/ SimplifyCfg \/ EliminateDeadCode
=============================================================================
