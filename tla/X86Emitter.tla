------------------------------ MODULE X86Emitter ------------------------------
(***************************************************************************)
(* The code generator for x86-64 (codegen.rs): what stands for each          *)
(* instruction once every local has a home.  rax, rcx and rdx are nobody's   *)
(* home; values pass through them.                                           *)
(***************************************************************************)
EXTENDS Lowering

INTEGER_ARGUMENTS == <<"rdi", "rsi", "rdx", "rcx", "r8", "r9">>
LEAF         == RegisterFile(<<"r10", "r11", "rbx", "r12", "r13", "r14", "r15">>, 2)
CALLEE_SAVED == RegisterFile(<<"rbx", "r12", "r13", "r14", "r15">>, 0)
Registers    == {"rax", "rdx", "rcx", "rdi", "rsi", "r8", "r9"} \cup Range(LEAF.wide)
SystemV      == Convention(INTEGER_ARGUMENTS, "rax", Range(CALLEE_SAVED.wide), FALSE)

ax == Reg("rax")
cx == Reg("rcx")
dx == Reg("rdx")
argument_register(k) == Reg(INTEGER_ARGUMENTS[k])
in_memory(o) == o.k = "frame"

Trap(cond, trap) == Jump(cond, Label(trampoline(trap)))
Full(ty) == ty.bits = WordBits
Unsigned(ty) == ~ty.signed /\ Full(ty)
Alu(x, to, a) == Arith(x, to, to, a)

copy(to, from) ==
  IF in_memory(to) /\ in_memory(from) THEN <<Mov(ax, from), Mov(to, ax)>> ELSE <<Mov(to, from)>>
load_immediate(to, n) ==
  IF in_memory(to) THEN <<Mov(ax, Imm(n)), Mov(to, ax)>> ELSE <<Mov(to, Imm(n))>>

field_address(to, base, k) ==
  IF k = 0 THEN copy(to, base) ELSE <<Mov(ax, base), Lea(cx, Mem("rax", k)), Mov(to, cx)>>
field_store(base, k, from) == <<Mov(ax, base), Mov(cx, from), Mov(Mem("rax", k), cx)>>
field_load(to, base, k)    == <<Mov(ax, base), Mov(cx, Mem("rax", k)), Mov(to, cx)>>

canonicalize_rax(ty) == IF ty.k # "int" \/ Full(ty) THEN <<>> ELSE <<Extend(ax, ty)>>
canonicalize_rax_checked(ty) ==
  <<Mov(cx, ax)>> \o canonicalize_rax(ty) \o <<Cmp(ax, cx), Trap("ne", "overflow")>>
canonicalize_loaded(ty) ==
  CASE ty.k = "bool" -> <<Cmp(ax, Imm(0)), Set("ne", ax)>>
    [] ty.signed     -> canonicalize_rax(ty)
    [] OTHER         -> <<>>

-----------------------------------------------------------------------------
(* Arithmetic *)

set_condition(op, ty) ==
  CASE op = "less"         -> IF Unsigned(ty) THEN "b" ELSE "l"
    [] op = "greater"      -> IF Unsigned(ty) THEN "a" ELSE "g"
    [] op = "lessEqual"    -> IF Unsigned(ty) THEN "be" ELSE "le"
    [] op = "greaterEqual" -> IF Unsigned(ty) THEN "ae" ELSE "ge"
    [] op = "equal"        -> "e"
    [] op = "notEqual"     -> "ne"

bitwise == {"and", "or", "xor"}
alu(op) == IF op = "mul" THEN "imul" ELSE op

accumulates_in_place(to, op, rhs, ty) ==
  /\ op \in bitwise \cup {"add", "sub", "mul"}
  /\ ~in_memory(to) /\ to # rhs
  /\ op \in bitwise \/ (Full(ty) /\ ~(Unsigned(ty) /\ op = "mul"))

accumulate_in_place(to, op, lhs, rhs, ty) ==
  (IF to = lhs THEN <<>> ELSE copy(to, lhs)) \o <<Alu(alu(op), to, rhs)>>
  \o IF op \in bitwise THEN <<>> ELSE <<Trap(IF ty.signed THEN "o" ELSE "b", "overflow")>>

compare_in_place(to, op, lhs, rhs, ty) ==
  <<Cmp(lhs, rhs)>> \o
  (IF in_memory(to) THEN <<Set(set_condition(op, ty), ax), Mov(to, ax)>>
   ELSE <<Set(set_condition(op, ty), to)>>)

Division(op, ty) ==
  LET guard == <<Mov(dx, Imm(-(2 ^ (WordBits - 1)))), Cmp(ax, dx), Jump("ne", Forward(1)),
                 Cmp(cx, Imm(-1)), Trap("e", "overflow"), Numeric(1)>>
  IN <<Cmp(cx, Imm(0)), Trap("e", "div_zero")>>
     \o (IF Unsigned(ty) THEN <<Alu("xor", dx, dx), Mov(dx, ax), Alu("urem", dx, cx), Alu("div", ax, cx)>>
         ELSE (IF Full(ty) THEN guard ELSE <<>>)
              \o <<Mov(dx, ax), Alu("irem", dx, cx), Alu("idiv", ax, cx)>>)
     \o IF op = "rem" THEN <<Mov(ax, dx)>> ELSE <<>>

integer_binary_through_rax(to, op, lhs, rhs, ty) ==
  <<Mov(ax, lhs), Mov(cx, rhs)>> \o
  (CASE op \in {"add", "sub"} ->
          <<Alu(op, ax, cx)>> \o (IF Full(ty) THEN <<Trap(IF ty.signed THEN "o" ELSE "b", "overflow")>> ELSE <<>>)
     [] op = "mul" -> <<Alu(IF Unsigned(ty) THEN "mul" ELSE "imul", ax, cx), Trap("o", "overflow")>>
     [] op \in {"div", "rem"} -> Division(op, ty)
     [] op \in bitwise -> <<Alu(op, ax, cx)>>
     [] op \in shifts -> <<Cmp(cx, Operand("value", "", 0, WordOf(ty.bits))), Trap("ae", "shift"),
                           Alu(IF op = "shl" THEN "shl" ELSE IF ty.signed THEN "sar" ELSE "shr", ax, cx)>>
     [] op \in compares -> <<Cmp(ax, cx), Set(set_condition(op, ty), ax)>>)
  \o (CASE Full(ty) -> <<>>
        [] ~Full(ty) /\ op \in {"add", "sub", "mul", "div"} -> canonicalize_rax_checked(ty)
        [] ~Full(ty) /\ op = "shl" -> canonicalize_rax(ty)
        [] OTHER -> <<>>)
  \o <<Mov(to, ax)>>

integer_binary(to, op, lhs, rhs, ty) ==
  CASE accumulates_in_place(to, op, rhs, ty) -> accumulate_in_place(to, op, lhs, rhs, ty)
    [] op \in compares /\ ~(in_memory(lhs) /\ in_memory(rhs)) -> compare_in_place(to, op, lhs, rhs, ty)
    [] OTHER -> integer_binary_through_rax(to, op, lhs, rhs, ty)

-----------------------------------------------------------------------------
(* Calls *)

(* The language's own operations, step by step of their plan. *)
builtin_(module, i, home) ==
  LET to == home[i.dst]
      placed(arguments) ==
        [k \in DOMAIN arguments |->
           LET g == arguments[k] IN
             CASE g.k = "value"   -> Mov(argument_register(k), home[g.local])
               [] g.k = "address" -> Lea(argument_register(k), home[g.local])
               [] OTHER           -> Mov(argument_register(k), Symbol(g.v))]
      option(words, tag) == <<Mov(argument_register(1), Imm(words)), CallTo(Symbol(Runtime("sl_rt_alloc"))),
                              Mov(Mem("rax", 0), Imm(tag))>>
      carried(s) ==
        CASE s.k = "invoke"  -> placed(s.arguments) \o (IF s.v = NoHelper THEN <<Mov(ax, argument_register(1))>>
                                                        ELSE <<CallTo(Symbol(s.v))>>)
          [] s.k = "save"    -> <<Mov(to, ax)>>
          [] s.k = "restore" -> <<Mov(ax, to)>>
          [] s.k = "load"    -> <<Mov(ax, Mem("rax", 0))>>
          [] s.k = "wrap"    -> <<Cmp(ax, Imm(0)), Jump("e", Forward(1))>> \o option(enum_size(1), some_tag)
                                \o <<Mov(cx, to), Mov(Mem("rax", 1), cx), Jump("always", Forward(2)), Numeric(1)>>
                                \o option(enum_size(0), none_tag) \o <<Numeric(2)>>
  IN Each(builtin(module, i), LAMBDA k : carried(builtin(module, i)[k]))

(* Mutant of marshalled_call: the stack is not padded. *)
MutantUnpadded(args, callee, home) ==
  LET inside  == SubSeq(args, 1, Len(args) - Larger(Len(args) - Len(INTEGER_ARGUMENTS), 0))
      stacked == SubSeq(args, Len(INTEGER_ARGUMENTS) + 1, Len(args))
  IN [k \in DOMAIN inside |-> Mov(argument_register(k), home[inside[k]])]
     \o [k \in DOMAIN stacked |-> Push(home[Reverse(stacked)[k]])]
     \o <<CallTo(callee)>> \o IF stacked = <<>> THEN <<>> ELSE <<Pop(Len(stacked))>>

(* Arguments beyond the registers are pushed, the last first, and the stack is
   kept a multiple of two words. *)
marshalled_call(args, callee, home) ==
  LET n       == Len(INTEGER_ARGUMENTS)
      inside  == SubSeq(args, 1, Len(args) - Larger(Len(args) - n, 0))
      stacked == SubSeq(args, n + 1, Len(args))
      padding == IF Len(stacked) % 2 = 0 THEN <<>> ELSE <<Push(Imm(0))>>
      cleanup == Len(stacked) + Len(padding)
  IN [k \in DOMAIN inside |-> Mov(argument_register(k), home[inside[k]])]
     \o padding \o [k \in DOMAIN stacked |-> Push(home[Reverse(stacked)[k]])]
     \o <<CallTo(callee)>> \o IF cleanup = 0 THEN <<>> ELSE <<Pop(cleanup)>>

indirect_call(args, callee, home) ==
  <<Mov(Reg("r11"), callee)>> \o marshalled_call(args, Reg("r11"), home)

Returned(module, i, home) ==
  (IF i.op = "call" /\ i.n \in module.externs
   THEN IF ResultType(i).k = "bool" THEN <<Extend(ax, Integer(access_bits(Bool), FALSE))>>
        ELSE canonicalize_rax(ResultType(i))
   ELSE <<>>)
  \o IF ResultType(i).k = "unit" THEN <<>> ELSE <<Mov(home[i.dst], ax)>>

call(module, i, home) ==
  CASE i.op = "builtin"   -> builtin_(module, i, home) \o Returned(module, i, home)
    [] i.op = "call"      -> marshalled_call(i.args, Symbol(Code(i.n)), home) \o Returned(module, i, home)
    [] i.op = "callValue" -> indirect_call(Tail(i.args), home[i.args[1]], home) \o Returned(module, i, home)

(* A local let go of is zero from then on. *)
Letting(home, local, helper) ==
  <<Mov(argument_register(1), home[local])>>
  \o (IF helper = NoHelper THEN <<>> ELSE <<CallTo(Symbol(helper))>>)
  \o <<Mov(home[local], Imm(0))>>

Filled(i, home, size, tag) ==
  <<Mov(argument_register(1), Imm(size)), CallTo(Symbol(Runtime("sl_rt_alloc")))>>
  \o [k \in DOMAIN tag |-> Mov(Mem("rax", 0), Imm(tag[k]))]
  \o Each(i.args, LAMBDA k : <<Mov(cx, home[i.args[k]]), Mov(Mem("rax", k - 1 + Len(tag)), cx)>>)
  \o <<Mov(home[i.dst], ax)>>

-----------------------------------------------------------------------------
instruction(module, function, home, i) ==
  LET to == home[i.dst]
      a  == home[i.args[1]]
      b  == home[i.args[2]]
  IN CASE i.op = "int"     -> load_immediate(to, i.n)
       [] i.op = "bool"    -> <<Mov(to, Imm(i.n))>>
       [] i.op = "text"    -> <<Mov(argument_register(1), Symbol(Text_(i.n))), Mov(argument_register(2), Imm(1)),
                                CallTo(Symbol(Runtime("sl_rt_string_new"))), Mov(to, ax)>>
       [] i.op = "assign"  -> copy(to, a)
       [] i.op = "address" -> IF is_pointer_like(TypeOf(function, i.args[1])) THEN copy(to, a)
                              ELSE <<Lea(ax, a), Mov(to, ax)>>
       [] i.op = "fn"      -> <<Mov(ax, Symbol(Code(i.n))), Mov(to, ax)>>
       [] i.op = "helper"  -> <<Mov(ax, Symbol(Helper(i.n, i.name))), Mov(to, ax)>>
       [] i.op = "binary"  -> integer_binary(to, i.name, a, b, i.types[1])
       [] i.op \in {"call", "builtin", "callValue"} -> call(module, i, home)
       [] i.op = "drop"    -> Letting(home, i.args[1], drop_function(module, i.types[1]))
       [] i.op = "free"    -> Letting(home, i.args[1], Runtime("sl_rt_free"))
       [] i.op = "struct"  -> Filled(i, home, struct_size(module, i.name), <<>>)
       [] i.op = "enum"    -> Filled(i, home, enum_size(Len(i.args)), <<i.n>>)
       [] i.op = "field"   -> field_load(to, a, i.n)
       [] i.op \in {"tag", "load"}   -> field_load(to, a, 0)
       [] i.op = "enumField"         -> field_load(to, a, i.n + 1)
       [] i.op = "fieldAddr"         -> field_address(to, a, i.n)
       [] i.op = "enumFieldAddr"     -> field_address(to, a, i.n + 1)
       [] i.op = "fieldStore"        -> field_store(a, i.n, b)
       [] i.op = "enumFieldStore"    -> field_store(a, i.n + 1, b)
       [] i.op = "volatileLoad"      -> <<Mov(cx, a), LoadDevice(ax, Mem("rcx", 0), access_bits(i.types[1]))>>
                                        \o canonicalize_loaded(i.types[1]) \o <<Mov(to, ax)>>
       [] i.op = "volatileStore"     -> <<Mov(cx, b), Mov(ax, a), StoreDevice(Mem("rax", 0), cx, access_bits(i.types[1]))>>

terminator(end, home) ==
  CASE end.k = "return" ->
         <<IF end.uses = <<>> THEN Mov(ax, Imm(0)) ELSE Mov(ax, home[end.uses[1]]), Jump("always", Label(Epilogue))>>
    [] end.k = "goto"   -> <<Jump("always", Label(end.targets[1]))>>
    [] end.k = "branch" -> <<Cmp(home[end.uses[1]], Imm(0)), Jump("ne", Label(end.targets[1])),
                             Jump("always", Label(end.targets[2]))>>
    [] OTHER            -> <<Ud>>

basic_block(module, function, home, b) ==
  LET block == function.blocks[b] IN
  <<At_(b)>>
  \o Each(block.code, LAMBDA k : instruction(module, function, home, block.code[k]))
  \o terminator(block.end, home)

(* A narrow argument is put back into its width on the way in. *)
store_parameters(function, home) ==
  Each(function.params, LAMBDA k :
    LET to     == home[function.params[k]]
        ty     == TypeOf(function, function.params[k])
        inside == k <= Len(INTEGER_ARGUMENTS)
        from   == IF inside THEN argument_register(k) ELSE Incoming(k - Len(INTEGER_ARGUMENTS) - 1)
        narrow == ty.k = "int" /\ ~Full(ty)
    IN IF inside /\ ~narrow THEN <<Mov(to, from)>>
       ELSE <<Mov(ax, from)>> \o canonicalize_rax(ty) \o <<Mov(to, ax)>>)

runtime_panic_trampolines(traps) ==
  LET reached == SelectSeq(Traps, LAMBDA t : t \in traps) IN
  Each(reached, LAMBDA k : <<At_(trampoline(reached[k])), Mov(argument_register(1), Symbol(Message(reached[k]))),
                           CallTo(Symbol(Runtime("sl_rt_panic"))), Ud>>)

FrameLayout(module, f, wanted) ==
  LET function == module.functions[f] IN
  Homes(module, function, IF calls_something(module, function) THEN CALLEE_SAVED ELSE LEAF, 0, wanted)

function_(module, f, wanted) ==
  LET function == module.functions[f]
      in(h) ==
        <<Enter_(align_to(h.words, 2))>>
        \o [k \in DOMAIN h.saved |-> Mov(h.saved[k].slot, h.saved[k].register)]
        \o store_parameters(function, h.of)
        \o Each(function.blocks, LAMBDA b : basic_block(module, function, h.of, b))
        \o <<At_(Epilogue)>> \o [k \in DOMAIN h.saved |-> Mov(h.saved[k].register, h.saved[k].slot)] \o <<Ret>>
        \o runtime_panic_trampolines(trap_usage(function))
  IN in(FrameLayout(module, f, wanted))

-----------------------------------------------------------------------------
(* Helpers, with the value in the first word of their frame and a copy in the
   second *)

Opened == <<Enter_(2)>>
Kept   == Frame_(1)
Made   == Frame_(2)

CopiedFields(module, fields, from) ==
  Each(fields, LAMBDA k :
    <<Mov(ax, Kept), Mov(argument_register(1), Mem("rax", from + k - 1))>>
    \o (IF clone_function(module, fields[k]) = NoHelper THEN <<Mov(ax, argument_register(1))>>
        ELSE <<CallTo(Symbol(clone_function(module, fields[k])))>>)
    \o <<Mov(cx, Made), Mov(Mem("rcx", from + k - 1), ax)>>)

DroppedFields(module, fields, from) ==
  Each(Reverse(fields), LAMBDA j :
    LET k == Len(fields) + 1 - j IN
      IF drop_function(module, fields[k]) = NoHelper THEN <<>>
      ELSE <<Mov(ax, Kept), Mov(argument_register(1), Mem("rax", from + k - 1)),
             CallTo(Symbol(drop_function(module, fields[k])))>>)

(* A case for each variant, by its tag. *)
Variants(variants, tag, rest, each(_), after) ==
  LET tags == Numbers(variants) IN
  Each(tags, LAMBDA k : <<Cmp(tag, Imm(tags[k] - 1)), Jump("e", Label(10 + tags[k]))>>)
  \o <<Jump("always", Label(rest))>>
  \o Each(tags, LAMBDA k : <<At_(10 + tags[k])>> \o each(tags[k]) \o <<Jump("always", Label(rest))>>)
  \o <<At_(rest)>> \o after

Allocated(size) == <<Mov(Kept, argument_register(1)), Mov(argument_register(1), Imm(size)),
                     CallTo(Symbol(Runtime("sl_rt_alloc"))), Mov(Made, ax)>>
Freed == <<Mov(argument_register(1), Kept), CallTo(Symbol(Runtime("sl_rt_free"))), At_(1), Ret>>
NullIsDropped == <<Cmp(argument_register(1), Imm(0)), Jump("e", Label(1)), Mov(Kept, argument_register(1))>>

struct_clone_helper(module, s) ==
  Opened \o Allocated(struct_size(module, s)) \o CopiedFields(module, module.structs[s], 0)
  \o <<Mov(ax, Made), Ret>>

enum_clone_helper(module, s) ==
  Opened \o Allocated(enum_clone_size(module, s))
  \o <<Mov(cx, Kept), Mov(cx, Mem("rcx", 0)), Mov(Mem("rax", 0), cx)>>
  \o Variants(module.enums[s], cx, 2, LAMBDA tag : CopiedFields(module, module.enums[s][tag], 1),
              <<Mov(ax, Made), Ret>>)

struct_drop_helper(module, s) ==
  Opened \o NullIsDropped \o DroppedFields(module, module.structs[s], 0) \o Freed

enum_drop_helper(module, s) ==
  Opened \o NullIsDropped \o <<Mov(ax, Mem("rdi", 0))>>
  \o Variants(module.enums[s], ax, 2, LAMBDA tag : DroppedFields(module, module.enums[s][tag], 1), Freed)

helper_(module, k, s) ==
  CASE s \in DOMAIN module.structs /\ k = 1 -> struct_drop_helper(module, s)
    [] s \in DOMAIN module.structs /\ k = 2 -> struct_clone_helper(module, s)
    [] s \in DOMAIN module.enums /\ k = 1   -> enum_drop_helper(module, s)
    [] s \in DOMAIN module.enums /\ k = 2   -> enum_clone_helper(module, s)

program_entrypoint(module) ==
  <<Enter_(2), Mov(Frame_(1), Reg("rdi")), Mov(Frame_(2), Reg("rsi")),
    CallTo(Symbol(Runtime("sl_rt_args_init"))), CallTo(Symbol(Code(1)))>>
  \o (IF module.functions[1].result.k = "unit" THEN <<Mov(ax, Imm(0))>> ELSE <<>>) \o <<Ret>>

generate(module, wanted) ==
  Emitted(module,
          LAMBDA f : remove_redundant_copies(function_(module, f, wanted[f]), FALSE),
          LAMBDA k, s : remove_redundant_copies(helper_(module, k, s), FALSE),
          program_entrypoint(module))
=============================================================================
