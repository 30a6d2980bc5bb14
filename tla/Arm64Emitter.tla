----------------------------- MODULE Arm64Emitter -----------------------------
(***************************************************************************)
(* The code generator for AArch64 (aarch64.rs).  Every operation is between  *)
(* registers: a local in memory is read into one of three scratch registers, *)
(* and a result is written back from x16.                                    *)
(***************************************************************************)
EXTENDS Lowering

INTEGER_ARGUMENTS == <<"x0", "x1", "x2", "x3", "x4", "x5", "x6", "x7">>
CALLEE_SAVED == RegisterFile(<<"x19", "x20", "x21", "x22", "x23", "x24", "x25", "x26", "x27", "x28">>, 0)
LEAF         == RegisterFile(<<"x9", "x10", "x11", "x12", "x13", "x14">> \o CALLEE_SAVED.wide, 6)
Registers    == {"x15", "x16", "x17"} \cup Range(INTEGER_ARGUMENTS) \cup Range(LEAF.wide)
AAPCS64      == Convention(INTEGER_ARGUMENTS, "x0", Range(CALLEE_SAVED.wide), TRUE)

X15 == Reg("x15")
X16 == Reg("x16")
X17 == Reg("x17")
RESULT == Reg("x0")
argument_register(k) == Reg(INTEGER_ARGUMENTS[k])

in_memory(o) == o.k = "frame"
Trap(cond, trap) == Jump(cond, Label(trampoline(trap)))
Full(ty) == ty.bits = WordBits
Unsigned(ty) == ~ty.signed /\ Full(ty)
Zero(r, label) == <<Cmp(r, Imm(0)), Jump("eq", label)>>     \* cbz
NotZero(r, label) == <<Cmp(r, Imm(0)), Jump("ne", label)>>  \* cbnz

load(to, slot)            == Mov(to, slot)
store(from, slot)         == Mov(slot, from)
address_of_slot(to, slot) == Lea(to, slot)
address_of_label(to, v)   == Mov(to, Symbol(v))  \* its page, and what is left

(* A local that has a register is named by it, any other is loaded. *)
held(o, scratch) == IF in_memory(o) THEN scratch ELSE o
read(o, scratch) == IF in_memory(o) THEN <<load(scratch, o)>> ELSE <<>>
move(to, from)   == IF to = from THEN <<>> ELSE <<Mov(to, from)>>
write(to, r)     == IF in_memory(to) THEN <<store(r, to)>> ELSE move(to, r)
constant(to, n)  == IF in_memory(to) THEN <<Mov(X16, Imm(n)), store(X16, to)>> ELSE <<Mov(to, Imm(n))>>

assign(to, from) == read(from, X16) \o write(to, held(from, X16))

field_address(to, base, k) ==
  IF k = 0 THEN assign(to, base)
  ELSE read(base, X16) \o <<Arith("add", X16, held(base, X16), Imm(k))>> \o write(to, X16)
field_store(base, k, from) ==
  read(from, X16) \o read(base, X17) \o move(X16, held(from, X16))
  \o <<Mov(Mem(held(base, X17).r, k), X16)>>
field_load(to, base, k) ==
  read(base, X16) \o <<Mov(X16, Mem(held(base, X16).r, k))>> \o write(to, X16)

canonicalize_x16(ty) == IF ty.k # "int" \/ Full(ty) THEN <<>> ELSE <<Extend(X16, ty)>>
canonicalize_checked(ty) ==
  IF Full(ty) THEN <<>> ELSE <<Mov(X15, X16)>> \o canonicalize_x16(ty) \o <<Cmp(X16, X15), Trap("ne", "overflow")>>
canonicalize_loaded(ty) ==
  CASE ty.k = "bool" -> <<Cmp(X16, Imm(0)), Set("ne", X16)>>
    [] ty.signed     -> canonicalize_x16(ty)
    [] OTHER         -> <<>>

-----------------------------------------------------------------------------
(* Arithmetic *)

integer_condition(op, ty) ==
  CASE op = "less"         -> IF Unsigned(ty) THEN "lo" ELSE "lt"
    [] op = "greater"      -> IF Unsigned(ty) THEN "hi" ELSE "gt"
    [] op = "lessEqual"    -> IF Unsigned(ty) THEN "ls" ELSE "le"
    [] op = "greaterEqual" -> IF Unsigned(ty) THEN "hs" ELSE "ge"
    [] op = "equal"        -> "eq"
    [] op = "notEqual"     -> "ne"

(* The most negative word over -1; `left` and `right` are registers. *)
divide(op, ty, left, right) ==
  LET guard == <<Mov(X15, Imm(-(2 ^ (WordBits - 1)))), Cmp(left, X15), Jump("ne", Forward(1)),
                 Cmp(right, Imm(-1)), Trap("eq", "overflow"), Numeric(1)>>
  IN Zero(right, Label(trampoline("div_zero")))
     \o (IF ty.signed /\ Full(ty) THEN guard ELSE <<>>)
     \o <<Arith(IF Unsigned(ty) THEN "div" ELSE "idiv", X16, left, right)>>
     \o (IF op = "rem" THEN <<MultiplySubtract(X16, X16, right, left)>> ELSE canonicalize_checked(ty))

shift(op, ty, lhs, rhs) ==
  LET count == held(rhs, X17) IN
  read(rhs, X17)
  \o <<Mov(X15, Operand("value", "", 0, WordOf(ty.bits))), Cmp(count, X15), Trap("hs", "shift")>>
  \o read(lhs, X16)
  \o <<Arith(IF op = "shl" THEN "shl" ELSE IF ty.signed THEN "sar" ELSE "shr", X16, held(lhs, X16), count)>>
  \o IF op = "shl" THEN canonicalize_x16(ty) ELSE <<>>

(* Mutant of carried: a borrow is told as on the other machine. *)
MutantBorrowSets(op, ty) == IF ty.signed THEN "vs" ELSE "hs"

(* A borrow clears the carry. *)
carried(op, ty) == CASE ty.signed -> "vs" [] ~ty.signed /\ op = "add" -> "hs" [] OTHER -> "lo"

product(ty, left, right) ==
  (IF Full(ty) THEN <<Arith(IF ty.signed THEN "smulh" ELSE "umulh", X15, left, right)>> ELSE <<>>)
  \o <<Arith("imul", X16, left, right)>>
  \o CASE ~Full(ty)    -> <<>>
       [] Unsigned(ty) -> NotZero(X15, Label(trampoline("overflow")))
       [] OTHER        -> <<CmpSign(X15, X16), Trap("ne", "overflow")>>

integer_binary(to, op, lhs, rhs, ty) ==
  LET left   == held(lhs, X16)
      right  == held(rhs, X17)
      loaded == read(lhs, X16) \o read(rhs, X17)
  IN (CASE op \in {"add", "sub"} ->
             loaded \o <<Arith(IF op = "add" THEN "adds" ELSE "subs", X16, left, right)>>
             \o (IF Full(ty) THEN <<Trap(carried(op, ty), "overflow")>> ELSE <<>>) \o canonicalize_checked(ty)
        [] op = "mul" -> loaded \o product(ty, left, right) \o canonicalize_checked(ty)
        [] op \in {"div", "rem"} -> loaded \o divide(op, ty, left, right)
        [] op \in {"and", "or", "xor"} -> loaded \o <<Arith(op, X16, left, right)>>
        [] op \in shifts -> shift(op, ty, lhs, rhs)
        [] op \in compares -> loaded \o <<Cmp(left, right), Set(integer_condition(op, ty), X16)>>)
     \o write(to, X16)

-----------------------------------------------------------------------------
(* Calls *)

builtin_(module, i, home) ==
  LET to == home[i.dst]
      placed(arguments) ==
        Each(arguments, LAMBDA k :
           LET g == arguments[k] IN
             CASE g.k = "value"   -> read(home[g.local], X16) \o move(argument_register(k), held(home[g.local], X16))
               [] g.k = "address" -> <<address_of_slot(argument_register(k), home[g.local])>>
               [] OTHER           -> <<Mov(argument_register(k), Symbol(g.v))>>)
      option(words, tag) == <<Mov(RESULT, Imm(words)), CallTo(Symbol(Runtime("sl_rt_alloc"))),
                              Mov(X16, Imm(tag)), Mov(Mem("x0", 0), X16)>>
      step(s) ==
        CASE s.k = "invoke"  -> placed(s.arguments) \o (IF s.v = NoHelper THEN <<>> ELSE <<CallTo(Symbol(s.v))>>)
          [] s.k = "save"    -> write(to, RESULT)
          [] s.k = "restore" -> assign(RESULT, to)
          [] s.k = "load"    -> <<Mov(RESULT, Mem("x0", 0))>>
          [] s.k = "wrap"    -> Zero(RESULT, Forward(1)) \o option(enum_size(1), some_tag)
                                \o read(to, X16) \o <<Mov(Mem("x0", 1), held(to, X16)), Jump("always", Forward(2)), Numeric(1)>>
                                \o option(enum_size(0), none_tag) \o <<Numeric(2)>>
  IN Each(builtin(module, i), LAMBDA k : step(builtin(module, i)[k]))

(* Arguments beyond the registers go into the words at the bottom of the
   frame, which are reserved for the widest call. *)
outgoing_words(function) ==
  FoldSet(LAMBDA i, n : Larger(n, Len(i.args) - Len(INTEGER_ARGUMENTS) - (IF i.op = "call" THEN 0 ELSE 1)),
          0, Of(function, {"call", "callValue"}))

marshalled_call(args, callee, home) ==
  Each(args, LAMBDA k :
    LET source == home[args[k]] IN
      read(source, X16) \o
      (IF k <= Len(INTEGER_ARGUMENTS) THEN move(argument_register(k), held(source, X16))
       ELSE <<Mov(Frame_(k - Len(INTEGER_ARGUMENTS)), held(source, X16))>>))
  \o IF callee.k = "value" THEN <<CallTo(callee)>>
     ELSE read(callee, X16) \o move(X16, held(callee, X16)) \o <<CallTo(X16)>>

(* What C leaves above the bits of its result is not the program's: of a Boolean
   half a word is kept. *)
Returned(module, i, home) ==
  LET ty == ResultType(i) IN
  CASE ty.k = "unit" -> <<>>
    [] i.op = "call" /\ i.n \in module.externs /\ ty.k = "int" ->
         <<Mov(X16, RESULT)>> \o canonicalize_x16(ty) \o write(home[i.dst], X16)
    [] i.op = "call" /\ i.n \in module.externs /\ ty.k = "bool" ->
         <<Mov(X16, RESULT), Extend(X16, Integer(WordBits \div 2, FALSE))>> \o write(home[i.dst], X16)
    [] OTHER -> write(home[i.dst], RESULT)

call(module, i, home) ==
  CASE i.op = "builtin"   -> builtin_(module, i, home) \o Returned(module, i, home)
    [] i.op = "call"      -> marshalled_call(i.args, Symbol(Code(i.n)), home) \o Returned(module, i, home)
    [] i.op = "callValue" -> marshalled_call(Tail(i.args), home[i.args[1]], home) \o Returned(module, i, home)

Letting(home, local, helper) ==
  assign(RESULT, home[local])
  \o (IF helper = NoHelper THEN <<>> ELSE <<CallTo(Symbol(helper))>>)
  \o <<Mov(X16, Imm(0))>> \o write(home[local], X16)

Filled(i, home, size, tag) ==
  <<Mov(RESULT, Imm(size)), CallTo(Symbol(Runtime("sl_rt_alloc")))>>
  \o (IF tag = <<>> THEN <<>> ELSE <<Mov(X16, Imm(tag[1])), Mov(Mem("x0", 0), X16)>>)
  \o Each(i.args, LAMBDA k :
       read(home[i.args[k]], X16) \o <<Mov(Mem("x0", k - 1 + Len(tag)), held(home[i.args[k]], X16))>>)
  \o write(home[i.dst], RESULT)

-----------------------------------------------------------------------------
instruction(module, function, home, i) ==
  LET to == home[i.dst]
      a  == home[i.args[1]]
      b  == home[i.args[2]]
  IN CASE i.op \in {"int", "bool"} -> constant(to, i.n)
       [] i.op = "text"    -> <<address_of_label(RESULT, Text_(i.n)), Mov(argument_register(2), Imm(1)),
                                CallTo(Symbol(Runtime("sl_rt_string_new")))>> \o write(to, RESULT)
       [] i.op = "assign"  -> assign(to, a)
       [] i.op = "address" -> IF is_pointer_like(TypeOf(function, i.args[1])) THEN assign(to, a)
                              ELSE <<address_of_slot(X16, a)>> \o write(to, X16)
       [] i.op = "fn"      -> <<address_of_label(X16, Code(i.n))>> \o write(to, X16)
       [] i.op = "helper"  -> <<address_of_label(X16, Helper(i.n, i.name))>> \o write(to, X16)
       [] i.op = "binary"  -> integer_binary(to, i.name, a, b, i.types[1])
       [] i.op \in {"call", "builtin", "callValue"} -> call(module, i, home)
       [] i.op = "drop"    -> Letting(home, i.args[1], drop_function(module, i.types[1]))
       [] i.op = "free"    -> Letting(home, i.args[1], Runtime("sl_rt_free"))
       [] i.op = "struct"  -> Filled(i, home, struct_size(module, i.name), <<>>)
       [] i.op = "enum"    -> Filled(i, home, enum_size(Len(i.args)), <<i.n>>)
       [] i.op = "field"   -> field_load(to, a, i.n)
       [] i.op \in {"tag", "load"}   -> field_load(to, a, 0)
       [] i.op = "enumField"         -> field_load(to, a, i.n + 1)
       [] i.op = "fieldAddr"         -> field_address(to, a, i.n)
       [] i.op = "enumFieldAddr"     -> field_address(to, a, i.n + 1)
       [] i.op = "fieldStore"        -> field_store(a, i.n, b)
       [] i.op = "enumFieldStore"    -> field_store(a, i.n + 1, b)
       [] i.op = "volatileLoad"      -> read(a, X16) \o <<LoadDevice(X16, Mem(held(a, X16).r, 0), access_bits(i.types[1]))>>
                                        \o canonicalize_loaded(i.types[1]) \o write(to, X16)
       [] i.op = "volatileStore"     -> read(b, X16) \o read(a, X17) \o move(X16, held(b, X16))
                                        \o <<StoreDevice(Mem(held(a, X17).r, 0), X16, access_bits(i.types[1]))>>

terminator(end, home) ==
  LET value == home[end.uses[1]] IN
  CASE end.k = "return" -> (IF end.uses = <<>> THEN <<Mov(RESULT, Imm(0))>> ELSE assign(RESULT, value))
                           \o <<Jump("always", Label(Epilogue))>>
    [] end.k = "goto"   -> <<Jump("always", Label(end.targets[1]))>>
    [] end.k = "branch" -> read(value, X16) \o NotZero(held(value, X16), Label(end.targets[1]))
                           \o <<Jump("always", Label(end.targets[2]))>>
    [] OTHER            -> <<Ud>>

basic_block(module, function, home, b) ==
  LET block == function.blocks[b] IN
  <<At_(b)>>
  \o Each(block.code, LAMBDA k : instruction(module, function, home, block.code[k]))
  \o terminator(block.end, home)

store_parameters(function, home) ==
  Each(function.params, LAMBDA k :
    LET to     == home[function.params[k]]
        ty     == TypeOf(function, function.params[k])
        inside == k <= Len(INTEGER_ARGUMENTS)
        narrow == ty.k = "int" /\ ~Full(ty)
    IN IF inside /\ ~narrow THEN write(to, argument_register(k))
       ELSE <<Mov(X16, IF inside THEN argument_register(k) ELSE Incoming(k - Len(INTEGER_ARGUMENTS) - 1))>>
            \o canonicalize_x16(ty) \o write(to, X16))

runtime_panic_trampolines(traps) ==
  LET reached == SelectSeq(Traps, LAMBDA t : t \in traps) IN
  Each(reached, LAMBDA k : <<At_(trampoline(reached[k])), address_of_label(RESULT, Message(reached[k])),
                           CallTo(Symbol(Runtime("sl_rt_panic"))), Ud>>)

FrameLayout(module, f, wanted) ==
  LET function == module.functions[f] IN
  Homes(module, function, IF calls_something(module, function) THEN CALLEE_SAVED ELSE LEAF,
        align_to(outgoing_words(function), 2), wanted)

function_(module, f, wanted) ==
  LET function == module.functions[f]
      in(h) ==
        <<Enter_(align_to(h.words, 2))>>
        \o [k \in DOMAIN h.saved |-> Mov(h.saved[k].slot, h.saved[k].register)]
        \o store_parameters(function, h.of)
        \o Each(function.blocks, LAMBDA b : basic_block(module, function, h.of, b))
        \o <<At_(Epilogue)>> \o [k \in DOMAIN h.saved |-> Mov(h.saved[k].register, h.saved[k].slot)] \o <<Ret>>
        \o runtime_panic_trampolines(trap_usage(function))
  IN in(FrameLayout(module, f, wanted))

-----------------------------------------------------------------------------
(* Helpers *)

Kept == Frame_(1)
Made == Frame_(2)
open_helper == <<Enter_(2)>>

CopiedFields(module, fields, from) ==
  Each(fields, LAMBDA k :
    <<Mov(X16, Kept), Mov(RESULT, Mem("x16", from + k - 1))>>
    \o (IF clone_function(module, fields[k]) = NoHelper THEN <<>>
        ELSE <<CallTo(Symbol(clone_function(module, fields[k])))>>)
    \o <<Mov(X16, Made), Mov(Mem("x16", from + k - 1), RESULT)>>)

DroppedFields(module, fields, from) ==
  Each(fields, LAMBDA j :
    LET k == Len(fields) + 1 - j IN
      IF drop_function(module, fields[k]) = NoHelper THEN <<>>
      ELSE <<Mov(X16, Kept), Mov(RESULT, Mem("x16", from + k - 1)),
             CallTo(Symbol(drop_function(module, fields[k])))>>)

Variants(variants, rest, each(_), after) ==
  LET tags == Numbers(variants) IN
  Each(tags, LAMBDA k : <<Mov(X16, Imm(tags[k] - 1)), Cmp(X17, X16), Jump("eq", Label(10 + tags[k]))>>)
  \o <<Jump("always", Label(rest))>>
  \o Each(tags, LAMBDA k : <<At_(10 + tags[k])>> \o each(tags[k]) \o <<Jump("always", Label(rest))>>)
  \o <<At_(rest)>> \o after

Allocated(size) == <<Mov(Kept, RESULT), Mov(RESULT, Imm(size)),
                     CallTo(Symbol(Runtime("sl_rt_alloc"))), Mov(Made, RESULT)>>
Freed == <<Mov(RESULT, Kept), CallTo(Symbol(Runtime("sl_rt_free"))), At_(1), Ret>>
NullIsDropped == Zero(RESULT, Label(1)) \o <<Mov(Kept, RESULT)>>

struct_clone_helper(module, s) ==
  open_helper \o Allocated(struct_size(module, s)) \o CopiedFields(module, module.structs[s], 0)
  \o <<Mov(RESULT, Made), Ret>>

enum_clone_helper(module, s) ==
  open_helper \o Allocated(enum_clone_size(module, s))
  \o <<Mov(X16, Kept), Mov(X17, Mem("x16", 0)), Mov(Mem("x0", 0), X17)>>
  \o Variants(module.enums[s], 2, LAMBDA tag : CopiedFields(module, module.enums[s][tag], 1),
              <<Mov(RESULT, Made), Ret>>)

struct_drop_helper(module, s) ==
  open_helper \o NullIsDropped \o DroppedFields(module, module.structs[s], 0) \o Freed

enum_drop_helper(module, s) ==
  open_helper \o NullIsDropped \o <<Mov(X17, Mem("x0", 0))>>
  \o Variants(module.enums[s], 2, LAMBDA tag : DroppedFields(module, module.enums[s][tag], 1), Freed)

helper_(module, k, s) ==
  CASE s \in DOMAIN module.structs /\ k = 1 -> struct_drop_helper(module, s)
    [] s \in DOMAIN module.structs /\ k = 2 -> struct_clone_helper(module, s)
    [] s \in DOMAIN module.enums /\ k = 1   -> enum_drop_helper(module, s)
    [] s \in DOMAIN module.enums /\ k = 2   -> enum_clone_helper(module, s)

program_entrypoint(module) ==
  open_helper \o <<CallTo(Symbol(Runtime("sl_rt_args_init"))), CallTo(Symbol(Code(1)))>>
  \o (IF module.functions[1].result.k = "unit" THEN <<Mov(RESULT, Imm(0))>> ELSE <<>>) \o <<Ret>>

generate(module, wanted) ==
  Emitted(module,
          LAMBDA f : remove_redundant_copies(function_(module, f, wanted[f]), TRUE),
          LAMBDA k, s : remove_redundant_copies(helper_(module, k, s), TRUE),
          program_entrypoint(module))
=============================================================================
