---------------------------------- MODULE Mir ----------------------------------
(***************************************************************************)
(* The intermediate language of the compiler (mir.rs), its control-flow      *)
(* graph (cfg.rs), and what a module means: the events of its first function *)
(* run step by step.                                                         *)
(*                                                                          *)
(* Functions, locals and blocks are numbered from 1; a local's memory is a   *)
(* block of the heap, so that its address is an address like any other.  The *)
(* k-th call of a C function, and the k-th volatile read, give the k-th of   *)
(* the `answers`.                                                            *)
(***************************************************************************)
EXTENDS Integers, Sequences, FiniteSets, SequencesExt

CONSTANTS
  WordBits,  \* the width of a machine word
  Fuel       \* bound: a run is followed for Fuel^3 steps

(* What is made of a value that is computed first. *)
From(value, made(_)) == CHOOSE r \in {made(v) : v \in {value}} : TRUE
(* A fold from the left, eight at a time, and a step repeated until it changes
   nothing. *)
Fold(op(_, _), base, s) ==
  LET eight(start, from) ==
        LET last == IF from + 8 <= Len(s) THEN 8 ELSE Len(s) - from
            upTo[n \in 0 .. last] == IF n = 0 THEN start ELSE op(upTo[n - 1], s[from + n])
        IN upTo[last]
      chunks == (Len(s) + 7) \div 8
      all[c \in 0 .. chunks] ==
        IF c = 0 THEN base ELSE From(all[c - 1], LAMBDA a : eight(a, 8 * (c - 1)))
  IN all[chunks]
Numbers(s) == [k \in DOMAIN s |-> k]
(* What each position of a sequence gives, one after the other (by halves). *)
Each(s, items(_)) ==
  LET part[lo \in 1 .. Len(s), hi \in 0 .. Len(s)] ==
        LET middle == (lo + hi) \div 2 IN
          IF lo >= hi THEN items(lo) ELSE part[lo, middle] \o part[middle + 1, hi]
  IN IF s = <<>> THEN <<>> ELSE part[1, Len(s)]
(* The same, of one thing at each. *)
Mapped(s, item(_)) == Each(s, LAMBDA k : <<item(k)>>)

Settled(next(_), start, rounds) ==
  LET moved(last, new) == IF last.changed THEN [now |-> new, changed |-> new # last.now] ELSE last
  IN Fold(LAMBDA last, n : moved(last, next(last.now)), [now |-> start, changed |-> TRUE], [n \in 1 .. rounds |-> n])

(* A machine that takes steps while it runs: bursts of bursts of steps. *)
Followed(step(_), start) ==
  LET running(M) == M.status = "running"
      single(M)  == IF running(M) THEN step(M) ELSE M
      burst(M)   == LET taken[n \in 0 .. Fuel] == IF n = 0 THEN M ELSE single(taken[n - 1]) IN taken[Fuel]
      longer(M)  == LET taken[n \in 0 .. Fuel] ==
                          IF n = 0 THEN M ELSE LET A == taken[n - 1] IN IF running(A) THEN burst(A) ELSE A
                    IN taken[Fuel]
      taken[n \in 0 .. Fuel] ==
        IF n = 0 THEN start ELSE LET A == taken[n - 1] IN IF running(A) THEN longer(A) ELSE A
  IN taken[Fuel]

-----------------------------------------------------------------------------
(* Types, and words.  A word is a bit pattern, 0 .. 2^WordBits - 1. *)

Type(k, name, bits, signed, of) == [k |-> k, name |-> name, bits |-> bits, signed |-> signed, of |-> of]
Integer(bits, signed) == Type("int", "", bits, signed, <<>>)
Word        == Integer(WordBits, TRUE)
Bool        == Type("bool", "", WordBits, TRUE, <<>>)
Unit        == Type("unit", "", WordBits, TRUE, <<>>)
Text        == Type("text", "", WordBits, TRUE, <<>>)
Named(name) == Type("named", name, WordBits, TRUE, <<>>)
Fn(of)      == Type("fn", "", WordBits, TRUE, of)
Ref(ty, mut) == Type("ref", mut, WordBits, TRUE, <<ty>>)   \* mut is "mut", or ""
Ptr(ty)     == Type("ptr", "", WordBits, TRUE, <<ty>>)
List(ty)    == Type("list", "", WordBits, TRUE, <<ty>>)

(* lowering.rs: a borrow of a value of these types is the word itself; of any
   other, the address of the slot that holds it. *)
is_pointer_like(ty) == ty.k \in {"text", "fn", "named", "list"}
strip_ref(ty) == IF ty.k = "ref" THEN ty.of[1] ELSE ty

Wrap(n) == n % 2 ^ WordBits
Signed(w) == IF w >= 2 ^ (WordBits - 1) THEN w - 2 ^ WordBits ELSE w

(* A word put back into the width of a type: its low bits, extended by their
   sign or by zeros. *)
canonicalize(w, ty) ==
  LET low == w % 2 ^ ty.bits
  IN Wrap(IF ty.signed /\ low >= 2 ^ (ty.bits - 1) THEN low - 2 ^ ty.bits ELSE low)

(* The bits of a type that stand in memory a device shares, and what a reading
   of them is worth: whatever is not zero is true. *)
access_bits(ty) == IF ty.k = "bool" THEN WordBits \div 2 ELSE ty.bits
Reading(n, ty) == IF ty.k = "bool" THEN (IF n % 2 ^ access_bits(ty) = 0 THEN 0 ELSE 1)
                  ELSE canonicalize(n, ty)

(* What C means by a word it returns. *)
FromC(n, ty) == IF ty.k = "bool" THEN n % 2 ^ access_bits(ty) ELSE canonicalize(n, ty)

(* The number a word of a type stands for. *)
Number(w, ty) == IF ty.signed THEN Signed(w) ELSE w

InRange(n, ty) ==
  IF ty.signed THEN -(2 ^ (ty.bits - 1)) <= n /\ n < 2 ^ (ty.bits - 1)
  ELSE 0 <= n /\ n < 2 ^ ty.bits

Abs(n) == IF n < 0 THEN -n ELSE n
(* Division toward zero. *)
Quotient(a, b) == (IF (a < 0) = (b < 0) THEN 1 ELSE -1) * (Abs(a) \div Abs(b))

Bits(n, b) == (n \div 2 ^ b) % 2
Bitwise2(a, b, both(_, _)) ==
  Fold(LAMBDA n, k : n + 2 ^ (k - 1) * both(Bits(a, k - 1), Bits(b, k - 1)), 0, [k \in 1 .. WordBits |-> k])

compares == {"less", "greater", "lessEqual", "greaterEqual", "equal", "notEqual"}
shifts == {"shl", "shr"}
Truth(b) == IF b THEN 1 ELSE 0

(* What an operation on words of a type gives: a word, or -1 where the program
   stops with a message instead. *)
Operation(op, a, b, ty) ==
  LET x == Number(a, ty)
      y == Number(b, ty)
      checked(n) == IF InRange(n, ty) THEN Wrap(n) ELSE -1
      shifted(n) == IF y < 0 \/ y >= ty.bits THEN -1 ELSE canonicalize(Wrap(n), ty)
  IN CASE op = "add" -> checked(x + y)
       [] op = "sub" -> checked(x - y)
       [] op = "mul" -> checked(x * y)
       [] op = "div" -> IF y = 0 THEN -1 ELSE checked(Quotient(x, y))
       [] op = "rem" -> IF y = 0 \/ ~InRange(Quotient(x, y), IF ty.bits = WordBits THEN ty ELSE Word) THEN -1
                        ELSE checked(x - y * Quotient(x, y))
       [] op = "and" -> Bitwise2(a, b, LAMBDA p, q : p * q)
       [] op = "or" -> Bitwise2(a, b, LAMBDA p, q : p + q - p * q)
       [] op = "xor" -> Bitwise2(a, b, LAMBDA p, q : (p + q) % 2)
       [] op = "shl" -> shifted(x * 2 ^ (y % WordBits))
       [] op = "shr" -> shifted(x \div 2 ^ (y % WordBits))
       [] op = "less" -> Truth(x < y)
       [] op = "greater" -> Truth(x > y)
       [] op = "lessEqual" -> Truth(x <= y)
       [] op = "greaterEqual" -> Truth(x >= y)
       [] op = "equal" -> Truth(x = y)
       [] op = "notEqual" -> Truth(x # y)

-----------------------------------------------------------------------------
(* Instructions.  `n` is a constant, an index, a tag or a function; `types` are
   those of the arguments and, last, of the result. *)

Instruction(op, dst, args, n, name, types) ==
  [op |-> op, dst |-> dst, args |-> args, n |-> n, name |-> name, types |-> types]

ConstInt(d, n)           == Instruction("int", d, <<>>, n, "", <<>>)
ConstBool(d, n)          == Instruction("bool", d, <<>>, n, "", <<>>)
StringNew(d, n)          == Instruction("text", d, <<>>, n, "", <<>>)
Assign(d, a)             == Instruction("assign", d, <<a>>, 0, "", <<>>)
AddressOf(d, a)          == Instruction("address", d, <<a>>, 0, "", <<>>)
Load(d, a)               == Instruction("load", d, <<a>>, 0, "", <<>>)
Binary(d, op, a, b, ty)  == Instruction("binary", d, <<a, b>>, 0, op, <<ty>>)
Call(d, f, as, types)    == Instruction("call", d, as, f, "", types)
Builtin(d, name, as, types) == Instruction("builtin", d, as, 0, name, types)
FnAddr(d, f)             == Instruction("fn", d, <<>>, f, "", <<>>)
HelperAddr(d, k, s)      == Instruction("helper", d, <<>>, k, s, <<>>)
CallValue(d, c, as, types) == Instruction("callValue", d, <<c>> \o as, 0, "", types)
Drop(a, ty)              == Instruction("drop", 0, <<a>>, 0, "", <<ty>>)
Free(a)                  == Instruction("free", 0, <<a>>, 0, "", <<>>)
StructNew(d, s, as)      == Instruction("struct", d, as, 0, s, <<>>)
FieldLoad(d, a, k)       == Instruction("field", d, <<a>>, k, "", <<>>)
FieldAddr(d, a, k)       == Instruction("fieldAddr", d, <<a>>, k, "", <<>>)
FieldStore(a, k, b)      == Instruction("fieldStore", 0, <<a, b>>, k, "", <<>>)
EnumNew(d, s, tag, as)   == Instruction("enum", d, as, tag, s, <<>>)
EnumTag(d, a)            == Instruction("tag", d, <<a>>, 0, "", <<>>)
EnumFieldLoad(d, a, k)   == Instruction("enumField", d, <<a>>, k, "", <<>>)
EnumFieldAddr(d, a, k)   == Instruction("enumFieldAddr", d, <<a>>, k, "", <<>>)
EnumFieldStore(a, k, b)  == Instruction("enumFieldStore", 0, <<a, b>>, k, "", <<>>)
VolatileLoad(d, a, ty)   == Instruction("volatileLoad", d, <<a>>, 0, "", <<ty>>)
VolatileStore(a, b, ty)  == Instruction("volatileStore", 0, <<a, b>>, 0, "", <<ty>>)

defs(i) == i.dst
uses(i) == i.args

Terminator(k, uses_, targets) == [k |-> k, uses |-> uses_, targets |-> targets]
Return(as)            == Terminator("return", as, <<>>)
Goto(b)               == Terminator("goto", <<>>, <<b>>)
Branch(c, yes, no)    == Terminator("branch", <<c>>, <<yes, no>>)
Unreachable           == Terminator("unreachable", <<>>, <<>>)

BasicBlock(code, end) == [code |-> code, end |-> end]
MirFunction(owner, hint, params, result, locals, blocks) ==
  [owner |-> owner, hint |-> hint, params |-> params, result |-> result,
   locals |-> locals, blocks |-> blocks, entry |-> 1]
(* `externs` are the functions that C defines, whatever body stands under the
   name here. *)
MirModule(functions, externs, structs, enums) ==
  [functions |-> functions, externs |-> externs, structs |-> structs, enums |-> enums]

-----------------------------------------------------------------------------
(* The control-flow graph *)

successors(function, b) == function.blocks[b].end.targets

Predecessors(function, b) ==
  SelectSeq([x \in DOMAIN function.blocks |-> x], LAMBDA x : b \in Range(successors(function, x)))

(* The walk from the entry, depth first: a block is done when everything that
   follows it has been seen. *)
Postorder(function) ==
  LET walk(w) ==
        LET top == Last(w.stack)
            new == SelectSeq(successors(function, top), LAMBDA t : t \notin w.seen)
        IN IF w.stack = <<>> THEN w
           ELSE IF new = <<>> THEN [w EXCEPT !.stack = Front(@), !.done = Append(@, top)]
           ELSE [w EXCEPT !.stack = Append(@, Head(new)), !.seen = @ \cup {Head(new)}]
  IN Settled(walk, [stack |-> <<function.entry>>, seen |-> {function.entry}, done |-> <<>>],
             2 * Len(function.blocks)).now.done

reverse_postorder(function) == Reverse(Postorder(function))
is_reachable(function, b) == b \in Range(Postorder(function))

(* What the program stops with then. *)
Stop(op, b) == CASE op \in shifts -> "shift" [] op \in {"div", "rem"} /\ b = 0 -> "div_zero" [] OTHER -> "overflow"

-----------------------------------------------------------------------------
(* What a module does *)

Value(k, n, m, s) == [k |-> k, n |-> n, m |-> m, s |-> s]
WordOf(n)      == Value("word", n, 0, "")
Code(f)        == Value("code", f, 0, "")
Helper(k, s)   == Value("helper", k, 0, s)   \* 1 drops, 2 copies a structure or an enum
Address(b, k)  == Value("address", b, k, "")
Undefined      == Value("undefined", 0, 0, "")

Event(k, what, values) == [k |-> k, what |-> what, values |-> values]
(* A value as the outside sees it: an address says nothing. *)
Seen(v) == IF v.k = "word" THEN v.n ELSE -1

Frame(f, base, dst) == [f |-> f, block |-> 1, at |-> 1, base |-> base, dst |-> dst]

Entered(M, function, f, values, dst) ==
  [M EXCEPT !.heap = Append(@, [l \in DOMAIN function.locals |->
                         IF l \in Range(function.params) /\ l <= Len(values) THEN values[l]
                         ELSE Undefined]),
            !.frames = Append(@, Frame(f, Len(M.heap) + 1, dst))]

Halted(M, how) == [M EXCEPT !.status = how]
Readable(M, v) == v.k = "address" /\ v.n \notin M.freed /\ v.m \in DOMAIN M.heap[v.n]

(* lowering.rs: an enum without any field is its tag. *)
is_fieldless(module, ty) ==
  ty.k = "named" /\ ty.name \in DOMAIN module.enums
  /\ \A tag \in DOMAIN module.enums[ty.name] : module.enums[ty.name][tag] = <<>>

(* Letting go of a value of a type: texts are seen to go, and a block goes with
   what it holds.  A closure's block says itself which layout it has. *)
RECURSIVE Released(_, _, _, _)
Released(module, M, v, ty) ==
  LET all(A, types, from) ==
        Fold(LAMBDA B, k : IF B.status # "running" THEN B
                           ELSE Released(module, B, B.heap[v.n][from + k], types[k]), A, Numbers(types))
      gone(A) == IF A.status = "running" THEN [A EXCEPT !.freed = @ \cup {v.n}] ELSE A
      layout(s) == IF s \in DOMAIN module.structs THEN all(M, module.structs[s], 0)
                   ELSE all(M, module.enums[s][M.heap[v.n][1].n + 1], 1)
  IN CASE ty.k = "text" -> [M EXCEPT !.events = Append(@, Event("released", Seen(v), <<>>))]
       [] is_fieldless(module, ty) -> M
       [] ty.k \in {"fn", "named", "list"} /\ (v.k # "address" \/ v.n \in M.freed) -> Halted(M, "wrong")
       [] ty.k = "fn"    -> gone(layout(M.heap[v.n][2].s))
       [] ty.k = "named" -> gone(layout(ty.name))
       [] ty.k = "list"  -> gone(all(M, [k \in DOMAIN M.heap[v.n] |-> ty.of[1]], 0))
       [] OTHER -> M

(* A copy of a value of a type, with a copy of what it holds. *)
RECURSIVE Copied(_, _, _, _)
Copied(module, M, v, ty) ==
  LET copy(tag, types) ==
        LET to == Fold(LAMBDA A, k :
                    LET one == Copied(module, A.M, M.heap[v.n][Len(tag) + k], types[k])
                    IN [M |-> one.M, fields |-> Append(A.fields, one.v)],
                    [M |-> M, fields |-> tag], Numbers(types))
        IN [M |-> [to.M EXCEPT !.heap = Append(@, to.fields)], v |-> Address(Len(to.M.heap) + 1, 1)]
      tag == <<M.heap[v.n][1]>>
      layout(s) == IF s \in DOMAIN module.structs THEN copy(<<>>, module.structs[s])
                   ELSE copy(tag, module.enums[s][tag[1].n + 1])
  IN CASE ty.k = "fn" -> layout(M.heap[v.n][3].s)
       [] ty.k = "named" /\ ~is_fieldless(module, ty) -> layout(ty.name)
       [] ty.k = "list" -> copy(<<>>, [k \in DOMAIN M.heap[v.n] |-> ty.of[1]])
       [] OTHER -> [M |-> M, v |-> v]

(* What the language itself does to lists. *)
BuiltIn(module, M, i, get(_), put(_, _)) ==
  LET a == get(i.args[1])
      of == strip_ref(i.types[1])
      list == M.heap[a.n]
      at == get(i.args[2]).n + 1
      option == strip_ref(Last(i.types)).name
      held(A, es) == [A EXCEPT !.heap[a.n] = es]
      new(A, vs) == put([A EXCEPT !.heap = Append(@, vs)], Address(Len(A.heap) + 1, 1))
      inside == i.name \in {"get", "get-ref", "remove", "replace"}
  IN CASE i.name = "list" -> new(M, [k \in DOMAIN i.args |-> get(i.args[k])])
       [] i.name = "clone" -> LET to == Copied(module, M, a, of) IN put(to.M, to.v)
       [] i.name \notin {"list", "clone"} /\ (a.k # "address" \/ a.n \in M.freed) -> Halted(M, "wrong")
       [] inside /\ at \notin DOMAIN list -> Halted(M, "trapped")
       [] i.name = "len"  -> put(M, WordOf(Len(list)))
       [] i.name = "push" -> held(M, Append(list, get(i.args[2])))
       [] i.name = "pop"  -> IF list = <<>> THEN new(M, <<WordOf(0)>>)
                             ELSE new(held(M, Front(list)), <<WordOf(1), Last(list)>>)
       [] i.name = "get"  -> put(M, list[at])
       [] i.name = "get-ref" -> put(M, IF is_pointer_like(of.of[1]) THEN list[at] ELSE Address(a.n, at))
       [] i.name = "remove"  -> put(held(M, RemoveAt(list, at)), list[at])
       [] i.name = "replace" -> put(held(M, [list EXCEPT ![at] = get(i.args[3])]), list[at])

(* One instruction, in the frame on top. *)
Performed(module, answers, M, i) ==
  LET top    == Last(M.frames)
      get(l) == M.heap[top.base][l]
      a      == get(i.args[1])
      words  == \A k \in DOMAIN i.args : get(i.args[k]).k = "word"
      on     == [M EXCEPT !.frames[Len(M.frames)].at = @ + 1]
      put(A, v)  == IF i.dst = 0 THEN A ELSE [A EXCEPT !.heap[top.base][i.dst] = v]
      at(v, k)   == [v EXCEPT !.m = @ + k]
      read(v)    == IF Readable(M, v) THEN put(on, M.heap[v.n][v.m]) ELSE Halted(M, "wrong")
      write(v, x) == IF Readable(M, v) THEN [on EXCEPT !.heap[v.n][v.m] = x] ELSE Halted(M, "wrong")
      block(vs)  == put([on EXCEPT !.heap = Append(@, vs)], Address(Len(M.heap) + 1, 1))
      passed(from) == [k \in 1 .. Len(i.args) - from |-> get(i.args[k + from])]
      told(k, what, vs) == [on EXCEPT !.events = Append(@, Event(k, what, vs))]
      answer == answers[((M.asked - 1) % Len(answers)) + 1]
      asking(A) == [A EXCEPT !.asked = @ + 1]
      enter(f, vs) ==
        IF f \in module.externs
        THEN put(asking(told("called", f, [k \in DOMAIN vs |-> Seen(vs[k])])),
                 WordOf(FromC(answer, module.functions[f].result)))
        ELSE Entered(on, module.functions[f], f, vs, i.dst)
  IN CASE \E k \in DOMAIN i.args : get(i.args[k]).k = "undefined" -> Halted(M, "wrong")
       [] i.op \in {"int", "bool", "text"} -> put(on, WordOf(Wrap(i.n)))
       [] i.op = "assign"    -> put(on, a)
       [] i.op = "address"   ->
            put(on, IF is_pointer_like(module.functions[top.f].locals[i.args[1]]) THEN a
                    ELSE Address(top.base, i.args[1]))
       [] i.op = "fn"        -> put(on, Code(i.n))
       [] i.op = "helper"    -> put(on, Helper(i.n, i.name))
       [] i.op = "builtin"   -> BuiltIn(module, on, i, get, put)
       [] i.op = "binary"    ->
            LET n == Operation(i.name, a.n, get(i.args[2]).n, i.types[1]) IN
              IF ~words THEN Halted(M, "wrong")
              ELSE IF n = -1 THEN Halted(told(Stop(i.name, get(i.args[2]).n), -1, <<>>), "trapped")
              ELSE put(on, WordOf(n))
       [] i.op = "call"      -> enter(i.n, passed(0))
       [] i.op = "callValue" -> IF a.k = "code" /\ a.n \in DOMAIN module.functions
                                THEN enter(a.n, passed(1)) ELSE Halted(M, "wrong")
       [] i.op = "drop"      -> Released(module, on, a, i.types[1])
       [] i.op = "free"      -> IF Readable(M, a) THEN [on EXCEPT !.freed = @ \cup {a.n}]
                                ELSE Halted(M, "wrong")
       [] i.op = "struct"    -> block(passed(0))
       [] i.op = "enum"      -> block(<<WordOf(i.n)>> \o passed(0))
       [] i.op \in {"load", "tag"} -> read(a)
       [] i.op = "field"     -> read(at(a, i.n))
       [] i.op = "enumField" -> read(at(a, i.n + 1))
       [] i.op = "fieldAddr" -> put(on, at(a, i.n))
       [] i.op = "enumFieldAddr"  -> put(on, at(a, i.n + 1))
       [] i.op = "fieldStore"     -> write(at(a, i.n), get(i.args[2]))
       [] i.op = "enumFieldStore" -> write(at(a, i.n + 1), get(i.args[2]))
       [] i.op = "volatileLoad"   ->
            put(asking(told("read", a.n, <<>>)), WordOf(Reading(answer, i.types[1])))
       [] i.op = "volatileStore"  ->
            told("written", a.n, <<get(i.args[2]).n % 2 ^ access_bits(i.types[1])>>)

(* The end of a block. *)
Ended(M, end) ==
  LET top    == Last(M.frames)
      get(l) == M.heap[top.base][l]
      goto(b) == [M EXCEPT !.frames[Len(M.frames)].block = b, !.frames[Len(M.frames)].at = 1]
      result == IF end.uses = <<>> THEN Undefined ELSE get(end.uses[1])
      status == IF end.uses = <<>> THEN 0 ELSE Seen(result)
      below  == Front(M.frames)
  IN CASE end.k = "goto"   -> goto(end.targets[1])
       [] end.k = "branch" -> IF get(end.uses[1]).k # "word" THEN Halted(M, "wrong")
                              ELSE goto(end.targets[IF get(end.uses[1]).n = 1 THEN 1 ELSE 2])
       [] end.k = "return" ->
            IF below = <<>> THEN Halted([M EXCEPT !.events = Append(@, Event("returned", status, <<>>))], "ended")
            ELSE LET back == [M EXCEPT !.frames = below, !.freed = @ \cup {top.base}] IN
                   IF end.uses = <<>> THEN back
                   ELSE [back EXCEPT !.heap[Last(below).base][top.dst] = result]
       [] OTHER -> Halted(M, "wrong")

(* A run of the first function. *)
Run(module, answers) ==
  LET start == Entered([frames |-> <<>>, heap |-> <<>>, freed |-> {}, events |-> <<>>,
                        asked |-> 1, status |-> "running"], module.functions[1], 1, <<>>, 0)
      step(M) ==
        LET top   == Last(M.frames)
            block == module.functions[top.f].blocks[top.block]
        IN IF top.at > Len(block.code) THEN Ended(M, block.end)
           ELSE Performed(module, answers, M, block.code[top.at])
  IN Followed(step, start)

(* What a run shows: its events, how it ends, and how many of its blocks are
   left at the end (the first is the frame of the function itself). *)
Behaviour(M) == [events |-> M.events, status |-> M.status]
Leaked(M) == Cardinality(2 .. Len(M.heap)) - Cardinality(M.freed \ {1})
=============================================================================
