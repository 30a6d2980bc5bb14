-------------------------------- MODULE Machine --------------------------------
(***************************************************************************)
(* The processors the back ends write code for (x86_64_inst.rs,             *)
(* aarch64_inst.rs), as far as that code uses them, and the C runtime it     *)
(* calls (slop_rt_core.c).  A word of memory holds a value, and offsets      *)
(* count words.                                                              *)
(***************************************************************************)
EXTENDS Mir

(* A symbol is a function of the module, a helper, or a runtime entry. *)
Runtime(name) == Value("runtime", 0, 0, name)
Start == Runtime("main")
(* What a program carries to be read: a text, and what a stop says. *)
Text_(n)      == Value("datum", n, 0, "text")
Message(stop) == Value("datum", 0, 0, stop)

Operand(k, r, n, v) == [k |-> k, r |-> r, n |-> n, v |-> v]
Reg(r)      == Operand("register", r, 0, Undefined)
Frame_(n)   == Operand("frame", "", n, Undefined)     \* a word of the frame
Mem(r, n)   == Operand("memory", r, n, Undefined)     \* a word at a register
Incoming(n) == Operand("incoming", "", n, Undefined)  \* what the caller left on the stack
Imm(n)      == Operand("value", "", n, WordOf(Wrap(n)))
Symbol(v)   == Operand("value", "", 0, v)
Label(n)    == Operand("label", "", n, Undefined)    \* a label of the function
Forward(n)  == Operand("forward", "", n, Undefined)  \* the next numeric label of that number
Place(s, k) == Operand("place", "", k, s)            \* an instruction of a symbol's code
None_       == Operand("none", "", 0, Undefined)

Inst(op, x, to, a, b) == [op |-> op, x |-> x, to |-> to, a |-> a, b |-> b]
Mov(to, a)       == Inst("mov", "", to, a, None_)
Lea(to, a)       == Inst("lea", "", to, a, None_)
Arith(x, to, a, b) == Inst("arith", x, to, a, b)
Cmp(a, b)        == Inst("cmp", "", None_, a, b)
CmpSign(a, b)    == Inst("cmp", "sign", None_, a, b)     \* with b's sign, in every bit
MultiplySubtract(to, a, b, c) == Inst("msub", c.r, to, a, b)  \* c - a * b
Set(cond, to)    == Inst("set", cond, to, None_, None_)
Jump(cond, to)   == Inst("jump", cond, to, None_, None_)
Extend(to, ty)   == Inst("extend", IF ty.signed THEN "signed" ELSE "", to, to, Imm(ty.bits))
LoadDevice(to, at, bits)    == Inst("loadDevice", "", to, at, Imm(bits))
StoreDevice(at, from, bits) == Inst("storeDevice", "", at, from, Imm(bits))
CallTo(a)        == Inst("call", "", None_, a, None_)
Push(a)          == Inst("push", "", None_, a, None_)
Pop(n)           == Inst("pop", "", None_, Imm(n), None_)
Enter_(n)        == Inst("enter", "", None_, Imm(n), None_)
At_(n)           == Inst("label", "", Label(n), None_, None_)
Numeric(n)       == Inst("numeric", "", Forward(n), None_, None_)
Ret == Inst("ret", "", None_, None_, None_)
Ud  == Inst("undefined", "", None_, None_, None_)

(* A convention: where arguments go, what a call keeps, and which way the carry
   of a subtraction points. *)
Convention(arguments, result, preserved, arm) ==
  [arguments |-> arguments, result |-> result, preserved |-> preserved, arm |-> arm]

-----------------------------------------------------------------------------
(* Flags, from what was computed: exactly, and in a word. *)

Flags(carry, overflow, zero, negative) ==
  [carry |-> carry, overflow |-> overflow, zero |-> zero, negative |-> negative]
NoFlags == Flags(FALSE, FALSE, FALSE, FALSE)

AfterAdd(a, b) ==
  LET w == Wrap(a + b) IN
  Flags(a + b >= 2 ^ WordBits, ~InRange(Signed(a) + Signed(b), Word), w = 0, Signed(w) < 0)
AfterSub(a, b, arm) ==
  LET w == Wrap(a - b) IN
  Flags((a < b) # arm, ~InRange(Signed(a) - Signed(b), Word), w = 0, Signed(w) < 0)

Holds(cond, f) ==
  CASE cond = "always" -> TRUE
    [] cond \in {"e", "eq"} -> f.zero
    [] cond = "ne"          -> ~f.zero
    [] cond \in {"o", "vs"} -> f.overflow
    [] cond \in {"b", "hs"} -> f.carry
    [] cond \in {"ae", "lo"} -> ~f.carry
    [] cond = "a"           -> ~f.carry /\ ~f.zero
    [] cond = "be"          -> f.carry \/ f.zero
    [] cond = "hi"          -> f.carry /\ ~f.zero
    [] cond = "ls"          -> ~f.carry \/ f.zero
    [] cond \in {"l", "lt"} -> f.negative # f.overflow
    [] cond \in {"ge"}      -> f.negative = f.overflow
    [] cond \in {"g", "gt"} -> ~f.zero /\ f.negative = f.overflow
    [] cond \in {"le"}      -> f.zero \/ f.negative # f.overflow

(* An operation on two words: the word, and the flags if it sets any.  A word
   of -1 is a fault of the processor. *)
Computed(x, a, b, arm, flags) ==
  LET s == Signed(a)
      t == Signed(b)
      result(n, f) == [n |-> n, flags |-> f]
      plain(n) == result(Wrap(n), flags)
      product(n, fits) == result(Wrap(n), IF arm THEN flags ELSE Flags(~fits, ~fits, FALSE, FALSE))
      amount == b % WordBits
      asr(n) == s \div 2 ^ n
  IN CASE x \in {"add", "adds"} -> result(Wrap(a + b), IF x = "add" /\ arm THEN flags ELSE AfterAdd(a, b))
       [] x \in {"sub", "subs"} -> result(Wrap(a - b), IF x = "sub" /\ arm THEN flags ELSE AfterSub(a, b, arm))
       [] x = "imul"  -> product(s * t, InRange(s * t, Word))
       [] x = "mul"   -> product(a * b, a * b < 2 ^ WordBits)
       [] x = "smulh" -> plain((s * t) \div 2 ^ WordBits)
       [] x = "umulh" -> plain((a * b) \div 2 ^ WordBits)
       [] x = "and"   -> plain(Operation("and", a, b, Word))
       [] x = "or"    -> plain(Operation("or", a, b, Word))
       [] x = "xor"   -> plain(Operation("xor", a, b, Word))
       [] x = "shl"   -> plain(a * 2 ^ amount)
       [] x = "shr"   -> plain(a \div 2 ^ amount)
       [] x = "sar"   -> plain(asr(amount))
       \* x86 faults where AArch64 answers
       [] x = "idiv" /\ b # 0 -> IF InRange(Quotient(s, t), Word) \/ arm THEN plain(Quotient(s, t))
                                 ELSE result(-1, flags)
       [] x = "irem" /\ b # 0 -> IF InRange(Quotient(s, t), Word) THEN plain(s - t * Quotient(s, t))
                                 ELSE result(-1, flags)
       [] x = "div" /\ b # 0  -> plain(a \div b)
       [] x = "urem" /\ b # 0 -> plain(a % b)
       [] OTHER -> result(-1, flags)

-----------------------------------------------------------------------------
(* The runtime, one entry at a time; a list's block starts with its helpers. *)

Fresh(M, vs) == [M EXCEPT !.heap = Append(@, vs)]
Whole(M, v) == v.k = "address" /\ v.n \in DOMAIN M.heap /\ v.n \notin M.freed
Null == WordOf(0)

(* What an entry leaves: the machine, and the word it returns. *)
Served(name, M, a, b, c) ==
  LET ok(A, v)  == [M |-> A, v |-> v]
      wrong     == ok(Halted(M, "wrong"), Undefined)
      list      == M.heap[a.n]
      length    == Len(list) - 2
      at(n)     == 3 + n
      out(v)    == IF Readable(M, b) THEN ok([M EXCEPT !.heap[b.n][b.m] = v], WordOf(1)) ELSE wrong
      indexed(r) == IF ~Whole(M, a) \/ b.k # "word" THEN wrong
                    ELSE IF b.n >= length THEN ok(Halted(M, "trapped"), Undefined) ELSE r
      read(x)   == IF Readable(M, x) THEN M.heap[x.n][x.m] ELSE Undefined
  IN CASE name = "sl_rt_alloc" ->
            IF a.k = "word" /\ a.n # 0 THEN ok(Fresh(M, [k \in 1 .. a.n |-> Undefined]), Address(Len(M.heap) + 1, 1))
            ELSE wrong
       [] name = "sl_rt_free" ->
            IF a = Null THEN ok(M, Undefined)
            ELSE IF Whole(M, a) THEN ok([M EXCEPT !.freed = @ \cup {a.n}], Undefined) ELSE wrong
       [] name = "sl_rt_string_new"   -> IF a.s = "text" THEN ok(M, WordOf(a.n)) ELSE wrong
       [] name = "sl_rt_string_clone" -> ok(M, a)
       [] name = "sl_rt_string_drop"  ->
            IF a = Null THEN ok(M, Undefined)
            ELSE ok([M EXCEPT !.events = Append(@, Event("released", Seen(a), <<>>))], Undefined)
       [] name = "sl_rt_list_new" -> ok(Fresh(M, <<b, c>>), Address(Len(M.heap) + 1, 1))
       [] name # "sl_rt_list_new" /\ ~Whole(M, a) -> IF name = "sl_rt_list_drop" /\ a = Null THEN ok(M, Undefined) ELSE wrong
       [] name = "sl_rt_list_push" -> ok([M EXCEPT !.heap[a.n] = Append(@, read(b))], Undefined)
       [] name = "sl_rt_list_len"  -> ok(M, WordOf(length))
       [] name = "sl_rt_list_get"  -> indexed(ok(M, Address(a.n, at(b.n))))
       [] name = "sl_rt_list_try_pop" ->
            IF length = 0 THEN ok(M, WordOf(0))
            ELSE IF ~Readable(M, b) THEN wrong
            ELSE ok([M EXCEPT !.heap[a.n] = Front(@), !.heap[b.n][b.m] = Last(list)], WordOf(1))
       [] name = "sl_rt_list_remove" ->
            indexed(ok([M EXCEPT !.heap[a.n] = RemoveAt(@, at(b.n))], list[at(b.n)]))
       [] name = "sl_rt_list_replace" ->
            indexed(ok([M EXCEPT !.heap[a.n][at(b.n)] = read(c)], list[at(b.n)]))
       [] name = "sl_rt_list_clone" -> ok(Fresh(M, list), Address(Len(M.heap) + 1, 1))
       [] name = "sl_rt_list_drop" ->
            ok([M EXCEPT !.freed = @ \cup {a.n},
                         !.events = @ \o IF list[1] = Null THEN <<>>
                                        ELSE [k \in 1 .. length |-> Event("released", Seen(list[k + 2]), <<>>)]],
               Undefined)

-----------------------------------------------------------------------------
(* Running *)

Frame2(symbol, incoming) == [f |-> symbol, at |-> 1, base |-> 0, incoming |-> incoming, pushed |-> <<>>]

(* An instruction the processor has: x86 takes one operand in memory, AArch64
   only to load and to store it. *)
Encodes(i, arm) ==
  LET held == {k \in 1 .. 3 : <<i.to, i.a, i.b>>[k].k \in {"frame", "memory", "incoming"}}
      constants == {k \in 1 .. 3 : <<i.to, i.a, i.b>>[k].k = "value"}
  IN CASE i.op = "mov" -> Cardinality(held) <= 1 /\ (arm /\ held # {} => constants = {})
       [] i.op \in {"arith", "cmp", "msub"} -> /\ arm => held = {}
                                      /\ Cardinality({<<i.to, i.a, i.b>>[k] : k \in held}) <= 1
                                      /\ i.a.k # "value"
                                      /\ ~arm /\ i.op = "arith" => i.to = i.a
       [] OTHER -> TRUE

(* One instruction of the code, by a convention. *)
Stepped(code, module, answers, cc, M) ==
  LET top  == Last(M.frames)
      here == Len(M.frames)
      i    == code[top.f][top.at]
      on   == [M EXCEPT !.frames[here].at = @ + 1]
      slot(o) == IF o.k = "memory" THEN [M.regs[o.r] EXCEPT !.m = @ + o.n] ELSE Address(top.base, o.n)
      stack == IF cc.arm THEN M.heap[top.base] ELSE top.pushed
      get(o) == CASE o.k = "register" -> M.regs[o.r]
                  [] o.k = "value"    -> o.v
                  [] o.k = "incoming" -> top.incoming[o.n + 1]
                  [] OTHER            -> M.heap[slot(o).n][slot(o).m]
      reachable(o) == /\ o.k \in {"memory", "frame"} => Readable(M, slot(o))
                      /\ o.k = "incoming" => o.n + 1 \in DOMAIN top.incoming
      put(A, o, v) == IF o.k = "register" THEN [A EXCEPT !.regs[o.r] = v]
                      ELSE [A EXCEPT !.heap[slot(o).n][slot(o).m] = v]
      a == get(i.a)
      b == get(i.b)
      jumped(place) == [M EXCEPT !.frames[here].f = place.v, !.frames[here].at = place.n]
      \* C destroys what it may
      clobbered(A, v) == [A EXCEPT !.regs = [r \in DOMAIN @ |-> IF r = cc.result THEN v
                                                                ELSE IF r \in cc.preserved THEN @[r] ELSE Undefined]]
      argument(k) == IF k <= Len(cc.arguments) THEN M.regs[cc.arguments[k]]
                     ELSE stack[k - Len(cc.arguments)]
      foreign(f) == LET params == module.functions[f].params
                        answer == answers[((M.asked - 1) % Len(answers)) + 1] IN
                    clobbered([on EXCEPT !.asked = @ + 1,
                                 !.events = Append(@, Event("called", f, [k \in DOMAIN params |-> Seen(argument(k))]))],
                              WordOf(answer))
      served(name) == LET s == Served(name, on, argument(1), argument(2), argument(3)) IN clobbered(s.M, s.v)
      entered(s) == [on EXCEPT !.frames = Append(@, Frame2(s, stack))]
      called(s) ==
        CASE s.k = "code" /\ s.n \in module.externs -> foreign(s.n)
          [] s.k = "runtime" /\ s.s \in {"sl_rt_closure_drop", "sl_rt_closure_clone"} ->
               LET block == M.regs[cc.arguments[1]]
                   k     == IF s.s = "sl_rt_closure_drop" THEN 1 ELSE 2
               IN IF block = Null /\ k = 1 THEN on
                  ELSE IF ~Whole(M, block) THEN Halted(M, "wrong")
                  ELSE IF M.heap[block.n][1 + k] \in DOMAIN code THEN entered(M.heap[block.n][1 + k])
                  ELSE Halted(M, "wrong")
          [] s = Runtime("sl_rt_panic") -> Halted([M EXCEPT !.events = Append(@, Event(argument(1).s, -1, <<>>))], "trapped")
          [] s.k = "runtime" /\ s.s = "sl_rt_args_init" -> clobbered(on, Undefined)
          [] s \in DOMAIN code -> entered(s)
          [] s.k = "runtime" /\ s \notin DOMAIN code -> served(s.s)
          [] OTHER -> Halted(M, "wrong")
      computed == Computed(i.x, a.n, b.n, cc.arm, M.flags)
      against == IF i.x = "sign" THEN WordOf(Wrap(Signed(b.n) \div 2 ^ (WordBits - 1))) ELSE b
      words == a.k = "word" /\ b.k = "word"
      answer == answers[((M.asked - 1) % Len(answers)) + 1]
      aligned == top.base # 0 /\ (Len(M.heap[top.base]) + Len(top.pushed)) % 2 = 0
  IN CASE top.at \notin DOMAIN code[top.f] \/ i.op = "undefined" -> Halted(M, "wrong")
       [] ~Encodes(i, cc.arm) \/ (i.op = "call" /\ ~aligned) -> Halted(M, "wrong")
       [] i.op = "enter" -> [on EXCEPT !.heap = Append(@, [k \in 1 .. i.a.n |-> Undefined]),
                                       !.frames[here].base = Len(M.heap) + 1]
       [] i.op \in {"label", "numeric"} -> on
       [] i.op \in {"mov", "arith", "msub", "cmp", "push", "extend"}
            /\ ~(reachable(i.a) /\ reachable(i.b) /\ reachable(i.to)) -> Halted(M, "wrong")
       [] i.op = "mov"   -> put(on, i.to, a)
       [] i.op = "lea"   -> put(on, i.to, slot(i.a))
       [] i.op = "push"  -> [on EXCEPT !.frames[here].pushed = <<a>> \o @]
       [] i.op = "pop"   -> [on EXCEPT !.frames[here].pushed = SubSeq(@, i.a.n + 1, Len(@))]
       [] i.op = "arith" ->
            IF i.x = "add" /\ a.k = "address" /\ b.k = "word" THEN put(on, i.to, [a EXCEPT !.m = @ + b.n])
            ELSE IF i.x = "xor" /\ i.a = i.b THEN put(on, i.to, Null)
            ELSE IF ~words \/ computed.n = -1 THEN Halted(M, "wrong")
            ELSE put([on EXCEPT !.flags = computed.flags], i.to, WordOf(computed.n))
       [] i.op = "extend" -> IF a.k # "word" THEN Halted(M, "wrong")
                             ELSE put(on, i.to, WordOf(canonicalize(a.n, Integer(i.b.n, i.x = "signed"))))
       [] i.op = "msub"  -> IF ~words \/ M.regs[i.x].k # "word" THEN Halted(M, "wrong")
                            ELSE put(on, i.to, WordOf(Wrap(M.regs[i.x].n - a.n * b.n)))
       [] i.op = "cmp"   -> IF words THEN [on EXCEPT !.flags = AfterSub(a.n, against.n, cc.arm)]
                            ELSE IF "undefined" \in {a.k, b.k} THEN Halted(M, "wrong")
                            ELSE [on EXCEPT !.flags = [NoFlags EXCEPT !.zero = (a = b)]]
       [] i.op = "set"   -> put(on, i.to, WordOf(Truth(Holds(i.x, M.flags))))
       [] i.op = "jump"  -> IF Holds(i.x, M.flags) THEN jumped(i.to) ELSE on
       [] i.op = "call"  -> called(a)
       [] i.op = "ret"   -> IF here = 1 THEN [M EXCEPT !.status = "ended",
                                                !.events = Append(@, Event("returned", Seen(M.regs[cc.result]), <<>>))]
                            ELSE [M EXCEPT !.frames = Front(@), !.freed = @ \cup {top.base}]
       [] i.op = "loadDevice"  -> put([on EXCEPT !.asked = @ + 1,
                                         !.events = Append(@, Event("read", M.regs[i.a.r].n, <<>>))],
                                      i.to, WordOf(answer % 2 ^ i.b.n))
       [] i.op = "storeDevice" -> [on EXCEPT !.events = Append(@, Event("written", M.regs[i.to.r].n, <<a.n % 2 ^ i.b.n>>))]

(* What the registers a call keeps hold when the program is started. *)
Before(r) == Value("before", 0, 0, r)

(* A run of the program's start; the registers it has to give back are looked
   at when it is over. *)
Executed(code, module, answers, cc, registers) ==
  LET start == [frames |-> <<Frame2(Start, <<>>)>>, heap |-> <<>>, freed |-> {}, events |-> <<>>, asked |-> 1,
                status |-> "running", flags |-> NoFlags,
                regs |-> [r \in registers |-> IF r \in cc.preserved THEN Before(r) ELSE Undefined]]
      step(M) == Stepped(code, module, answers, cc, M)
      checked(over) == IF over.status = "ended" /\ \E r \in cc.preserved : over.regs[r] # Before(r)
                       THEN Halted(over, "wrong") ELSE over
  IN checked(Followed(step, start))
=============================================================================
