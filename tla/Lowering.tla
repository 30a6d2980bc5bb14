-------------------------------- MODULE Lowering --------------------------------
(***************************************************************************)
(* What both back ends decide the same way (lowering.rs): the helper that    *)
(* releases or copies a type, how wide a block is, which locals must stay in *)
(* memory, and what a call of the language's own operations does.  Also what *)
(* they share in shape: the homes of locals, a frame, and the peephole.      *)
(*                                                                          *)
(* Widths count words; doubles are left out, and a text is a word.           *)
(***************************************************************************)
EXTENDS MirVerifier, Machine

NoHelper == Undefined

drop_function(module, ty) ==
  CASE ty.k = "text" -> Runtime("sl_rt_string_drop")
    [] ty.k = "list" -> Runtime("sl_rt_list_drop")
    [] ty.k = "fn"   -> Runtime("sl_rt_closure_drop")
    [] ty.k = "named" /\ ~is_fieldless(module, ty) -> Helper(1, ty.name)
    [] OTHER -> NoHelper

clone_function(module, ty) ==
  CASE ty.k = "text" -> Runtime("sl_rt_string_clone")
    [] ty.k = "list" -> Runtime("sl_rt_list_clone")
    [] ty.k = "fn"   -> Runtime("sl_rt_closure_clone")
    [] ty.k = "named" /\ ~is_fieldless(module, ty) -> Helper(2, ty.name)
    [] OTHER -> NoHelper

Larger(a, b) == IF a > b THEN a ELSE b
struct_size(module, s) == Larger(Len(module.structs[s]), 1)
enum_size(fields) == fields + 1
enum_clone_size(module, s) ==
  Fold(LAMBDA n, fields : Larger(enum_size(Len(fields)), n), 1, module.enums[s])

(* Mutant of calls_something: letting go of a value calls nothing. *)
MutantDropIsNoCall(module, function) ==
  Of(function, {"call", "builtin", "callValue", "text", "struct", "enum", "free"}) # {}

(* Whether the code for a function contains a call that returns. *)
calls_something(module, function) ==
  \/ Of(function, {"call", "builtin", "callValue", "text", "struct", "enum", "free"}) # {}
  \/ \E i \in Of(function, {"drop"}) : drop_function(module, i.types[1]) # NoHelper

(* The stops a function's arithmetic can reach. *)
Traps == <<"div_zero", "overflow", "shift">>
trap_usage(function) ==
  UNION {CASE i.types[1].k # "int"                 -> {}
           [] i.name \in {"add", "sub", "mul"}     -> {"overflow"}
           [] i.name \in {"div", "rem"}            -> {"overflow", "div_zero"}
           [] i.name \in shifts                    -> {"shift"}
           [] OTHER                                -> {} : i \in Of(function, {"binary"})}

-----------------------------------------------------------------------------
(* Plans: what an operation of the language does, whichever the machine. *)

Argument(k, local, v) == [k |-> k, local |-> local, v |-> v]
ValueOf(l)     == Argument("value", l, Undefined)
SlotOf(l)      == Argument("address", l, Undefined)
Immediate(n)   == Argument("immediate", 0, WordOf(n))
FunctionOf(v)  == Argument("function", 0, IF v = NoHelper THEN Null ELSE v)

Step(k, arguments, v) == [k |-> k, arguments |-> arguments, v |-> v]
Invoke(name, arguments) == Step("invoke", arguments, Runtime(name))
InvokeGlue(helper, arguments) == Step("invoke", arguments, helper)  \* without a helper, the first argument
Save       == Step("save", <<>>, Undefined)
Restore    == Step("restore", <<>>, Undefined)
LoadResult == Step("load", <<>>, Undefined)
WrapOption == Step("wrap", <<>>, Undefined)

none_tag == 0
some_tag == 1

builtin(module, i) ==
  LET a == i.args
      element == ResultType(i).of[1]
      behind == strip_ref(i.types[1]).of[1]
  IN CASE i.name = "clone" -> <<InvokeGlue(clone_function(module, strip_ref(i.types[1])), <<ValueOf(a[1])>>)>>
       [] i.name = "list" ->
            <<Invoke("sl_rt_list_new", <<Immediate(1), FunctionOf(drop_function(module, element)),
                                         FunctionOf(clone_function(module, element))>>), Save>>
            \o [k \in DOMAIN a |-> Invoke("sl_rt_list_push", <<ValueOf(i.dst), SlotOf(a[k])>>)] \o <<Restore>>
       [] i.name = "len"  -> <<Invoke("sl_rt_list_len", <<ValueOf(a[1])>>)>>
       [] i.name = "push" -> <<Invoke("sl_rt_list_push", <<ValueOf(a[1]), SlotOf(a[2])>>)>>
       [] i.name \in {"get", "get-ref"} ->
            <<Invoke("sl_rt_list_get", <<ValueOf(a[1]), ValueOf(a[2])>>)>>
            \o IF i.name = "get" \/ behind.k \in {"text", "list", "named"} THEN <<LoadResult>> ELSE <<>>
       [] i.name = "pop"  -> <<Invoke("sl_rt_list_try_pop", <<ValueOf(a[1]), SlotOf(i.dst)>>), WrapOption>>
       [] i.name = "remove"  -> <<Invoke("sl_rt_list_remove", <<ValueOf(a[1]), ValueOf(a[2])>>)>>
       [] i.name = "replace" -> <<Invoke("sl_rt_list_replace", <<ValueOf(a[1]), ValueOf(a[2]), SlotOf(a[3])>>)>>

(* The locals whose slot's address is handed to something: a borrowed scalar,
   and what a plan passes by address. *)
address_taken(module, function) ==
  {i.args[1] : i \in {x \in Of(function, {"address"}) : ~is_pointer_like(TypeOf(function, x.args[1]))}}
  \cup UNION {UNION {{g.local : g \in {h \in Range(s.arguments) : h.k = "address"}}
                       : s \in Range(builtin(module, i))} : i \in Of(function, {"builtin"})}

-----------------------------------------------------------------------------
(* Homes: each local's register, or its slot.  Registers of a file from
   `volatile` + 1 on belong to the caller. *)

RegisterFile(wide, volatile) == [wide |-> wide, volatile |-> volatile]

(* `wanted` are the locals the allocator would rather have in registers; each
   gets one of its own while they last. *)
Homes(module, function, file, outgoing, wanted) ==
  LET order(S) == SelectSeq(Numbers(function.locals), LAMBDA l : l \in S)
      first(s, n) == SubSeq(s, 1, IF Len(s) < n THEN Len(s) ELSE n)
      place(s, l) == CHOOSE k \in DOMAIN s : s[k] = l
      homes(placed, kept, saved) ==
        [of    |-> [l \in DOMAIN function.locals |->
                      IF l \in Range(placed) THEN Reg(file.wide[place(placed, l)])
                      ELSE Frame_(outgoing + place(kept, l))],
         saved |-> [k \in DOMAIN saved |-> [register |-> Reg(saved[k]), slot |-> Frame_(outgoing + Len(kept) + k)]],
         words |-> outgoing + Len(kept) + Len(saved)]
      around(placed) == homes(placed, order(DOMAIN function.locals \ Range(placed)),
                              SubSeq(file.wide, file.volatile + 1, Len(placed)))
  IN around(first(order(wanted \ address_taken(module, function)), Len(file.wide)))

align_to(n, m) == ((n + m - 1) \div m) * m


(* A function's labels: its blocks', its end's, and its trampolines'. *)
Epilogue == 0
trampoline(trap) == CASE trap = "div_zero" -> -1 [] trap = "overflow" -> -2 [] trap = "shift" -> -3

(* A copy that puts a value straight back where it came from is deleted: the
   item looked at is compared with the last one kept. *)
IsCopy(i, arm) == i.op = "mov" /\ (arm => i.to.k = "register" /\ i.a.k = "register")
remove_redundant_copies(items, arm) ==
  LET undoes(p, q) == q > 0 /\ IsCopy(items[q], arm) /\ items[p] = Mov(items[q].a, items[q].to)
      last[p \in 0 .. Len(items)] ==   \* the last one kept, up to there
        IF p = 0 \/ items[p].op # "mov" THEN p
        ELSE LET q == last[p - 1] IN IF undoes(p, q) THEN q ELSE p
      kept == SelectSeq(Numbers(items), LAMBDA p : last[p] = p)
  IN [k \in DOMAIN kept |-> items[kept[k]]]

Helpers(module) == {Helper(k, s) : k \in 1 .. 2, s \in DOMAIN module.structs \cup DOMAIN module.enums}
Emitted(module, function(_), helper(_, _), start) ==
  (Start :> start)
  @@ [s \in {Code(f) : f \in DOMAIN module.functions \ module.externs} |-> function(s.n)]
  @@ [s \in Helpers(module) |-> helper(s.n, s.s)]
=============================================================================
