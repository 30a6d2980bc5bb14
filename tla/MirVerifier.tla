------------------------------ MODULE MirVerifier ------------------------------
(***************************************************************************)
(* The consistency checks of a module (verify.rs): what the code generators  *)
(* take on trust about it.  A check is true where the code reports nothing.  *)
(***************************************************************************)
EXTENDS Mir

weakens_to(from, to) ==
  from.k = "ref" /\ to.k = "ref" /\ from.name = "mut" /\ to.name = "" /\ from.of = to.of
Accepts(actual, declared) == actual = declared \/ weakens_to(actual, declared)

access_size(ty) == ty.k \in {"int", "bool"}

Code_(function) == UNION {Range(function.blocks[b].code) : b \in DOMAIN function.blocks}
Of(function, ops) == {i \in Code_(function) : i.op \in ops}
ArgumentTypes(i) == Front(i.types)
ResultType(i) == Last(i.types)
TypeOf(function, l) == function.locals[l]
ParamTypes(function) == [k \in DOMAIN function.params |-> TypeOf(function, function.params[k])]

-----------------------------------------------------------------------------
(* What crosses into C is a scalar, a raw pointer, a borrow C may read or fill,
   or a bare function. *)
crossable_argument(ty) ==
  \/ ty.k \in {"bool", "int", "ptr", "fn"}
  \/ ty.k = "ref" /\ ty.name = "" /\ ty.of[1].k = "text"
  \/ ty.k = "ref" /\ ty.name = "mut" /\ ty.of[1].k = "ptr"
  \/ ty.k = "ref" /\ ty.name = "mut" /\ ty.of[1].k = "int" /\ ty.of[1].bits = WordBits

verify_extern_calls(module, function) ==
  \A i \in {c \in Of(function, {"call"}) : c.n \in module.externs} :
    LET declared == module.functions[i.n] IN
      /\ ArgumentTypes(i) = ParamTypes(declared)
      /\ \A k \in DOMAIN ArgumentTypes(i) : crossable_argument(ArgumentTypes(i)[k])
      /\ ResultType(i) = declared.result

verify_direct_calls(module, function) ==
  /\ \A i \in Of(function, {"builtin"}) : TypeOf(function, i.dst) = ResultType(i)
  /\ \A i \in Of(function, {"call"}) :
    LET declared == module.functions[i.n]
        params   == ParamTypes(declared)
    IN /\ TypeOf(function, i.dst) = ResultType(i)
       /\ i.n \notin module.externs =>
            /\ Len(ArgumentTypes(i)) = Len(params)
            /\ \A k \in DOMAIN params : Accepts(ArgumentTypes(i)[k], params[k])
            /\ ResultType(i) = declared.result

verify_returns(function) ==
  \A b \in DOMAIN function.blocks :
    LET end == function.blocks[b].end IN
      end.k = "return" =>
        IF end.uses = <<>> THEN function.result.k = "unit"
        ELSE TypeOf(function, end.uses[1]) = function.result

(* The block a function came out of goes along as the last argument, and its
   type is what the call is checked against. *)
verify_indirect_calls(function) ==
  \A i \in Of(function, {"callValue"}) :
    /\ ArgumentTypes(i) # <<>>
    /\ LET block  == strip_ref(Last(ArgumentTypes(i)))
           others == Front(ArgumentTypes(i))
       IN /\ block.k = "fn"
          /\ Len(others) = Len(block.of) - 1
          /\ \A k \in DOMAIN others : Accepts(others[k], block.of[k])
          /\ ResultType(i) = Last(block.of)

verify_field_stores(module, function) ==
  \A i \in Of(function, {"fieldStore", "enumFieldStore"}) :
    LET aggregate == strip_ref(TypeOf(function, i.args[1])) IN
      /\ is_pointer_like(aggregate)
      /\ (i.op = "fieldStore" /\ aggregate.k = "named" /\ aggregate.name \in DOMAIN module.structs) =>
           /\ i.n + 1 \in DOMAIN module.structs[aggregate.name]
           /\ module.structs[aggregate.name][i.n + 1] = TypeOf(function, i.args[2])

(* Indices are checked against the layout of a struct, and against the widest
   variant of an enum: which variant is there is not known here. *)
verify_aggregate_access(module, function) ==
  LET layout(l, kinds) == LET ty == strip_ref(TypeOf(function, l)) IN
        IF ty.k = "named" /\ ty.name \in DOMAIN kinds THEN {kinds[ty.name]} ELSE {}
      types(ls) == [k \in DOMAIN ls |-> TypeOf(function, ls[k])]
  IN /\ \A i \in Of(function, {"field", "fieldAddr"}) : \A fields \in layout(i.args[1], module.structs) :
          /\ i.n + 1 \in DOMAIN fields
          /\ i.op = "field" => fields[i.n + 1] \in {TypeOf(function, i.dst), strip_ref(TypeOf(function, i.dst))}
     /\ \A i \in Of(function, {"enumField", "enumFieldAddr", "enumFieldStore"}) :
          \A variants \in layout(i.args[1], module.enums) :
            \E tag \in DOMAIN variants : i.n < Len(variants[tag])
     /\ \A i \in Of(function, {"struct"}) :
          i.name \in DOMAIN module.structs /\ types(i.args) = module.structs[i.name]
     /\ \A i \in Of(function, {"enum"}) :
          /\ i.name \in DOMAIN module.enums /\ i.n + 1 \in DOMAIN module.enums[i.name]
          /\ types(i.args) = module.enums[i.name][i.n + 1]
     /\ \A i \in Of(function, {"drop"}) : i.types[1] = TypeOf(function, i.args[1])

(* A borrow of a pointer is that pointer; of anything else, the address of its
   slot. *)
verify_borrow_reads(function) ==
  /\ \A i \in Of(function, {"load"}) :
       LET from == TypeOf(function, i.args[1]) IN
         from.k = "ref" /\ ~is_pointer_like(from.of[1]) /\ TypeOf(function, i.dst) = from.of[1]
  /\ \A i \in Of(function, {"fieldAddr", "enumFieldAddr"}) :
       LET to == TypeOf(function, i.dst) IN to.k = "ref" /\ ~is_pointer_like(to.of[1])

verify_volatile_accesses(function) ==
  \A i \in Of(function, {"volatileLoad", "volatileStore"}) :
    LET value == IF i.op = "volatileLoad" THEN i.dst ELSE i.args[2] IN
      /\ access_size(i.types[1])
      /\ TypeOf(function, i.args[1]) = Ptr(i.types[1])
      /\ TypeOf(function, value) = i.types[1]

-----------------------------------------------------------------------------
verify_instruction_shape(i) ==
  /\ i.op \in {"call", "builtin"} => Len(i.args) = Len(i.types) - 1
  /\ i.op = "callValue" => Len(i.args) = Len(i.types)
  /\ i.op = "binary" =>
       \/ i.types[1].k = "int"
       \/ i.types[1].k = "bool" /\ i.name \in {"equal", "notEqual"}

verify_block_operands(function, b) ==
  /\ \A i \in Range(function.blocks[b].code) :
       /\ Range(uses(i)) \cup ({defs(i)} \ {0}) \subseteq DOMAIN function.locals
       /\ verify_instruction_shape(i)
  /\ Range(function.blocks[b].end.uses) \subseteq DOMAIN function.locals

BlockTargets(function) ==
  /\ function.entry \in DOMAIN function.blocks
  /\ \A b \in DOMAIN function.blocks : Range(successors(function, b)) \subseteq DOMAIN function.blocks

(* check_initialization: what is defined where a block begins, over some path
   or over every path, and then what each block reads. *)
DefinedAt(function, everyPath) ==
  LET leaving(b, in) == in \cup {defs(i) : i \in Range(function.blocks[b].code)}
      merged(b, state) ==
        LET from == {p \in Range(Predecessors(function, b)) : state[p].seen}
            ins  == {leaving(p, state[p].in) : p \in from} \cup
                    (IF b = function.entry THEN {Range(function.params)} ELSE {})
        IN IF ins = {} THEN state[b]
           ELSE [seen |-> TRUE,
                 in |-> IF everyPath THEN {l \in UNION ins : \A in \in ins : l \in in} ELSE UNION ins]
  IN Settled(LAMBDA last : [b \in DOMAIN function.blocks |-> merged(b, last)],
             [b \in DOMAIN function.blocks |-> [seen |-> b = function.entry, in |-> Range(function.params)]],
             Len(function.blocks) * (Len(function.locals) + 1)).now

(* Mutant of check_initialization: what a block's end reads is not looked at. *)
MutantForgetsTheEnd(function, everyPath) ==
  LET at == DefinedAt(function, everyPath) IN
    \A b \in {x \in DOMAIN function.blocks : at[x].seen} :
      LET code == function.blocks[b].code IN
        \A k \in DOMAIN code : Range(uses(code[k])) \subseteq at[b].in \cup {defs(code[j]) : j \in 1 .. k - 1}

check_initialization(function, everyPath) ==
  LET at == DefinedAt(function, everyPath) IN
    \A b \in {x \in DOMAIN function.blocks : at[x].seen} :
      LET code == function.blocks[b].code
          before(k) == at[b].in \cup {defs(code[j]) : j \in 1 .. k - 1}
      IN /\ \A k \in DOMAIN code : Range(uses(code[k])) \subseteq before(k)
         /\ Range(function.blocks[b].end.uses) \subseteq before(Len(code) + 1)

(* A definition on some path is all that is asked. *)
verify_definedness(function) == check_initialization(function, FALSE)
verify_definite_initialization(function) == check_initialization(function, TRUE)

verify_function(function) ==
  /\ function.blocks # <<>>
  /\ function.entry = 1
  /\ \A k \in DOMAIN function.params : function.params[k] = k /\ k \in DOMAIN function.locals
  /\ BlockTargets(function)
  /\ \A b \in DOMAIN function.blocks : verify_block_operands(function, b)
  /\ verify_definedness(function)

(* Every function that is compiled. *)
Bodies(module) == {module.functions[f] : f \in DOMAIN module.functions \ module.externs}

check_block_targets(module) == \A function \in Bodies(module) : BlockTargets(function)

verify_module(module) ==
  \A function \in Bodies(module) :
    /\ verify_function(function)
    /\ verify_extern_calls(module, function)
    /\ verify_direct_calls(module, function)
    /\ verify_indirect_calls(function)
    /\ verify_returns(function)
    /\ verify_borrow_reads(function)
    /\ verify_field_stores(module, function)
    /\ verify_aggregate_access(module, function)
    /\ verify_volatile_accesses(function)
=============================================================================
