------------------------------- MODULE MCBackEnd -------------------------------
(***************************************************************************)
(* Programs for the back end.  Every first function takes nothing, returns   *)
(* nothing and keeps a unit in its local 1; C's functions are the second,    *)
(* which is told a word, and the third, which gives one.                     *)
(***************************************************************************)
EXTENDS BackEnd

Unsigned == Integer(WordBits, FALSE)
Narrow   == Integer(2, TRUE)
Byte     == Integer(2, FALSE)
None     == [s \in {} |-> <<>>]

Function(params, result, locals, blocks) ==
  MirFunction("", FALSE, [k \in 1 .. params |-> k], result, locals, blocks)
(* What C defines has the types of its arguments, and no body. *)
CFunction(types, result) == Function(Len(types), result, types, <<>>)
Program(main, more, externs, structs, enums, answers) ==
  [module |-> MirModule(<<Function(0, Unit, <<Unit>> \o main.locals, main.blocks),
                          CFunction(<<Word>>, Unit), CFunction(<<>>, Word)>> \o more,
                        {2, 3} \cup externs, structs, enums),
   answers |-> answers, illegal |-> FALSE]
Main(locals, blocks) == [locals |-> locals, blocks |-> blocks]

tell(l) == Call(1, 2, <<l>>, <<Word, Unit>>)
ask(d)  == Call(d, 3, <<>>, <<Word>>)
Done(code) == BasicBlock(code, Return(<<>>))

-----------------------------------------------------------------------------
(* Arithmetic: pairs of numbers, which C gives or which are constants, and what
   an operation makes of each; in registers or with the address of an operand
   taken, into a local of its own, or over an operand, or into one nobody reads. *)

Calculation(op, ty, how, pairs) ==
  LET rt == IF op \in compares THEN Bool ELSE ty
      to == IF how = "over" /\ op \notin compares THEN 2 ELSE IF how = "over the right" /\ op \notin compares THEN 3 ELSE 4
      given(d, n) == IF how = "constants" THEN ConstInt(d, Number(canonicalize(n, ty), ty)) ELSE Call(d, 5, <<>>, <<ty>>)
      pin == IF how = "borrowed" THEN <<AddressOf(5, 2)>> ELSE <<>>
  IN Program(Main(<<ty, ty, rt, Ref(ty, "")>>,
               <<Done(Each(pairs, LAMBDA k : <<given(2, pairs[k][1]), given(3, pairs[k][2])>> \o pin
                                             \o <<Binary(to, op, 2, 3, ty)>>
                                             \o (IF how = "unused" THEN <<>> ELSE <<Call(1, 4, <<to>>, <<rt, Unit>>)>>)))>>),
             <<CFunction(<<rt>>, Unit), CFunction(<<>>, ty)>>, {4, 5}, None, None,
             [k \in 1 .. 2 * Len(pairs) |-> pairs[(k + 1) \div 2][2 - (k % 2)]])

Operators == {"add", "sub", "mul", "div", "rem", "and", "or", "xor", "shl", "shr"} \cup compares
Edges(ty) == IF ty.bits = WordBits THEN <<1, 7, 8, 15>> ELSE <<0, 1, 2, 3>>
Pairs(ty) == [k \in 1 .. 16 |-> <<Edges(ty)[1 + ((k - 1) \div 4)], Edges(ty)[1 + ((k - 1) % 4)]>>]
Stops(op, ty, p) == Operation(op, canonicalize(p[1], ty), canonicalize(p[2], ty), ty) = -1

(* The pairs an operation has an answer for, a few to a program, and the ones it
   stops at, each after one that it does not. *)
Calculations(op, ty, how) ==
  LET good == SelectSeq(Pairs(ty), LAMBDA p : ~Stops(op, ty, p))
      bad  == {p \in Range(Pairs(ty)) : Stops(op, ty, p)}
      some(k) == SubSeq(good, 4 * k + 1, IF 4 * k + 4 > Len(good) THEN Len(good) ELSE 4 * k + 4)
  IN {Calculation(op, ty, how, some(k)) : k \in 0 .. (Len(good) - 1) \div 4}
     \cup {Calculation(op, ty, how, <<good[1], p>>) : p \in bad}

Calculated(types, hows) ==
  UNION UNION {{Calculations(op, ty, how) : op \in Operators, how \in hows} : ty \in types}

-----------------------------------------------------------------------------
(* Control: a loop, a choice, and blocks that only lead on. *)

Given(d, how, n) == IF how = "asked" THEN ask(d) ELSE ConstInt(d, n)

Loop(how, n) ==
  Program(Main(<<Word, Word, Word, Bool, Word>>,
            <<BasicBlock(<<ConstInt(2, 0), Given(3, how, n), ConstInt(4, 1), ConstInt(6, 0)>>, Goto(2)),
              BasicBlock(<<Binary(5, "less", 2, 3, Word)>>, Branch(5, 3, 4)),
              BasicBlock(<<Binary(6, "add", 6, 2, Word), Assign(2, 2), Binary(2, "add", 2, 4, Word)>>, Goto(2)),
              Done(<<tell(6)>>)>>),
          <<>>, {}, None, None, <<n>>)

(* `empty` blocks do nothing but lead on, in a circle if nobody comes there. *)
Choice(how, n, a, b, circle) ==
  Program(Main(<<Word, Word, Bool, Word>>,
            <<BasicBlock(<<Given(2, how, n), ConstInt(3, 1), Binary(4, "equal", 2, 3, Word)>>, Branch(4, 2, 3)),
              BasicBlock(<<ConstInt(5, a)>>, Goto(4)),
              BasicBlock(<<ConstInt(5, b)>>, Goto(5)),
              BasicBlock(<<tell(5)>>, Goto(6)),
              BasicBlock(<<>>, Goto(4)),
              BasicBlock(<<>>, IF circle THEN Branch(4, 7, 8) ELSE Goto(8)),
              BasicBlock(<<>>, Goto(6)),
              Done(<<Binary(5, "add", 5, 3, Word), tell(5)>>)>>),
          <<>>, {}, None, None, <<n>>)

(* Two quotients, one after the other. *)
Dividing(a, b) ==
  Program(Main(<<Word, Word, Word, Word>>,
            <<Done(<<ask(2), ask(3), Binary(4, "div", 2, 3, Word), Binary(5, "div", 4, 3, Word), tell(4), tell(5)>>)>>),
          <<>>, {}, None, None, <<a, b>>)

(* A condition that is the same whichever way, and one that is not. *)
Controls ==
  {Dividing(a, b) : a \in {6, 8, 9}, b \in {0, 3, 15}} \cup
  {Loop(how, n) : how \in {"asked", "constants"}, n \in {0, 1, 3, 5}}
  \cup {Choice(how, n, a, b, FALSE) : how \in {"asked", "constants"}, n \in 0 .. 1, a \in {3, 4}, b \in {3, 7}}
  \cup {Choice(how, 0, 3, 4, TRUE) : how \in {"asked", "constants"}}

-----------------------------------------------------------------------------
(* Calls: small functions, called from several places, that call one another,
   that are called again by themselves; with more arguments than there are
   registers; with narrow ones. *)

(* The word a body adds to its argument: functions 4, 5, ... *)
Adds(n) == Function(1, Word, <<Word, Word, Word>>,
             <<BasicBlock(<<ConstInt(2, n), Binary(3, "add", 1, 2, Word)>>, Return(<<3>>))>>)
(* It changes its own argument, calls others, and has two blocks. *)
Passing(g, h) == Function(1, Word, <<Word, Word, Word, Bool>>,
             <<BasicBlock(<<Call(2, g, <<1>>, <<Word, Word>>), Assign(1, 2), Call(3, h, <<1>>, <<Word, Word>>)>>, Return(<<3>>))>>)
Choosing(n) == Function(1, Word, <<Word, Word, Bool>>,
             <<BasicBlock(<<ConstInt(2, n), Binary(3, "less", 1, 2, Word)>>, Branch(3, 2, 3)),
               BasicBlock(<<>>, Return(<<2>>)), BasicBlock(<<>>, Return(<<1>>))>>)
Counting(f) == Function(1, Word, <<Word, Word, Bool, Word, Word>>,
             <<BasicBlock(<<ConstInt(2, 1), Binary(3, "less", 1, 2, Word)>>, Branch(3, 2, 3)),
               BasicBlock(<<>>, Return(<<1>>)),
               BasicBlock(<<Binary(4, "sub", 1, 2, Word), Call(5, f, <<4>>, <<Word, Word>>), Binary(5, "add", 5, 2, Word)>>,
                          Return(<<5>>))>>)
Telling == Function(1, Unit, <<Word, Unit>>, <<BasicBlock(<<Call(2, 2, <<1>>, <<Word, Unit>>)>>, Return(<<>>))>>)

Calling(more, twice) ==
  LET called(d, a) == Call(d, 4, <<a>>, <<Word, more[1].result>>)
  IN Program(Main(<<Word, more[1].result, more[1].result>>,
               <<Done(<<ask(2), called(3, 2)>> \o (IF twice THEN <<called(4, 2)>> ELSE <<>>)
                      \o (IF more[1].result = Unit THEN <<>> ELSE <<tell(3)>>) \o <<tell(2)>>)>>),
             more, {}, None, None, <<IF twice THEN 1 ELSE 2>>)

Hinted(function, owner) == [function EXCEPT !.hint = TRUE, !.owner = owner]

(* A call with many words, narrow ones among them. *)
Wide(n, ty, foreign) ==
  LET rest == [k \in 1 .. n |-> IF k % 3 = 0 THEN ty ELSE Word]
      told(k) == <<Assign(n + 1, k), Call(n + 2, 2, <<n + 1>>, <<Word, Unit>>)>>
      callee == IF foreign THEN CFunction(rest, Unit)
                ELSE Function(n, Unit, rest \o <<Word, Unit>>,
                              <<BasicBlock(Each(rest, LAMBDA k : IF rest[k] = Word THEN told(k) ELSE
                                                  <<Call(n + 2, 5, <<k>>, <<ty, Unit>>)>>), Return(<<>>))>>)
  IN Program(Main(rest, <<Done([k \in 1 .. n |-> ConstInt(k + 1, IF rest[k] = Word THEN k % 8 ELSE 1)]
                               \o <<Call(1, 4, [k \in 1 .. n |-> k + 1], rest \o <<Unit>>)>>)>>),
             <<callee, CFunction(<<ty>>, Unit)>>, {5} \cup (IF foreign THEN {4} ELSE {}), None, None, <<0>>)

(* C says yes or no, in a word of which the rest is anything. *)
Answered(n) ==
  Program(Main(<<Bool, Word>>,
            <<BasicBlock(<<Call(2, 4, <<>>, <<Bool>>), Call(1, 5, <<2>>, <<Bool, Unit>>)>>, Branch(2, 2, 3)),
              Done(<<ConstInt(3, 1), tell(3)>>), Done(<<ConstInt(3, 2), tell(3)>>)>>),
          <<CFunction(<<>>, Bool), CFunction(<<Bool>>, Unit)>>, {4, 5}, None, None, <<n>>)

Calls ==
  {Answered(n) : n \in {0, 1, 4, 13}} \cup
  {Calling(more, twice) : twice \in BOOLEAN,
     more \in {<<Adds(1)>>, <<Adds(6)>>, <<Choosing(1)>>, <<Choosing(5)>>, <<Counting(4)>>, <<Counting(5), Counting(4)>>,
               <<Passing(5, 5), Adds(1)>>, <<Passing(5, 6), Adds(2), Choosing(5)>>, <<Counting(5), Passing(6, 6), Adds(1)>>,
               <<Hinted(Choosing(5), "")>>, <<Hinted(Adds(1), "other")>>, <<Hinted(Passing(5, 6), ""), Hinted(Adds(1), ""), Counting(6)>>,
               <<Telling>>, <<Passing(5, 6), Hinted(Passing(6, 6), ""), Hinted(Choosing(3), "")>>}}
  \cup {Wide(n, ty, foreign) : n \in {5, 6, 7, 8, 9, 10}, ty \in {Word, Narrow}, foreign \in BOOLEAN}

-----------------------------------------------------------------------------
(* Closures: blocks of a code word, two helpers and the captures. *)

Arrow == Fn(<<Word, Word>>)
Header == <<Word, Word, Word>>
Closed == [s \in {"bare", "word", "text"} |->
             Header \o CASE s = "bare" -> <<>> [] s = "word" -> <<Word>> [] s = "text" -> <<Text>>]

(* A body that adds what it captured, or does not look at its block. *)
Body(s) ==
  IF s = "bare" THEN Function(2, Word, <<Word, Word, Word, Word>>,
                      <<BasicBlock(<<ConstInt(3, 2), Binary(4, "add", 1, 3, Word)>>, Return(<<4>>))>>)
  ELSE IF s = "word" THEN Function(2, Word, <<Word, Word, Word, Word>>,
                      <<BasicBlock(<<FieldLoad(3, 2, 3), Binary(4, "add", 1, 3, Word)>>, Return(<<4>>))>>)
  ELSE Function(2, Word, <<Word, Word, Text, Word>>,
                <<BasicBlock(<<FieldLoad(3, 2, 3), Assign(4, 1)>>, Return(<<4>>))>>)

(* Locals a + 1 .. a + 3 take the header; the block is in b. *)
Closure(b, f, s, a, captures) ==
  <<FnAddr(a + 1, f), HelperAddr(a + 2, 1, s), HelperAddr(a + 3, 2, s),
    StructNew(b, s, <<a + 1, a + 2, a + 3>> \o captures)>>
Through(d, c, b, x) == <<FieldLoad(c, b, 0), CallValue(d, c, <<x, b>>, <<Word, Arrow, Word>>)>>

(* 2 the argument, 3 the capture, 4 the block, 5 a copy of it, 6 .. 8 and
   9 .. 11 headers, 12 the code word, 13 the answer, 14 and 15 other blocks. *)
ClosureLocals(s) ==
  <<Word, IF s = "text" THEN Text ELSE Word, Arrow, Arrow>> \o Header \o Header \o <<Word, Word, Arrow, Arrow>>
Capturing(s) == IF s = "bare" THEN <<>> ELSE IF s = "word" THEN <<ConstInt(3, 3)>> ELSE <<StringNew(3, 5)>>
Captured(s) == IF s = "bare" THEN <<>> ELSE <<3>>

(* A named function is a function value too, that takes no block. *)
Closing(code, s, more) ==
  Program(Main(ClosureLocals(s), <<Done(<<ask(2)>> \o Capturing(s) \o code)>>),
          <<Body(s)>> \o more, {}, Closed, None, <<2>>)
Applying == Function(2, Word, <<Word, Arrow, Word, Word>>,
              <<BasicBlock(<<FieldLoad(3, 2, 0), CallValue(4, 3, <<1, 2>>, <<Word, Arrow, Word>>)>>, Return(<<4>>))>>)

Closures ==
  UNION {{Closing(Closure(4, 4, s, 5, Captured(s)) \o Through(13, 12, 4, 2) \o <<tell(13), Drop(4, Arrow)>>, s, <<>>),
          Closing(Closure(4, 4, s, 5, Captured(s)) \o <<Assign(5, 4)>> \o Through(13, 12, 5, 2)
                    \o <<tell(13)>> \o Through(13, 12, 5, 13) \o <<tell(13), Drop(5, Arrow)>>, s, <<>>),
          Closing(Closure(4, 4, s, 5, Captured(s)) \o <<Builtin(5, "clone", <<4>>, <<Ref(Arrow, ""), Arrow>>), Drop(4, Arrow)>>
                    \o Through(13, 12, 5, 2) \o <<tell(13), Drop(5, Arrow)>>, s, <<>>),
          Closing(Closure(4, 4, s, 5, Captured(s)) \o <<Call(13, 5, <<2, 4>>, <<Word, Arrow, Word>>), tell(13), Drop(4, Arrow)>>,
                  s, <<Applying>>),
          Closing(Closure(4, 4, s, 5, Captured(s)) \o <<tell(2), Drop(4, Arrow)>>, s, <<>>),
          Closing(Closure(4, 5, "bare", 5, <<>>) \o Through(13, 12, 4, 2) \o <<tell(13), Drop(4, Arrow)>>, "bare", <<Adds(1)>>)}
         : s \in {"bare", "word", "text"}}
  \* Another block is put where the first was.
  \cup {Closing(Closure(4, 4, "bare", 5, <<>>) \o <<Assign(5, 4)>> \o Through(13, 12, 5, 2) \o <<tell(13)>>
                  \o Closure(14, 5, "bare", 8, <<>>) \o <<Drop(5, Arrow), Assign(5, 14)>>
                  \o Through(13, 12, 5, 2) \o <<tell(13), Drop(5, Arrow)>>, "bare", <<Adds(1)>>)}

-----------------------------------------------------------------------------
(* Devices: accesses of several widths, ones whose value nobody uses, and ones
   in a branch that is never taken. *)

Device(ty, used, how, answers) ==
  Program(Main(<<Ptr(ty), ty, Word, Word, Bool>>,
            <<BasicBlock(<<Call(2, 4, <<>>, <<Ptr(ty)>>), VolatileLoad(3, 2, ty)>>
                         \o (IF used THEN <<Call(1, 5, <<3>>, <<ty, Unit>>)>> ELSE <<>>)
                         \o <<VolatileStore(2, 3, ty), Given(4, how, 0), ConstInt(5, 1), Binary(6, "equal", 4, 5, Word)>>,
                         Branch(6, 2, 3)),
              BasicBlock(<<VolatileLoad(3, 2, ty), VolatileStore(2, 3, ty)>>, Goto(3)),
              Done(<<VolatileLoad(3, 2, ty)>>)>>),
          <<CFunction(<<>>, Ptr(ty)), CFunction(<<ty>>, Unit)>>, {4, 5}, None, None, answers)
Devices ==
  UNION {{Device(ty, used, how, answers) : used \in BOOLEAN, how \in {"asked", "constants"},
            answers \in {<<4, 15>>, <<4, 4, 6, 1>>, <<4, 12, 2, 1>>, <<4, 1, 1>>}} : ty \in {Word, Unsigned, Narrow, Byte, Bool}}

-----------------------------------------------------------------------------
(* Structures, enums and lists, borrowed, copied, taken apart and let go. *)

Layouts == [s \in {"pair", "outer"} |-> IF s = "pair" THEN <<Word, Text>> ELSE <<Named("pair"), Named("option"), List(Word)>>]
Variants_ == [s \in {"option", "shape", "flag"} |->
                CASE s = "option" -> <<<<>>, <<Word>>>>
                  [] s = "shape"  -> <<<<Text>>, <<>>, <<Word, Text>>>>
                  [] s = "flag"   -> <<<<>>, <<>>>>]
Holding(locals, code, answers) ==
  Program(Main(locals, <<Done(code)>>), <<>>, {}, Layouts, Variants_, answers)
Same(d, a, ty) == Builtin(d, "clone", <<a>>, <<Ref(ty, ""), ty>>)

Pair == Named("pair")
Paired == <<ask(2), StringNew(3, 5), StructNew(4, "pair", <<2, 3>>)>>
(* It lets go of its first argument, and does nothing else. *)
LettingGo == Function(2, Word, <<Pair, Word>>, <<BasicBlock(<<Drop(1, Pair)>>, Return(<<2>>))>>)
Structures ==
  LET locals == <<Word, Text, Pair, Pair, Ref(Word, ""), Word, Ref(Pair, "mut"), Text>> IN
  {Holding(locals, Paired \o code \o <<Drop(4, Pair)>>, <<3>>) : code \in
     {<<FieldLoad(7, 4, 0), tell(7)>>,
      <<FieldAddr(6, 4, 0), Load(7, 6), tell(7)>>,
      <<AddressOf(8, 4), ask(7), FieldStore(8, 0, 7), FieldLoad(2, 4, 0), tell(2)>>,
      <<Same(5, 4, Pair), FieldLoad(7, 5, 0), tell(7), Drop(5, Pair)>>,
      <<Same(5, 4, Pair), Drop(4, Pair), Assign(4, 5)>>,
      <<FieldLoad(9, 4, 1), StringNew(3, 6), FieldStore(4, 1, 3), Drop(9, Text)>>}}
  \cup {Program(Main(locals, <<Done(Paired \o <<Call(7, 4, <<4, 2>>, <<Pair, Word, Word>>), tell(7)>>)>>), <<LettingGo>>, {},
                 Layouts, Variants_, <<3>>)}
  \cup {Holding(locals, Paired \o <<FieldLoad(9, 4, 1), FieldLoad(7, 4, 0), Free(4), tell(7), Drop(9, Text)>>, <<3>>)}

Shape == Named("shape")
Made(tag) == CASE tag = 0 -> <<StringNew(3, 5), EnumNew(4, "shape", 0, <<3>>)>>
               [] tag = 1 -> <<EnumNew(4, "shape", 1, <<>>)>>
               [] tag = 2 -> <<ask(2), StringNew(3, 6), EnumNew(4, "shape", 2, <<2, 3>>)>>
Matched(end) ==
  <<BasicBlock(<<EnumTag(6, 4), ConstInt(7, 2), Binary(8, "equal", 6, 7, Word)>>, Branch(8, 3, 4)),
    BasicBlock(<<EnumFieldLoad(9, 4, 0), tell(9), EnumFieldAddr(10, 4, 0), Load(9, 10), tell(9), EnumFieldStore(4, 0, 6)>>, Goto(4)),
    Done(<<tell(6)>> \o end)>>
Enums ==
  {Program(Main(<<Word, Text, Shape, Shape, Word, Word, Bool, Word, Ref(Word, "")>>,
             <<BasicBlock(Made(tag) \o copy, Goto(2))>> \o Matched(IF copy = <<>> THEN <<Drop(4, Shape)>> ELSE <<Drop(5, Shape), Drop(4, Shape)>>)),
           <<>>, {}, Layouts, Variants_, <<3>>) : tag \in 0 .. 2, copy \in {<<>>, <<Same(5, 4, Shape)>>}}
  \cup {Holding(<<Named("flag"), Named("flag"), Word>>,
                <<ConstInt(2, 1), Assign(3, 2), Assign(4, 3), tell(4), Drop(3, Named("flag"))>>, <<0>>)}

Option == Named("option")
Listed(ty, n) == <<IF ty = Text THEN StringNew(2, 5) ELSE ask(2), IF ty = Text THEN StringNew(3, 6) ELSE ask(3),
                   Builtin(4, "list", SubSeq(<<2, 3>>, 1, n), SubSeq(<<ty, ty>>, 1, n) \o <<List(ty)>>)>>
Lists ==
  LET of(ty) == Ref(List(ty), "mut")
      locals(ty) == <<ty, ty, List(ty), List(ty), Word, Option, ty, Ref(ty, ""), Word>>
      index(k) == <<ConstInt(6, k)>>
      length == <<Builtin(10, "len", <<4>>, <<Ref(List(Word), ""), Word>>), tell(10)>>
      got(k) == index(k) \o <<Builtin(8, "get", <<4, 6>>, <<Ref(List(Word), ""), Word, Word>>), tell(8)>>
      taken == <<Builtin(7, "pop", <<4>>, <<of(Word), Option>>), EnumTag(6, 7), tell(6), Drop(7, Option)>>
  IN {Holding(locals(Word), Listed(Word, n) \o code \o length \o <<Drop(4, List(Word))>>, <<3, 9>>) : n \in 0 .. 2, code \in
        {<<Builtin(1, "push", <<4, 3>>, <<of(Word), Word, Unit>>)>> \o got(0),
         got(1),
         index(1) \o <<Builtin(9, "get-ref", <<4, 6>>, <<Ref(List(Word), ""), Word, Ref(Word, "")>>), Load(8, 9), tell(8)>>,
         taken, taken \o taken,
         index(0) \o <<Builtin(8, "remove", <<4, 6>>, <<of(Word), Word, Word>>), tell(8)>>,
         index(1) \o <<Builtin(8, "replace", <<4, 6, 2>>, <<of(Word), Word, Word, Word>>), tell(8)>> \o got(1)}}
     \cup {Holding(locals(Text), Listed(Text, 2) \o code \o <<Drop(4, List(Text))>>, <<3>>) : code \in
        {<<>>, <<Same(5, 4, List(Text)), Drop(5, List(Text))>>,
         index(0) \o <<Builtin(8, "remove", <<4, 6>>, <<of(Text), Word, Text>>), Drop(8, Text)>>}}

(* A structure of the others. *)
Nested ==
  LET locals == <<Word, Text, Pair, Option, List(Word), Named("outer"), Named("outer"), Pair>>
      built == Paired \o <<EnumNew(5, "option", 1, <<2>>), Builtin(6, "list", <<2, 2>>, <<Word, Word, List(Word)>>),
                           StructNew(7, "outer", <<4, 5, 6>>)>>
  IN {Holding(locals, built \o code \o <<Drop(7, Named("outer"))>>, <<3>>) : code \in
        {<<>>, <<Same(8, 7, Named("outer")), Drop(8, Named("outer"))>>, <<FieldLoad(9, 7, 0), FieldLoad(2, 9, 0), tell(2)>>}}

Holdings == Structures \cup Enums \cup Lists \cup Nested

-----------------------------------------------------------------------------
(* Modules that no lowering makes: a program of the above with an instruction
   missing, a field or a variant off by one, or a call short of an argument. *)

Mutilated(p) ==
  LET code == p.module.functions[1].blocks[1].code
      with(c) == [p EXCEPT !.module.functions[1].blocks[1].code = c, !.illegal = TRUE]
      next(k) == with([code EXCEPT ![k].n = @ + 1])
      short(k) == with([code EXCEPT ![k].args = Front(@)])
      of(ops) == {k \in DOMAIN code : code[k].op \in ops}
      named(l) == p.module.functions[1].locals[l].k = "named"
  IN {with(RemoveAt(code, k)) : k \in DOMAIN code \ of({"assign"})}
     \cup {next(k) : k \in {j \in of({"field", "fieldAddr", "fieldStore"}) : named(code[j].args[1])}}
     \cup {short(k) : k \in {j \in of({"call", "callValue"}) : code[j].args # <<>>}}

Legal == Calculated({Word, Unsigned, Narrow, Byte}, {"asked", "constants", "borrowed", "over", "over the right"})
         \cup Calculated({Word}, {"unused"})
         \cup Controls \cup Calls \cup Closures \cup Devices \cup Holdings
Illegal == UNION {Mutilated(p) : p \in Structures \cup Closures \cup {Calling(<<Adds(1)>>, TRUE), Choice("asked", 0, 3, 4, FALSE), Wide(7, Narrow, FALSE)}}
Everything == Legal \cup Illegal

(* A remainder, alone. *)
Remainders == Calculations("rem", Word, "asked")

(* A closure that is moved out of a local, which then gets another. *)
Reassigned ==
  {Closing(Closure(4, 4, "bare", 5, <<>>) \o <<Assign(5, 4), Assign(14, 5)>> \o Closure(15, 5, "bare", 8, <<>>)
           \o <<Assign(5, 15)>> \o Through(13, 12, 14, 2) \o <<tell(13), Drop(14, Arrow), Drop(5, Arrow)>>,
           "bare", <<[Body("bare") EXCEPT !.blocks[1].code[1].n = 4]>>)}
=============================================================================
