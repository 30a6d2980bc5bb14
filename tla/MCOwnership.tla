----------------------------- MODULE MCOwnership -----------------------------
(***************************************************************************)
(* Bodies for Ownership: a value in "x", a few statements, and a form       *)
(* around or between them.                                                  *)
(***************************************************************************)
EXTENDS Ownership

MCDo(op, n)   == Token(op, None, n)
MCLet(n)      == Token("let", n, Fresh)
MCHead(op)    == Token(op, None, None)
MCEnd         == MCHead("end")
MCSkip        == Token("try", None, None)
MCGive        == Token("let", "y", "x")
MCSet         == Token("set", "x", Fresh)
MCChange      == Token("change", "x", "x")

(* A statement, or none. *)
MCMaybe(tokens) == {<<>>} \cup {<<t>> : t \in tokens}

MCUses == {MCDo("show", "x"), MCDo("eat", "x"), MCSet, MCChange, MCGive}
MCExits == {MCDo("return", "x"), MCDo("return", None), MCSkip}
MCJumps == {MCHead("break"), MCHead("continue")}

MCIf(a, b) == <<MCHead("if")>> \o a \o <<MCHead("else")>> \o b \o <<MCEnd>>
MCIn(head, a) == <<MCHead(head)>> \o a \o <<MCEnd>>

(* Two branches, each of which may leave, and what comes before and after. *)
MCBranches ==
  {<<MCLet("x")>> \o before \o MCIf(a \o c, b) \o after :
     before \in MCMaybe({MCGive, MCDo("eat", "x")}),
     a \in MCMaybe(MCUses), c \in MCMaybe(MCExits), b \in MCMaybe(MCUses \cup MCExits),
     after \in MCMaybe(MCUses)}

(* A loop, with its own value or not, left in the middle or not. *)
MCLoops ==
  {<<MCLet("x")>> \o MCIn(head, own \o a \o MCIf(b \o <<exit>>, c) \o d) \o after :
     head \in {"loop", "while"}, own \in {<<>>, <<MCLet("x")>>},
     a \in MCMaybe({MCDo("show", "x"), MCDo("eat", "x"), MCDo("defer", "x")}),
     b \in MCMaybe({MCDo("eat", "x"), MCGive}), exit \in MCJumps \cup MCExits,
     c \in MCMaybe({MCDo("eat", "x"), MCChange}), d \in MCMaybe({MCDo("show", "x")}),
     after \in MCMaybe({MCDo("eat", "x"), MCDo("return", "x")})}

(* A loop that moves what it found and assigns it again, and ends by its condition. *)
MCAgain ==
  {<<MCLet("x")>> \o MCIn("while", a \o b \o c) \o after :
     a \in {<<t>> : t \in MCUses}, b \in MCMaybe(MCUses \cup {MCSkip}), c \in MCMaybe({MCSet}),
     after \in MCMaybe(MCUses)}

(* Borrows that are bound, copied, and outlived. *)
MCLends == {Token("ref", "r", "x"), Token("let", "q", "r"), Token("let", "r", "q"),
            MCDo("show", "r"), MCDo("show", "q"), MCDo("eat", "x"), MCDo("grow", "x"), MCSet}
MCBorrows ==
  {<<MCLet("x"), Token("ref", "r", "x"), a, b, c, d>> :
     a \in MCLends, b \in MCLends, c \in MCLends, d \in MCLends}

(* What is deferred in a scope that ends in one way or another. *)
MCDeferred ==
  {<<MCLet("x")>> \o MCIn(head, own \o <<MCDo("defer", "x")>> \o a \o b \o c) \o after :
     head \in {"do", "loop"}, own \in {<<>>, <<MCLet("x")>>},
     a \in MCMaybe({MCDo("eat", "x"), MCDo("show", "x"), MCSet, MCDo("grow", "x"),
                    MCDo("defer", "x"), MCSkip}),
     b \in {<<>>} \cup {MCIf(e, <<>>) : e \in {<<t>> : t \in MCExits \cup {MCHead("break")}}},
     c \in MCMaybe({MCDo("return", None)}),
     after \in MCMaybe({MCDo("eat", "x")})}

(* Values of an enum with something in it or nothing, of a structure, and of one
   in the other. *)
MCLeaf(k)   == Node(0, <<>>, k)
MCOption    == {<<Node(1, <<2>>, 2), MCLeaf(2)>>, <<Node(2, <<>>, 1)>>}
MCPair      == {<<Node(1, <<2, 3>>, 3), MCLeaf(2), MCLeaf(3)>>}
MCSomePair  == {<<Node(1, <<2>>, 4), Node(1, <<3, 4>>, 4), MCLeaf(3), MCLeaf(4)>>, <<Node(2, <<>>, 1)>>}
MCPairSome  == {<<Node(1, <<2, 4>>, 4), Node(1, <<3>>, 3), MCLeaf(3), MCLeaf(4)>>,
                <<Node(1, <<2, 3>>, 3), Node(2, <<>>, 2), MCLeaf(3)>>}

MCWild(up, i)    == Row("wild", "", 0, up, i)
MCName(n, up, i) == Row("bind", n, 0, up, i)
MCSome(up, i)    == Row("enum", "", 1, up, i)
MCNone           == <<Row("enum", "", 2, 0, 0)>>
MCStruct(up, i)  == Row("struct", "", 1, up, i)
MCAny            == <<MCWild(0, 0)>>

MCArm(pattern, when, code) == <<Token("arm", pattern, when)>> \o code
MCMatch(op, variants, arms) == <<Token(op, variants, "x")>> \o arms \o <<MCEnd>>

(* What an arm does with what it named, with what is outside and with what was
   matched, and how it leaves. *)
MCTakes == {MCDo("eat", "a"), MCDo("show", "a"), Token("let", "x", "a"), MCDo("defer", "a")}
MCAround == {MCDo("eat", "y"), MCDo("show", "x"), MCDo("eat", "x"), Token("set", "y", Fresh)}

(* A value taken apart, or looked into, by one arm or the next, with a guard or
   without. *)
MCOptions ==
  {<<MCLet("y"), Make("x", MCOption)>>
    \o MCMatch(op, 2, MCArm(<<MCSome(0, 0), MCName("a", 1, 1)>>, when, a \o b) \o rest) \o after :
     op \in Matches, when \in {None, "a", "y"},
     a \in MCMaybe(MCTakes), b \in MCMaybe(MCAround \cup {MCDo("return", None), MCSkip}),
     rest \in {MCArm(<<MCSome(0, 0), MCWild(1, 1)>>, None, c) \o MCArm(MCNone, None, d) :
                 c \in MCMaybe({MCDo("eat", "y")}), d \in MCMaybe({MCDo("eat", "y"), MCDo("return", "y")})}
              \cup {MCArm(MCAny, None, c) : c \in MCMaybe({MCDo("eat", "y")})}
              \cup {MCArm(MCNone, None, <<MCDo("eat", "y")>>)},
     after \in MCMaybe({MCDo("eat", "y"), MCDo("eat", "x")})}

(* Patterns in patterns: what has no name goes where its block goes. *)
MCSomeOf(i, j)  == <<MCSome(0, 0), MCStruct(1, 1), i, j>>
MCPairOf(i, j)  == <<MCStruct(0, 0), MCSome(1, 1), i, j>>
MCNested ==
  LET ends == MCMaybe({MCDo("eat", "y"), MCDo("return", None), MCSkip}) IN
  {<<MCLet("y"), Make("x", MCSomePair)>>
    \o MCMatch(op, 2, MCArm(MCSomeOf(MCName("a", 2, 1), j), None, a \o b)
                      \o MCArm(rest, when, c)) \o after :
     op \in Matches, j \in {MCWild(2, 2), MCName("b", 2, 2)}, a \in MCMaybe({MCDo("eat", "a"), MCDo("show", "a")}),
     b \in ends, rest \in {MCNone, MCAny, <<MCName("z", 0, 0)>>}, when \in {None, "y"},
     c \in ends, after \in MCMaybe({MCDo("eat", "x"), MCDo("eat", "y")})}
  \cup
  {<<MCLet("y"), Make("x", MCPairSome)>>
    \o MCMatch(op, 0, MCArm(MCPairOf(MCName("a", 2, 1), j), when, a \o b)
                      \o MCArm(<<MCStruct(0, 0), MCName("c", 1, 1), i>>, None, c)) \o after :
     op \in Matches, j \in {MCWild(1, 2), MCName("b", 1, 2)}, i \in {MCWild(1, 2), MCName("b", 1, 2)},
     a \in MCMaybe({MCDo("eat", "a"), MCDo("show", "a")}), when \in {None, "a", "b"}, b \in ends,
     c \in MCMaybe({MCDo("eat", "c"), MCDo("eat", "y")}), after \in MCMaybe({MCDo("eat", "x")})}

(* A bound borrow looked through, and borrows of what is in it. *)
MCLooked ==
  LET uses == {MCDo("show", "a"), Token("let", "q", "a"), MCDo("show", "q"), MCDo("eat", "x"), MCDo("grow", "x"),
               MCDo("show", "r")}
  IN {<<Make("x", MCOption), Token("ref", "r", "x"), Token("match", 2, "r")>>
       \o MCArm(<<MCSome(0, 0), MCName("a", 1, 1)>>, when, a \o b \o c) \o MCArm(MCAny, None, <<>>)
       \o <<MCEnd>> \o after :
        when \in {None, "a", "r"}, a \in MCMaybe(uses), b \in MCMaybe(uses), c \in MCMaybe(uses),
        after \in MCMaybe({MCDo("eat", "x"), MCDo("grow", "x")})}

(* Taken apart again and again, and left in the middle. *)
MCTurns ==
  {<<MCLet("y")>> \o MCIn(head, <<Make("x", MCOption)>> \o before
     \o MCMatch(op, 2, MCArm(<<MCSome(0, 0), MCName("a", 1, 1)>>, None, a \o b)
                       \o MCArm(MCNone, None, c)) \o after) :
     head \in {"loop", "while"}, before \in MCMaybe({MCDo("defer", "y")}), op \in Matches,
     a \in MCMaybe({MCDo("eat", "a"), MCDo("eat", "y")}),
     b \in MCMaybe(MCJumps \cup {MCDo("return", None)}), c \in MCMaybe(MCJumps \cup {MCDo("eat", "y")}),
     after \in MCMaybe({MCDo("eat", "y"), MCDo("show", "y")})}

MCAll == {MCBranches, MCLoops, MCAgain, MCBorrows, MCDeferred, MCOptions, MCNested, MCLooked, MCTurns}

(* A loop that is left after a move and before the assignment that undoes it. *)
MCLeftBetween ==
  {{<<MCLet("x")>> \o MCIn("loop", <<MCDo("eat", "x")>> \o MCIf(<<MCHead("break")>>, <<>>) \o <<MCSet>>)}}

(* What a `defer` reads through a borrow is given away below it. *)
MCDeferredBorrow ==
  {{<<MCLet("x"), Token("ref", "r", "x"), MCDo("defer", "r"), MCDo("eat", "x")>>}}
=============================================================================
