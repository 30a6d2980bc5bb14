----------------------------- MODULE MCRegAlloc -----------------------------
(***************************************************************************)
(* Functions for RegAlloc: loops and branches over a few locals, local 1    *)
(* and sometimes local 4 parameters.                                        *)
(***************************************************************************)
EXTENDS RegAlloc

MCSet(l)       == Instruction("plain", l, <<>>)
MCCopy(l, k)   == Instruction("plain", l, <<k>>)
MCAdd(l, j, k) == Instruction("binary", l, <<j, k>>)
MCCall(l, k)   == Instruction("call", l, <<k>>)
MCDrop(k)      == Instruction("drop", Nothing, <<k>>)

MCOf(params, blocks, pinned) == [params |-> params, pinned |-> pinned, blocks |-> blocks]
MCFunction(blocks, pinned) == MCOf({1}, blocks, pinned)

(* One register that a call destroys, and one that it does not. *)
MCVolatile == <<"r10">>
MCPreserved == <<"rbx">>

MCLocals == {1, 2, 3, 4}

(* A loop: what is read in its head may have been written in its body. *)
MCBody == {<<>>} \cup {<<MCSet(l)>> : l \in {2, 3}} \cup {<<MCCopy(2, 3)>>, <<MCAdd(3, 1, 2)>>}
MCOne == {MCSet(2), MCSet(4), MCCopy(3, 2), MCAdd(2, 3, 2), MCAdd(4, 2, 3), MCCall(3, 2), MCDrop(3)}

MCLoops ==
  {MCFunction(<<Block(<<MCSet(2), MCSet(3)>>, <<>>, <<2>>),
                Block(head, <<2>>, <<3, 4>>),
                Block(<<i, j>>, <<>>, <<2>>),
                Block(<<>>, <<l>>, <<>>)>>, pinned)
   : head \in MCBody, i \in MCOne, j \in MCOne, l \in {1, 3, 4}, pinned \in {{}, {3}}}

(* A branch whose arms meet again, numbered so that the walk reorders them. *)
MCBranches ==
  {MCFunction(<<Block(<<MCSet(2), MCSet(3)>>, <<1>>, <<4, 2>>),
                Block(<<i>>, <<>>, <<3>>),
                Block(<<j>>, <<l>>, <<>>),
                Block(<<MCSet(4), k>>, <<>>, <<3>>)>>, {})
   : i \in MCOne, j \in MCOne, k \in MCOne, l \in {1, 2, 3, 4}}

(* Two parameters that die at different places. *)
MCParameters ==
  {MCOf({1, 4}, <<Block(<<i, j>>, <<4>>, <<2, 3>>),
                  Block(<<MCCall(2, k)>>, <<l>>, <<3>>),
                  Block(<<MCCopy(3, k)>>, <<3>>, <<>>)>>, {})
   : i \in {MCSet(2), MCAdd(2, 4, 1)}, j \in {MCCopy(3, 4), MCDrop(1), MCAdd(2, 2, 4)},
     k \in {1, 2, 4}, l \in {1, 3}}

MCAll == MCLoops \cup MCBranches \cup MCParameters
=============================================================================
