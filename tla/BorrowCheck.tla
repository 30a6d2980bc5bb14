----------------------------- MODULE BorrowCheck -----------------------------
(***************************************************************************)
(* The ownership rules of sema.rs over one function body: what is moved,    *)
(* what is lent, and when a loan ends.                                      *)
(*                                                                          *)
(* A body is a sequence of tokens: statements, and the heads, the "else",   *)
(* the arms and the "end" of the forms that hold statements.  A binding is  *)
(* made by `let mut`, or by a pattern, and holds an owned value, or a       *)
(* shared borrow of one.                                                    *)
(*                                                                          *)
(* Borrowed(n) and the list of a scope's loans say the same twice: the      *)
(* count is the number of loans recorded.  Only the record is kept.  An     *)
(* exclusive borrow is never bound, so it ends with the call it is for.     *)
(***************************************************************************)
EXTENDS Integers, Sequences, FiniteSets, SequencesExt, FiniteSetsExt, TLC

CONSTANTS
  None,
  Fresh,       \* a new value, in the place of a name
  Bodies       \* families of function bodies to check; types agree in them, and
               \* no arm stands behind one that takes everything

VARIABLES
  text,        \* the body
  at,          \* the token that is next; a binding is known by the token it is made by
  env,         \* Environment
  refs,        \* the bindings of a borrow's type
  open,        \* the forms that are open, outermost first
  refused      \* a diagnostic was given

checkVars == <<text, at, env, refs, open, refused>>

(* "let" binds `to` to a new value, or to what `from` holds; "ref" to a borrow of
   it.  "show" passes a borrow of `from`, "grow" an exclusive one, "eat" the value,
   "return" answers it.  "set" assigns a new value, "change" one made of the old.
   "match" takes apart what `from` holds, "look" a borrow of it, of a type with `to`
   variants; each "arm" has a pattern, and perhaps a `when` that reads `from`. *)
Node(tag, fields, last) == [tag |-> tag, fields |-> fields, last |-> last]
Opaque == <<Node(0, <<>>, 1)>>
Token(op, to, from) == [op |-> op, to |-> to, from |-> from, made |-> {Opaque}]
(* A new structure or enum, of any of these shapes: its parts, what holds others
   before what it holds up to the `last` of them. *)
Make(to, shapes) == [op |-> "let", to |-> to, from |-> Fresh, made |-> shapes]
Consuming == {"eat", "change", "return", "match"}
Matches == {"match", "look"}

(* A pattern: its parts likewise, each the field `index` of the part `up`. *)
Row(k, name, tag, up, index) == [k |-> k, name |-> name, tag |-> tag, up |-> up, index |-> index]
Within(p, r) ==
  LET inside[i \in 0 .. Len(p)] == i = r \/ (i > r /\ inside[p[i].up])
  IN {i \in DOMAIN p : inside[i]}
(* pattern_irrefutable *)
Irrefutable(p, r) == \A i \in Within(p, r) : p[i].k # "enum"
Binds(p) == {r \in DOMAIN p : p[r].k = "bind"}

(* What the r-th part of the pattern of a token binds; 0 is for its `let`. *)
Wide == 16
Id(token, r) == Wide * token + r
Binding == Id(at, 0)
OfPattern(id) == id % Wide # 0

Here == text[at]
Is(op) == ~refused /\ at <= Len(text) /\ Here.op = op

-----------------------------------------------------------------------------
(* Environment *)

(* names: for every open scope, what its names mean.  loans: the borrows that are
   out, and the scope each is recorded in.  from, owns: what a bound borrow came
   from, and whether it answers for the loan. *)
NoNames == [n \in {} |-> 0]
push(e) == [e EXCEPT !.names = Append(@, NoNames)]

pop(e) ==
  [e EXCEPT !.names = Front(@),
            !.loans = SelectSeq(@, LAMBDA l : l.scope < Len(e.names))]

visible(e) == UNION {{d} \X DOMAIN e.names[d] : d \in DOMAIN e.names}
Known(e, n) == \E s \in visible(e) : s[2] = n
lookup_id(e, n) == e.names[Max({s[1] : s \in {v \in visible(e) : v[2] = n}})][n]

rebind(e, n, id, origin, owner) ==
  [e EXCEPT !.names[Len(e.names)] = (n :> id) @@ @,
            !.from = (id :> origin) @@ @,
            !.owns = IF owner THEN @ \cup {id} ELSE @]

Borrowed(e, id) == \E i \in DOMAIN e.loans : e.loans[i].of = id
Available(e, id) == id \notin e.moved /\ ~Borrowed(e, id)
add_loan(e, id) == [e EXCEPT !.loans = Append(@, [of |-> id, scope |-> Len(e.names)])]

(* The last loan of the innermost scope that has one. *)
discharge_loan(id, loans) ==
  LET last == {i \in DOMAIN loans : loans[i].of = id}
  IN IF last = {} THEN loans ELSE RemoveAt(loans, Max(last))

(* Bound borrows that no name still to come mentions hand their loan to one that
   is mentioned, or end it. *)
release_dead_references(e, live) ==
  LET ids    == {<<s[2], e.names[s[1]][s[2]]>> : s \in visible(e)}
      bound  == {p \in ids : e.from[p[2]] # None}
      dead   == {p[2] : p \in {q \in bound : q[1] \notin live}}
      heirs(id) == {p[2] : p \in {q \in bound : q[1] \in live /\ e.from[q[2]] = e.from[id]}}
      heir(id) == CHOOSE o \in heirs(id) : TRUE
      owners == dead \cap e.owns
      ending == {id \in owners : heirs(id) = {}}
  IN [e EXCEPT !.owns = (@ \ dead) \cup {heir(id) : id \in owners \ ending},
               !.from = [id \in DOMAIN @ |-> IF id \in dead THEN None ELSE @[id]],
               !.loans = FoldSet(LAMBDA id, loans : discharge_loan(e.from[id], loans), @, ending)]

-----------------------------------------------------------------------------
(* What is still to come in the innermost body *)

Heads == {"do", "if", "loop", "while"} \cup Matches
Depth(i) == Cardinality({j \in 1 .. i : text[j].op \in Heads})
            - Cardinality({j \in 1 .. i : text[j].op = "end"})

(* Token j ends the body that holds the statement which ends with token i. *)
Ends(j, i) == \/ text[j].op = "end" /\ Depth(j) < Depth(i)
              \/ text[j].op \in {"else", "arm"} /\ Depth(j) = Depth(i)
Rest(i) == {k \in i + 1 .. Len(text) : \A j \in i + 1 .. k : ~Ends(j, i)}

(* Mutant: what only looks at a value does not count. *)
MutantLooksAreDead(i) == {text[k].from : k \in {j \in Rest(i) : text[j].op \notin {"show", "arm"}}}

(* The names that are still to come, but for those in a `when`. *)
collect_variable_names(i) == {text[k].from : k \in {j \in Rest(i) : text[j].op # "arm"}}
                             \cup {text[k].to : k \in {j \in Rest(i) : text[j].op = "set"}}

-----------------------------------------------------------------------------
(* The rules *)

Named == lookup_id(env, Here.from)
Target == lookup_id(env, Here.to)
IsRef(id) == id \in refs

(* Mutant: a value that is lent may be moved. *)
MutantMoveLent(id) == id \notin env.moved

(* `variable`: neither moved nor lent.  A borrow is copied. *)
MayMove(id) == Available(env, id)

(* Mutant: a value that is lent may be written. *)
MutantAssignLent(id) == TRUE

(* `set`: not lent. *)
MayAssign(id) == ~Borrowed(env, id)

(* `borrow`: not moved, and an exclusive borrow is the only one. *)
MayBorrow(id, mutable) == id \notin env.moved /\ (mutable => ~Borrowed(env, id))

MovesValue(token) ==
  \/ token.op \in Consuming /\ token.from # None
  \/ token.op = "let" /\ token.from # Fresh

Top == Last(open)

(* type_pattern: the names of an arm, in the environment before the arms.  Through
   a borrow each is a borrow from where that came from. *)
ArmEnv ==
  FoldLeft(LAMBDA e, r : IF r \in Binds(Here.to) THEN rebind(e, Here.to[r].name, Id(at, r), Top.origin, FALSE) ELSE e,
           push(Top.base), [r \in DOMAIN Here.to |-> r])

(* The same pattern twice, unless it names something or takes everything. *)
Repeated(p, seen) ==
  ~Irrefutable(p, 1) /\ Binds(p) = {} /\ \E k \in Range(seen) : text[k].from = None /\ text[k].to = p

(* A guard only reads. *)
LawfulArm ==
  /\ Here.from = None => ~Repeated(Here.to, Top.seen)
  /\ Here.from # None => Known(ArmEnv, Here.from) /\ lookup_id(ArmEnv, Here.from) \notin ArmEnv.moved

Lawful ==
  /\ Here.op = "arm" => LawfulArm
  /\ Here.op # "arm" /\ Here.from \notin {None, Fresh} => Known(env, Here.from)
  /\ Here.op \in {"set", "change"} => Known(env, Here.to) /\ ~OfPattern(Target) /\ MayAssign(Target)
  /\ MovesValue(Here) => IsRef(Named) \/ MayMove(Named)
  /\ Here.op \in {"eat", "change", "return"} /\ Here.from # None => ~IsRef(Named)  \* another type
  /\ Here.op = "grow" => ~IsRef(Named) /\ ~OfPattern(Named) /\ MayBorrow(Named, TRUE)
  /\ Here.op \in {"ref", "look"} => ~IsRef(Named) /\ MayBorrow(Named, FALSE)
  /\ Here.op \in {"show", "defer"} => IsRef(Named) \/ MayBorrow(Named, FALSE)
  /\ Here.op \in {"break", "continue"} => \E f \in Range(open) : f.op \in {"loop", "while"}

Refuse ==
  /\ ~refused /\ at <= Len(text) /\ ~Lawful
  /\ refused' = TRUE
  /\ UNCHANGED <<text, at, env, refs, open>>

(* A form that is open: its head, the environment before it, how its body goes on
   ("falls", "leaves", "exits"), and what is known of the branches behind it.  Of a
   `match`: the arms seen, the variants there are, what is borrowed for it, and what
   the borrow looked through came from. *)
Form(op, base) ==
  [op |-> op, base |-> base, ends |-> "falls", branches |-> <<>>, seen |-> <<>>, variants |-> 0,
   lent |-> None, origin |-> None, looks |-> FALSE]

(* The first statement that does not fall through decides. *)
Diverges(forms, way) ==
  [forms EXCEPT ![Len(forms)].ends = IF @ = "falls" THEN way ELSE @]

(* A statement of a body is typed, and the loans nothing mentions any more end. *)
Statement(e) ==
  /\ env' = release_dead_references(e, collect_variable_names(at))
  /\ at' = at + 1
  /\ UNCHANGED text

Plain(e) == Statement(e) /\ UNCHANGED <<refs, open, refused>>

Moved(e, id) == IF IsRef(id) THEN e ELSE [e EXCEPT !.moved = @ \cup {id}]

CheckInit ==
  /\ \E family \in Bodies : text \in family
  /\ at = 1 /\ refs = {} /\ refused = FALSE
  /\ env = [names |-> <<NoNames>>, loans |-> <<>>, moved |-> {}, from |-> [id \in {} |-> None],
            owns |-> {}]
  /\ open = <<Form("do", env)>>

CheckLet ==
  /\ Is("let") /\ Lawful /\ (Here.from # Fresh => ~IsRef(Named))
  /\ Plain(rebind(IF Here.from = Fresh THEN env ELSE Moved(env, Named), Here.to, Binding, None, FALSE))

(* A copy of a borrow comes from where the borrow came from. *)
CheckAlias ==
  /\ Is("let") /\ Lawful /\ Here.from # Fresh /\ IsRef(Named)
  /\ refs' = refs \cup {Binding}
  /\ Statement(rebind(env, Here.to, Binding, env.from[Named], FALSE))
  /\ UNCHANGED <<open, refused>>

CheckRef ==
  /\ Is("ref") /\ Lawful
  /\ refs' = refs \cup {Binding}
  /\ Statement(rebind(add_loan(env, Named), Here.to, Binding, Named, TRUE))
  /\ UNCHANGED <<open, refused>>

(* The loan of an argument ends with the call. *)
CheckCall ==
  /\ Is("show") \/ Is("grow") \/ Is("eat") \/ Is("try")
  /\ Lawful
  /\ Plain(IF Here.op = "eat" THEN Moved(env, Named) ELSE env)

CheckSet ==
  /\ Is("set") \/ Is("change")
  /\ Lawful
  /\ Plain([env EXCEPT !.moved = @ \ {Target}])

(* What a deferred expression reads is lent for the rest of the scope. *)
CheckDefer ==
  /\ Is("defer") /\ Lawful
  /\ Plain(IF IsRef(Named) THEN env ELSE add_loan(env, Named))

CheckLeave ==
  /\ Is("break") \/ Is("continue")
  /\ Lawful
  /\ open' = Diverges(open, "leaves")
  /\ Statement(env) /\ UNCHANGED <<refs, refused>>

CheckReturn ==
  /\ Is("return") /\ Lawful
  /\ open' = Diverges(open, "exits")
  /\ Statement(IF Here.from = None THEN env ELSE Moved(env, Named))
  /\ UNCHANGED <<refs, refused>>

(* A branch and a loop have a scope of their own around their body's.  Nothing is
   ever in it. *)
CheckHead ==
  /\ ~refused /\ at <= Len(text) /\ Here.op \in Heads \ Matches
  /\ env' = push(env)
  /\ open' = Append(open, Form(Here.op, env))
  /\ at' = at + 1
  /\ UNCHANGED <<text, refs, refused>>

CheckMatch ==
  /\ Is("match") \/ Is("look")
  /\ Lawful
  /\ env' = IF Here.op = "look" THEN add_loan(env, Named) ELSE Moved(env, Named)
  /\ open' = Append(open, [Form(Here.op, env') EXCEPT
                !.variants = Here.to,
                !.looks  = Here.op = "look" \/ IsRef(Named),
                !.lent   = IF Here.op = "look" THEN Named ELSE None,
                !.origin = IF Here.op = "look" THEN Named ELSE IF IsRef(Named) THEN env.from[Named] ELSE None])
  /\ at' = at + 1
  /\ UNCHANGED <<text, refs, refused>>

(* The branches that are over, with the one that ends here. *)
Branches == Append(Top.branches, [moved |-> env.moved, ends |-> Top.ends])

CheckElse ==
  /\ Is("else")
  /\ env' = push(Top.base)
  /\ open' = [open EXCEPT ![Len(open)] = [@ EXCEPT !.branches = Branches, !.ends = "falls"]]
  /\ at' = at + 1
  /\ UNCHANGED <<text, refs, refused>>

(* The body of an arm is in a scope inside that of the arm's names. *)
CheckArm ==
  /\ Is("arm") /\ Lawful
  /\ env' = push(ArmEnv)
  /\ refs' = IF Top.looks THEN refs \cup {Id(at, r) : r \in Binds(Here.to)} ELSE refs
  /\ open' = [open EXCEPT ![Len(open)] =
                [@ EXCEPT !.branches = IF Top.seen = <<>> THEN <<>> ELSE Branches, !.ends = "falls",
                          !.seen = Append(@, at)]]
  /\ at' = at + 1
  /\ UNCHANGED <<text, refused>>

(* combine *)
Combined(a, b) == IF a = b THEN a ELSE "leaves"

(* Mutant: only what every branch moved is moved. *)
MutantMovedByAll(branches) ==
  {id \in UNION {b.moved : b \in Range(branches)} : \A b \in Range(branches) : id \in b.moved}

(* What one branch moved is moved, unless that branch left the function. *)
MovedByAny(branches) == UNION {b.moved : b \in {c \in Range(branches) : c.ends # "exits"}}

(* Mutant: an arm with a `when` counts like any other. *)
MutantGuardsProve(form) ==
  LET all == {text[k].to : k \in Range(form.seen)}
      whole(p) == \A r \in DOMAIN p : r > 1 => Irrefutable(p, r)
  IN \/ \E p \in all : Irrefutable(p, 1)
     \/ /\ form.variants > 0
        /\ \A t \in 1 .. form.variants : \E p \in all : p[1].k = "enum" /\ p[1].tag = t /\ whole(p)

(* An arm that takes everything, or one for every variant, whatever is in it.  An
   arm with a `when` proves nothing. *)
Exhaustive(form) ==
  LET sure == {text[k].to : k \in {i \in Range(form.seen) : text[i].from = None}}
      whole(p) == \A r \in DOMAIN p : r > 1 => Irrefutable(p, r)
  IN \/ \E p \in sure : Irrefutable(p, 1)
     \/ /\ form.variants > 0
        /\ \A t \in 1 .. form.variants : \E p \in sure : p[1].k = "enum" /\ p[1].tag = t /\ whole(p)

Joins == /\ open' = Diverges(Front(open), FoldLeft(LAMBDA way, b : Combined(way, b.ends), Branches[1].ends, Branches))
         /\ UNCHANGED refs
AfterBranches == [Top.base EXCEPT !.moved = @ \cup (DOMAIN Top.base.from \cap MovedByAny(Branches))]

CheckEndIf ==
  /\ Is("end") /\ Top.op = "if"
  /\ Statement(AfterBranches)
  /\ Joins /\ UNCHANGED refused

(* The loan of what was looked at ends with the `match`. *)
CheckEndMatch ==
  /\ Is("end") /\ Top.op \in Matches
  /\ refused' = ~Exhaustive(Top)
  /\ Statement(IF Top.lent = None THEN AfterBranches
               ELSE [AfterBranches EXCEPT !.loans = discharge_loan(Top.lent, @)])
  /\ Joins

(* Mutant: what a loop's body moves is no concern of the loop. *)
MutantLoopUnasked(base, moved, ends) == {}

(* Owned on entry and moved at the end of a body that may run again. *)
Escaped(base, moved, ends) ==
  IF ends = "exits" THEN {} ELSE {id \in DOMAIN base.from : Available(base, id) /\ id \in moved}

CheckEndLoop ==
  /\ Is("end") /\ Top.op \in {"loop", "while"}
  /\ refused' = (Escaped(Top.base, env.moved, Top.ends) # {})
  /\ Statement(pop(env))
  /\ open' = Front(open)
  /\ UNCHANGED refs

CheckEndDo ==
  /\ Is("end") /\ Top.op = "do"
  /\ Statement(pop(env))
  /\ open' = Diverges(Front(open), Top.ends)
  /\ UNCHANGED <<refs, refused>>

CheckDone == ~refused /\ at = Len(text) + 1
=============================================================================
