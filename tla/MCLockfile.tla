----------------------------- MODULE MCLockfile -----------------------------
(***************************************************************************)
(* Lockfile over a registry that publishes a second version of packages "a" *)
(* and "b" and yanks.  Version 1 of "a" needs any "b", version 2 needs      *)
(* version 2 of it.  Workspaces have packages "app" and "lib".              *)
(***************************************************************************)
EXTENDS Lockfile, TLC

Free == <<<<"*">>>>
One == <<<<"1">>>>
Std == <<<<"toolchain">>>>

MCMoves == {<<"old", "newB">>, <<"newB", "newAB">>, <<"newAB", "noB1">>, <<"noB1", "noB">>}

(* What an index offers and has not yanked. *)
MCOffered(n, r) ==
  CASE n = "a" -> IF r \in {"old", "newB"} THEN {1} ELSE {1, 2}
    [] n = "b" -> CASE r = "old" -> {1} [] r = "noB1" -> {2} [] r = "noB" -> {}
                    [] OTHER -> {1, 2}

-----------------------------------------------------------------------------
(* Resolver's answers, by what ResolverCheck shows of them *)

Entries(needs, n) == {needs[x][n] : x \in {y \in DOMAIN needs : n \in DOMAIN needs[y]}}

(* The versions of "a" and "b" together that meet what is needed; 0 is none. *)
MCChoices(needs) ==
  {c \in (0 .. 2) \X (0 .. 2) :
     /\ c[1] = 0 <=> Entries(needs, "a") = {}
     /\ c[2] = 0 <=> Entries(needs, "b") = {} /\ c[1] = 0
     /\ c[1] = 2 => c[2] = 2
     /\ One \in Entries(needs, "a") => c[1] = 1
     /\ One \in Entries(needs, "b") => c[2] = 1}

MCPinned(n, v, pins) == n \in DOMAIN pins /\ pins[n].version = v
MCMay(n, v, r, pins) == v = 0 \/ MCPinned(n, v, pins) \/ v \in MCOffered(n, r)

(* The pin before the newest, for the name that is asked for first. *)
MCRank(n, v, pins) == IF MCPinned(n, v, pins) THEN 3 ELSE v
MCScore(choice, pins) == 4 * MCRank("a", choice[1], pins) + MCRank("b", choice[2], pins)

(* An entry for every member, and for every package they need. *)
MCPin(v, source, dependencies) == [version |-> v, source |-> source, dependencies |-> dependencies]
MCLockOf(choice, needs) ==
  LET members == {n[1][1] : n \in DOMAIN needs}
      chosen  == {i \in {1, 2} : choice[i] # 0}
      std     == IF Entries(needs, "std") = {} THEN {} ELSE {"std"}
  IN [n \in members \cup {<<"a", "b">>[i] : i \in chosen} \cup std |->
        CASE n \in members -> MCPin(1, "path", DOMAIN needs[<<<<n>>>>])
          [] n = "a"   -> MCPin(choice[1], "registry", {"b"})
          [] n = "b"   -> MCPin(choice[2], "registry", {})
          [] n = "std" -> MCPin(1, "toolchain", {})]

MCBest(needs, may, pins) ==
  IF may = {} THEN Failed
  ELSE MCLockOf(CHOOSE c \in may : \A d \in may : MCScore(d, pins) <= MCScore(c, pins), needs)

MCSelect(needs, r, pins) ==
  MCBest(needs, {c \in MCChoices(needs) : MCMay("a", c[1], r, pins) /\ MCMay("b", c[2], r, pins)}, pins)

(* Under --locked nothing but the pins is offered. *)
MCReplay(needs, pins) ==
  MCBest(needs, {c \in MCChoices(needs) : MCMay("a", c[1], "none", pins) /\ MCMay("b", c[2], "none", pins)}, pins)

-----------------------------------------------------------------------------
(* Trees *)

Package(name, lines) == <<Heading("package"), Entry("name", <<<<name>>>>)>> \o lines
Deps(lines) == <<Blank, Heading("dependencies")>> \o lines
NeedsA   == Deps(<<Entry("a", Free)>>)
NeedsAB  == Deps(<<Entry("a", Free), Entry("b", Free)>>)
NeedsB1  == Deps(<<Entry("b", One)>>)

(* A package on its own. *)
Alone(lines) == [d \in {<<"app">>} |-> Package("app", lines)]

(* A workspace with a member, and the packages it might have. *)
Around(section, more, offers, app) ==
  [d \in {<<>>, <<"app">>} \cup DOMAIN more |->
     CASE d = <<>> -> <<Heading("workspace")>> \o section \o offers
       [] d = <<"app">> -> Package("app", app)
       [] OTHER -> more[d]]
Lists1 == <<Entry("members", <<<<"app">>>>), Blank>>
Offers == <<Heading("workspace.dependencies"), Entry("a", Free)>>
Takes  == Deps(<<Entry("a", Inherited), Blank>>) \o <<Heading("build"), Entry("b", Free)>>
NoMore == [d \in {} |-> <<>>]
Family == Around(Lists1, NoMore, Offers, Takes)

Nested(except) ==
  [d \in {<<>>, <<"app">>, <<"app", "in">>} |->
     CASE d = <<>> -> <<Heading("workspace"), Entry("members", <<<<"app", "*">>>>)>> \o except
       [] d = <<"app">> -> <<Heading("workspace")>>
       [] OTHER -> Package("app", NeedsA)]
Except == <<Entry("exclude", <<<<"app", "in">>>>)>>

MCLife(trees, registries, moves, runs, news, changes, edits, together, maxKills) ==
  [trees |-> trees, registries |-> registries, moves |-> moves, runs |-> runs, news |-> news,
   changes |-> changes, edits |-> edits, together |-> together, maxKills |-> maxKills]

Change(name, entry) == [name |-> name, entry |-> entry]
Hand(dir, text) == [dir |-> dir, text |-> text]

MCLives ==
  <<(* One command after another, while the registry moves on. *)
    MCLife({Alone(NeedsA)}, Registry, MCMoves, {<<"app">>}, {}, {},
           {Hand(<<"app">>, Package("app", lines)) : lines \in {NeedsA, NeedsAB, NeedsB1}}, FALSE, 0),
    (* Commands that overlap and are killed. *)
    MCLife({Alone(NeedsA)}, {"newB"}, {}, {<<"app">>}, {}, {},
           {Hand(<<"app">>, Package("app", NeedsB1))}, TRUE, 1),
    (* A dependency and a package added and taken out, and a manifest that a killed
       command has lost written again. *)
    MCLife({Family}, {"newB"}, {}, {<<"app">>, <<>>}, {<<"lib">>},
           {Change("a", None), Change("b", One), Change("b", None)},
           {Hand(d, Family[d]) : d \in DOMAIN Family}, FALSE, 1),
    (* Two of them at once. *)
    MCLife({Alone(NeedsA)}, {"newB"}, {}, {<<"app">>}, {}, {Change("b", One)},
           {Hand(<<"app">>, Package("app", NeedsA))}, TRUE, 0),
    (* A workspace inside another, and a package that the outer one lists, or not. *)
    MCLife({Nested(<<>>)}, {"newB"}, {}, {<<>>, <<"app">>, <<"app", "in">>}, {<<"lib">>}, {},
           {Hand(<<>>, Nested(except)[<<>>]) : except \in {<<>>, Except}}, FALSE, 0) >>

MCDirectory == {<<>>, <<"app">>, <<"lib">>, <<"app", "in">>}

(* What "app" and "lib" may need in them, and what is locked then. *)
DependencySets ==
  LET Of(names, b) == [n \in names |-> IF n = "std" THEN Std ELSE IF n = "b" THEN b ELSE Free]
  IN {Of(names, b) : names \in SUBSET {"a", "b"}, b \in {Free, One}}
MCManifest ==
  LET std == [n \in {"std"} |-> Std]
  IN {[m \in {<<<<"app">>>>} |-> d] : d \in DependencySets}
     \cup {[m \in {<<<<"app">>>>, <<<<"lib">>>>} |-> IF m = <<<<"app">>>> THEN d ELSE std]
           : d \in DependencySets}
     \cup {[m \in {<<<<"lib">>>>} |-> std], [m \in {} |-> std]}

(* The answers, and for a package on its own what two of them leave in one file. *)
MCLock ==
  LET answers(manifests) == UNION {{MCLockOf(c, needs) : c \in MCChoices(needs)} : needs \in manifests}
      single == answers({[m \in {<<<<"app">>>>} |-> [n \in {"a"} |-> Free]],
                         [m \in {<<<<"app">>>>} |-> [n \in {"b"} |-> One]]})
  IN answers(MCManifest) \cup UNION {Spliced(old, new) : old \in single, new \in single}
MCSymmetry == Permutations(Session)
=============================================================================
