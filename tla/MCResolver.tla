----------------------------- MODULE MCResolver -----------------------------
(***************************************************************************)
(* Families of worlds for ResolverCheck.  "a" and "c" both may need "b";    *)
(* in most families each has the releases 1.0.0 and 2.0.0.                  *)
(***************************************************************************)
EXTENDS ResolverCheck

MCV(n) == Version(<<n, 0, 0>>, <<>>)
MCOf(n) == <<Parsed("^", <<n>>, <<>>)>>

MCIndex == Source("registry", "index", None, None)
MCHere  == Source("registry", "default", None, None)
MCDir(d) == Source("path", d, None, None)
MCGitAt(reference) == Source("git", "url", reference, None)

(* A dependency on some of the versions 1 and 2. *)
MCReq(accepts) == CASE accepts = {1} -> MCOf(1) [] accepts = {2} -> MCOf(2) [] OTHER -> AnyRelease
MCDep(name, accepts, source) == Dependency(name, MCReq(accepts), source)
MCOn(name, accepts) == IF accepts = {} THEN <<>> ELSE <<MCDep(name, accepts, MCHere)>>
MCAny(name) == MCDep(name, {1, 2}, MCHere)
MCWants == {{}, {1}, {2}, {1, 2}}

MCMember(dir, deps) == [dir |-> dir, content |-> Content(dir, MCV(1), deps, FALSE)]
MCApp(deps) == MCMember("app", deps)

MCPlain(name, v, deps) == Content(name, MCV(v), deps, FALSE)
MCHonest(name, v, deps) == Entry(MCV(v), deps, MCPlain(name, v, deps), FALSE)

(* A world with only a registry, and nothing in the way. *)
MCWorld(members, registry) ==
  [members |-> members, directories |-> <<>>, toolchain |-> <<>>, repositories |-> <<>>,
   databases |-> <<>>, registries |-> [i \in {"index"} |-> registry],
   configured |-> [nick \in {"default"} |-> "index"], readable |-> DOMAIN registry,
   reachable |-> {}, held |-> {}, vendored |-> [kinds |-> {}, copies |-> <<>>],
   pins |-> <<>>, precise |-> <<>>, locked |-> FALSE, offline |-> FALSE, pushes |-> <<>>]

(* A lock of some of the registry's packages. *)
MCLock(world, names, v) ==
  [n \in names |->
     LET entries == {e \in world.registries["index"][n] : e.version = MCV(v)}
         content == (CHOOSE e \in entries : TRUE).content
     IN [version |-> MCV(v), source |-> MCIndex, content |-> content,
         dependencies |-> {d.name : d \in Range(content.dependencies)}]]
MCPinned(world, names, v) == [world EXCEPT !.pins = MCLock(world, names, v)]

-----------------------------------------------------------------------------
(* Everything two dependents of one package can disagree about. *)
MCDiamonds ==
  {IF lock = {} THEN w ELSE MCPinned(w, lock, v)
   : w \in {MCWorld(<<MCApp(deps)>>,
             [a |-> {MCHonest("a", 1, MCOn("b", a1)), MCHonest("a", 2, MCOn("b", a2))},
              b |-> {MCHonest("b", 1, <<>>), Entry(MCV(2), <<>>, MCPlain("b", 2, <<>>), yanked)},
              c |-> {MCHonest("c", 1, MCOn("b", c1)), MCHonest("c", 2, MCOn("b", c2))}])
        : deps \in {<<MCAny("a"), MCAny("c")>>, <<MCAny("b"), MCAny("c"), MCDep("a", {1}, MCHere)>>},
          a1 \in MCWants, a2 \in MCWants, c1 \in MCWants, c2 \in MCWants, yanked \in BOOLEAN},
     lock \in {{}, {"a"}, {"a", "b", "c"}}, v \in {1, 2}}

(* Cycles, packages of the toolchain, and archives that disagree with the index. *)
MCTool == [b |-> MCPlain("b", 2, <<>>)]
MCOdd ==
  {IF lock = {} THEN w ELSE MCPinned(w, lock, v)
   : w \in {[MCWorld(<<MCApp(<<MCAny("a")>> \o more)>>,
             [a |-> {MCHonest("a", 1, <<>>),
                     Entry(MCV(2), <<MCAny("b")>>, MCPlain("a", 2, declared), FALSE)},
              b |-> {MCHonest("b", 1, <<>>), MCHonest("b", 2, back)},
              c |-> {}]) EXCEPT !.toolchain = MCTool]
        : more \in {<<>>, <<MCDep("b", {2}, Toolchain)>>, <<MCDep("b", {1}, MCHere)>>},
          declared \in {<<>>, <<MCAny("b")>>, <<MCAny("b"), MCAny("b")>>, <<MCDep("b", {1}, MCHere)>>,
                        <<Dependency("b", AnyRelease, MCDir("b"))>>},
          back \in {<<>>, <<MCAny("a")>>, <<MCAny("c")>>}},
     lock \in {{}, {"b"}, {"a", "b"}}, v \in {1, 2}}

(* Two members, and a lock from before. *)
MCWorkspaces ==
  {IF lock = {} THEN w ELSE MCPinned(w, lock, 1)
   : w \in {MCWorld(<<MCMember("x", x), MCMember("y", y)>>,
             [a |-> {MCHonest("a", 1, MCOn("b", a1)), MCHonest("a", 2, MCOn("b", a2))},
              b |-> {MCHonest("b", 1, <<>>), MCHonest("b", 2, <<>>)}])
        : x \in {<<MCAny("a")>>, <<MCAny("b")>>, <<MCAny("a"), MCDep("b", {1}, MCHere)>>},
          y \in {<<MCAny("a")>>, <<MCDep("b", {1}, MCHere)>>, <<MCDep("a", {1}, MCHere)>>},
          a1 \in MCWants, a2 \in MCWants},
     lock \in {{}, {"b"}, {"a", "b"}}}

(* update -p with --precise: the package named has no pin any more. *)
MCPrecise ==
  {[p EXCEPT !.precise = [n \in {name} |-> MCV(v)],
             !.pins = [n \in DOMAIN @ \ {name} |-> @[n]]]
   : p \in MCWorkspaces, name \in {"a", "b"}, v \in {1, 2}}

(* Without the index of "b", as far as no pin stands in for it. *)
MCOffline == {[p EXCEPT !.readable = {"a"}] : p \in MCWorkspaces}

-----------------------------------------------------------------------------
(* Releases and pre-releases below and above 1.0, and the requirements that can
   be written about them. *)
MCPre == <<<<1, 0>>, <<0, 1>>>>         \* alpha.1
MCReleases ==
  {Version(<<0, 2, 3>>, <<>>), Version(<<0, 3, 0>>, <<>>), Version(<<1, 0, 0>>, MCPre),
   Version(<<1, 0, 0>>, <<>>), Version(<<1, 2, 3>>, <<>>), Version(<<2, 0, 0>>, <<<<1, 1>>>>)}

MCWritten ==
  {Parsed(op, f, <<>>) : op \in {"^", "~", "=", ">", ">=", "<", "<="},
                         f \in {<<0>>, <<0, 2>>, <<0, 2, 3>>, <<1>>, <<1, 0, 0>>, <<1, 2, 3>>}}
  \cup {Parsed(op, <<1, 0, 0>>, <<<<1, 0>>>>) : op \in {"^", ">", "<"}}
  \cup {Parsed("^", <<0, 0>>, <<>>), Parsed("=", <<2, 0, 0>>, <<<<1, 1>>>>)}

MCRanges ==
  {AnyRelease} \cup {<<c>> : c \in MCWritten}
  \cup {<<Parsed(">=", <<0, 2>>, pre), upper>> :
          pre \in {<<>>}, upper \in {c \in MCWritten : c.op \in {"<", "<="}}}
  \cup {<<Parsed(">=", <<1, 0, 0>>, MCPre), Parsed("<", <<2>>, <<>>)>>}

(* Two dependents of it, one with a caret. *)
MCVersions ==
  {MCWorld(<<MCApp(<<Dependency("b", r, MCHere), Dependency("a", AnyRelease, MCHere)>>)>>,
           [a |-> {Entry(MCV(1), <<Dependency("b", s, MCHere)>>,
                         MCPlain("a", 1, <<Dependency("b", s, MCHere)>>), FALSE)},
            b |-> {Entry(v, <<>>, Content("b", v, <<>>, FALSE), FALSE) : v \in MCReleases}])
   : r \in MCRanges,
     s \in {AnyRelease, MCOf(1), <<Parsed("^", <<0, 2, 3>>, <<>>)>>,
            <<Parsed("^", <<1, 0, 0>>, <<<<1, 0>>>>)>>}}

-----------------------------------------------------------------------------
(* A repository whose commit "one" a branch and a tag are at, and whose commit
   "two" may be pushed to the branch; a third is no package.  Fetched packages
   may need others of the repository, the registry, or a directory. *)
MCRepository(more) ==
  [url |-> [heads   |-> [r \in {"branch", "tag"} |-> "one"],
            commits |-> [one |-> MCPlain("g", 1, more), two |-> MCPlain("g", 2, <<>>), wild |-> None],
            gone    |-> {}]]

MCGitLock(reference, rev) ==
  [n \in {"g"} |->
     [version |-> IF rev = "two" THEN MCV(2) ELSE MCV(1),
      source |-> [MCGitAt(reference) EXCEPT !.rev = rev],
      content |-> MCRepository(<<>>)["url"].commits[rev], dependencies |-> {}]]

MCTwo == [b |-> {MCHonest("b", v, <<>>) : v \in {1, 2}}]

MCGitWorld(members, more) ==
  [MCWorld(members, MCTwo) EXCEPT
     !.repositories = MCRepository(more), !.databases = [url |-> {}], !.reachable = {"url"}]

MCGitPushes ==
  {[MCGitWorld(<<MCMember("x", x), MCMember("y", y)>>, <<>>) EXCEPT
      !.pushes = IF to = "one" THEN <<>>
                 ELSE [url |-> [r \in {"branch", "tag"} |-> IF r = "branch" THEN to ELSE "one"]],
      !.pins = IF lock = None THEN <<>> ELSE MCGitLock(lock, "one"),
      !.databases = [url |-> known]]
   : x \in {<<MCDep("g", {1, 2}, MCGitAt("branch"))>>, <<MCDep("b", {1, 2}, MCHere)>>},
     y \in {<<MCDep("g", a, MCGitAt(r))>> : a \in {{1}, {2}, {1, 2}}, r \in {"branch", "tag", "two"}},
     to \in {"one", "two", "wild"}, lock \in {None, "branch", "tag"},
     known \in {{}, {"one"}, {"one", "two"}}}

(* What a fetched package may depend on, and a run without the network. *)
MCGitNeeds ==
  {[MCGitWorld(<<MCApp(<<MCDep("g", {1, 2}, MCGitAt(r)), MCDep("b", {1, 2}, MCHere)>>)>>, more) EXCEPT
      !.directories = [d \in {"d"} |-> MCPlain("b", 1, <<>>)],
      !.pins = IF lock THEN MCGitLock(r, "two") ELSE <<>>,
      !.databases = [url |-> known], !.offline = offline,
      !.reachable = IF up THEN {"url"} ELSE {},
      !.repositories.url.gone = gone]
   : r \in {"branch", "two", "wild", "none"}, lock \in BOOLEAN, offline \in BOOLEAN, up \in BOOLEAN,
     known \in {{}, {"two"}}, gone \in {{}, {"two"}},
     more \in {<<>>, <<MCDep("b", {1}, MCHere)>>, <<Dependency("b", AnyRelease, MCDir("d"))>>,
               <<MCDep("g", {2}, MCGitAt("two"))>>}}

-----------------------------------------------------------------------------
(* Directories: a stranger, another member, one that is not there, one of
   another name; and the languages' own library with what else defines it. *)
MCDirectories ==
  {[MCWorld(<<MCMember("x", <<Dependency(n, AnyRelease, MCDir(d))>> \o more), MCMember("y", <<>>)>>,
            MCTwo) EXCEPT
      !.directories = [b |-> MCPlain("b", v, <<>>)]]
   : n \in {"b", "y"}, d \in {"b", "y", "none"}, v \in {1, 2},
     more \in {<<>>, <<MCDep("b", {1}, MCHere)>>, <<MCDep("b", {2}, MCDir("b"))>>}}

MCLibraries ==
  {[MCWorld(<<MCApp(<<Dependency("std", AnyRelease, Toolchain)>> \o more)>>,
            [b |-> {Entry(MCV(1), needs, Content("b", MCV(1), needs, items), FALSE)},
             c |-> {Entry(MCV(1), <<MCAny("b")>>, MCPlain("c", 1, <<MCAny("b")>>), FALSE)}]) EXCEPT
      !.toolchain = [std |-> Content("std", MCV(1), <<MCDep("core", {1}, Toolchain)>>, TRUE),
                     core |-> Content("core", MCV(1), <<>>, TRUE)],
      !.configured = IF named THEN @ ELSE <<>>]
   : more \in {<<>>, <<MCAny("b")>>, <<MCAny("c")>>, <<MCDep("core", {1}, Toolchain)>>}, items \in BOOLEAN, named \in BOOLEAN,
     needs \in {<<>>, <<Dependency("std", MCOf(1), Toolchain)>>, <<Dependency("core", MCOf(2), Toolchain)>>}}

(* Two registries with packages of one name, and packages that need their own
   registry's or name another. *)
MCOther == Source("registry", "other", None, None)
MCRegistries ==
  {[MCWorld(<<MCApp(<<MCDep("a", {1, 2}, from)>> \o more)>>,
            [a |-> {MCHonest("a", 1, <<MCDep("b", {1}, back)>>)}, b |-> MCTwo["b"]]) EXCEPT
      !.registries = [index |-> @["index"],
                      second |-> [a |-> {MCHonest("a", v, <<MCDep("b", {1, 2}, back)>>) : v \in {1, 2}},
                                  b |-> {MCHonest("b", 1, <<>>)}]],
      !.configured = [default |-> "index", other |-> "second"]]
   : from \in {MCHere, MCOther}, back \in {MCHere, MCOther},
     more \in {<<>>, <<MCAny("b")>>, <<MCDep("b", {1}, MCOther)>>}}

(* Copies that a store or an earlier `vendor` left, in place of a kind of source. *)
MCCopies ==
  {[MCGitWorld(<<MCApp(<<MCDep("g", {1}, MCGitAt("branch")), MCDep("b", {1}, MCHere)>>)>>, <<>>) EXCEPT
      !.vendored = [kinds |-> kinds, copies |-> [n \in names |-> IF n = "g" THEN MCPlain("g", v, <<>>)
                                                                 ELSE MCPlain("b", 1, <<>>)]]]
   : kinds \in SUBSET {"git", "registry"}, names \in SUBSET {"g", "b"}, v \in {1, 2}}

MCAll ==
  MCDiamonds \cup MCOdd \cup MCWorkspaces \cup MCPrecise \cup MCOffline \cup MCVersions
  \cup MCGitPushes \cup MCGitNeeds \cup MCDirectories \cup MCLibraries \cup MCRegistries \cup MCCopies
=============================================================================
