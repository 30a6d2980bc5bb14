----------------------------- MODULE Workspaces -----------------------------
(***************************************************************************)
(* Slopium.toml as text, what it says, the commands that edit it line by    *)
(* line (main.rs `add`, `remove` and `new`), and which packages a command   *)
(* run in a directory acts on together (workspace.rs).                      *)
(*                                                                          *)
(* A line is a heading, the heading of a dependency's own table, an entry   *)
(* or blank.  A line is odd when TOML reads in it what its first characters *)
(* do not show: a heading with a comment behind it, a dotted key, an array  *)
(* that goes on below.  A value is a sequence of sequences of names.        *)
(*                                                                          *)
(* A directory is the sequence of names that leads to it; a tree is a       *)
(* function from the directories that hold a Slopium.toml to what it says,  *)
(* or Torn when it cannot be read.                                          *)
(***************************************************************************)
EXTENDS Naturals, FiniteSetsExt, SequencesExt

CONSTANTS None, Torn, Failed

Line(kind, key, value, odd) == [kind |-> kind, key |-> key, value |-> value, odd |-> odd]
Heading(table)    == Line("heading", table, <<>>, FALSE)
Entry(key, value) == Line("entry", key, value, FALSE)
Blank             == Line("blank", "", <<>>, FALSE)

IsHeading(line) == line.kind \in {"heading", "sub"}

-----------------------------------------------------------------------------
(* What TOML reads *)

(* The heading a line is under; 0 before the first. *)
Under(text, i) == Max({0} \cup {h \in 1 .. i - 1 : IsHeading(text[h])})

(* The entries of a table, as a function from their keys. *)
Table(text, kind, table) ==
  LET entries == {i \in DOMAIN text :
                    /\ text[i].kind = "entry" /\ Under(text, i) # 0
                    /\ text[Under(text, i)].kind = kind /\ text[Under(text, i)].key = table}
  IN [k \in {text[i].key : i \in entries} |-> text[CHOOSE i \in entries : text[i].key = k].value]

Has(text, kind, table) == \E i \in DOMAIN text : text[i].kind = kind /\ text[i].key = table

(* No table is there twice, and no key in a table; a package or a workspace is. *)
IsReadable(text) ==
  /\ \E table \in {"package", "workspace", "workspace.dependencies"} : Has(text, "heading", table)
  /\ \A i, j \in DOMAIN text :
       IsHeading(text[i]) /\ text[i].kind = text[j].kind /\ text[i].key = text[j].key => i = j
  /\ \A i, j \in DOMAIN text :
       /\ text[i].kind = "entry" /\ text[j].kind = "entry" /\ text[i].key = text[j].key
       /\ Under(text, i) = Under(text, j)
       => i = j
  /\ \A k \in DOMAIN Table(text, "heading", "dependencies") : ~Has(text, "sub", k)

ValueOr(table, key, default) == IF key \in DOMAIN table THEN table[key] ELSE default

(* What a manifest that can be read says: the package, what it depends on, and
   what a workspace lists and offers to its members. *)
Said(text) ==
  LET section == Table(text, "heading", "workspace")
      plain   == Table(text, "heading", "dependencies")
      subs    == {text[i].key : i \in {j \in DOMAIN text : text[j].kind = "sub"}}
  IN [package      |-> ValueOr(Table(text, "heading", "package"), "name", <<>>),
      dependencies |-> [n \in DOMAIN plain \cup subs |->
                          IF n \in subs THEN Table(text, "sub", n)["version"] ELSE plain[n]],
      isWorkspace  |-> \E table \in {"workspace", "workspace.dependencies"} : Has(text, "heading", table),
      members      |-> ValueOr(section, "members", <<>>),
      exclude      |-> ValueOr(section, "exclude", <<>>),
      offers       |-> Table(text, "heading", "workspace.dependencies")]

(* read_manifest *)
Read(text) == IF text # Torn /\ IsReadable(text) THEN Said(text) ELSE Torn

-----------------------------------------------------------------------------
(* What the edits see *)

(* Whether a line is under a table's heading, as far as the heading shows it. *)
In(text, i, table) ==
  /\ Under(text, i) # 0
  /\ text[Under(text, i)] = Heading(table)

Shown(text, table, key) ==
  {i \in DOMAIN text : text[i] = [Entry(key, text[i].value) EXCEPT !.odd = text[i].odd]
                       /\ In(text, i, table)}

(* Where a table ends: at the heading behind it, or at the end of the file; 0
   when there is no such table. *)
EndOf(text, table) ==
  LET closes == {i \in DOMAIN text : IsHeading(text[i]) /\ In(text, i, table)}
  IN CASE closes # {} -> Max(closes)
       [] closes = {} /\ In(text, Len(text) + 1, table) -> Len(text) + 1
       [] OTHER -> 0

(* The last line before a place that is not blank. *)
LastBefore(text, end) == Max({0} \cup {i \in 1 .. end - 1 : text[i].kind # "blank"})

(* Mutant: a new entry goes to the end of the file. *)
MutantAddedTo(text, table, line) == Append(text, line)

(* Behind the table's last line, not behind the blank ones that follow it. *)
AddedTo(text, table, line) ==
  LET last == LastBefore(text, EndOf(text, table)) IN InsertAt(text, last + 1, line)

(* A new table, at the end of the file. *)
WithTable(text, table, line) ==
  SubSeq(text, 1, LastBefore(text, Len(text) + 1)) \o <<Blank, Heading(table), line>>

(* Mutant: the first entry of the name is taken, whatever table it is in. *)
MutantWithDependency(text, name, entry) ==
  LET seen == {i \in DOMAIN text : text[i].kind = "entry" /\ text[i].key = name}
  IN CASE seen # {} /\ entry # None -> [text EXCEPT ![Min(seen)].value = entry]
       [] seen # {} /\ entry = None -> RemoveAt(text, Min(seen))
       [] seen = {} /\ entry = None -> Failed
       [] seen = {} /\ entry # None ->
            IF EndOf(text, "dependencies") = 0 THEN WithTable(text, "dependencies", Entry(name, entry))
            ELSE AddedTo(text, "dependencies", Entry(name, entry))

(* with_dependency: an entry replaced, taken out or added; a dependency with a
   table of its own is left to its author. *)
WithDependency(text, name, entry) ==
  LET seen == {i \in Shown(text, "dependencies", name) : ~text[i].odd}
  IN CASE \E i \in DOMAIN text : text[i] = Line("sub", name, <<>>, FALSE) -> Failed
       [] ~(\E i \in DOMAIN text : text[i] = Line("sub", name, <<>>, FALSE)) /\ seen # {} ->
            IF entry = None THEN RemoveAt(text, Min(seen))
            ELSE [text EXCEPT ![Min(seen)].value = entry]
       [] OTHER ->
            IF entry = None THEN Failed
            ELSE IF EndOf(text, "dependencies") = 0 THEN WithTable(text, "dependencies", Entry(name, entry))
            ELSE AddedTo(text, "dependencies", Entry(name, entry))

(* with_member: the package's path behind those that are listed, if that is
   one line. *)
WithMember(text, path) ==
  LET seen == Shown(text, "workspace", "members")
  IN CASE seen # {} -> IF text[Min(seen)].odd THEN Failed
                       ELSE [text EXCEPT ![Min(seen)].value = Append(@, path)]
       [] seen = {} /\ EndOf(text, "workspace") # 0 ->
            AddedTo(text, "workspace", Entry("members", <<path>>))
       [] OTHER -> Failed

(* create_project *)
NewText(name) ==
  <<Heading("package"), Entry("name", <<<<name>>>>), Blank, Heading("dependencies"),
    Entry("std", <<<<"toolchain">>>>), Blank, Heading("build"), Entry("target", <<>>)>>

IsPlain(text) == \A i \in DOMAIN text : ~text[i].odd

-----------------------------------------------------------------------------
(* The packages of a workspace *)

IsAbove(x, y) == Len(x) <= Len(y) /\ SubSeq(y, 1, Len(x)) = x

(* The one of several directories that is furthest down. *)
Deepest(dirs) == CHOOSE d \in dirs : \A e \in dirs : Len(e) <= Len(d)

(* find_manifest: the nearest directory with a manifest, None when there is none. *)
Nearest(tree, dir) ==
  LET above == {d \in DOMAIN tree : IsAbove(d, dir)}
  IN IF above = {} THEN None ELSE Deepest(above)

(* The directories with manifests above a package. *)
Ancestors(tree, dir) == {d \in DOMAIN tree : IsAbove(d, dir) /\ d # dir}

(* expand_member: one directory, which must be there, or with a star every
   package below one. *)
Expanded(tree, root, pattern) ==
  IF pattern # <<>> /\ pattern[Len(pattern)] = "*"
  THEN {d \in DOMAIN tree : Len(d) = Len(root) + Len(pattern)
                            /\ IsAbove(root \o SubSeq(pattern, 1, Len(pattern) - 1), d)}
  ELSE IF root \o pattern \in DOMAIN tree THEN {root \o pattern} ELSE {None}

(* excluded_directories *)
Excluded(tree, root) == {root \o tree[root].exclude[i] : i \in DOMAIN tree[root].exclude}

(* lists_member: "yes", "no", or "error" when a pattern before names nothing. *)
Reaches(found, dir) ==
  LET decides == {i \in DOMAIN found : None \in found[i] \/ dir \in found[i]}
  IN IF decides = {} THEN "no"
     ELSE IF None \in found[Min(decides)] THEN "error" ELSE "yes"
Lists(tree, root, dir) ==
  IF dir \in Excluded(tree, root) THEN "no"
  ELSE Reaches([i \in DOMAIN tree[root].members |-> Expanded(tree, root, tree[root].members[i])], dir)

(* What the manifest at a directory has to do with a package below it. *)
Judged(tree, root, dir) ==
  CASE tree[root] = Torn -> "error"
    [] tree[root] # Torn /\ ~tree[root].isWorkspace -> "none"
    [] OTHER -> Lists(tree, root, dir)

(* Up to the first workspace that lists the package; failing that, the nearest
   is the one that could. *)
Decided(judged) ==
  LET decides == {d \in DOMAIN judged : judged[d] \in {"yes", "error"}}
      refuses == {d \in DOMAIN judged : judged[d] = "no"}
  IN CASE decides # {} -> IF judged[Deepest(decides)] = "error" THEN [is |-> "error", root |-> None]
                          ELSE [is |-> "member", root |-> Deepest(decides)]
       [] decides = {} /\ refuses # {} -> [is |-> "unlisted", root |-> Deepest(refuses)]
       [] OTHER -> [is |-> "nothing", root |-> None]

Asked(tree, above, dir) == Decided([d \in above |-> Judged(tree, d, dir)])

(* Mutant: the nearest manifest above is asked, and no other. *)
MutantEnclosing(tree, dir) ==
  LET above == Ancestors(tree, dir)
  IN Asked(tree, IF above = {} THEN {} ELSE {Deepest(above)}, dir)

(* enclosing_workspace and find_enclosing_workspace *)
Enclosing(tree, dir) == Asked(tree, Ancestors(tree, dir), dir)

(* The root of the workspace a manifest belongs to: its own, or one above that
   lists it, or else it is alone. *)
Rooted(dir, enclosing) ==
  CASE enclosing.is = "error"  -> Failed
    [] enclosing.is = "member" -> enclosing.root
    [] OTHER -> dir
RootOf(tree, dir) ==
  IF dir = None THEN Failed
  ELSE IF tree[dir] = Torn THEN Failed
  ELSE IF tree[dir].isWorkspace THEN dir ELSE Rooted(dir, Enclosing(tree, dir))

(* Its packages, as pairs of the pattern that lists one, 0 for the root's own,
   and its directory. *)
Listed(tree, root) ==
  LET said == tree[root]
  IN {p \in (IF said.package = <<>> THEN {} ELSE {<<0, root>>})
             \cup UNION {{i} \X Expanded(tree, root, said.members[i]) : i \in DOMAIN said.members} :
        p[2] \notin Excluded(tree, root)}

Inherited == <<<<"workspace">>>>

(* inherit: what a member takes from the workspace has to be offered there. *)
Inherits(offers, dependencies) ==
  \A n \in DOMAIN dependencies : dependencies[n] = Inherited => n \in DOMAIN offers
Inherit(offers, dependencies) ==
  [n \in DOMAIN dependencies |-> IF dependencies[n] = Inherited THEN offers[n] ELSE dependencies[n]]

NotLoaded == [root |-> Failed, current |-> <<>>, members |-> <<>>]
IsLoaded(workspace) == workspace.root # Failed

(* load_workspace: the root and what each member depends on.  Members have
   different names, and the package the command is run in is one of them. *)
IsMember(tree, offers, dir) ==
  /\ dir # None /\ tree[dir] # Torn
  /\ tree[dir].package # <<>> /\ Inherits(offers, tree[dir].dependencies)
Joined(tree, root, current, listed) ==
  IF \/ \E p \in listed : ~IsMember(tree, tree[root].offers, p[2])
     \/ \E p, q \in listed : p # q /\ tree[p[2]].package = tree[q[2]].package
     \/ current # <<>> /\ \A p \in listed : tree[p[2]].package # current
  THEN NotLoaded
  ELSE [root    |-> root,
        current |-> current,
        members |-> [n \in {tree[p[2]].package : p \in listed} |->
           LET d == (CHOOSE p \in listed : tree[p[2]].package = n)[2]
           IN [dir |-> d, needs |-> Inherit(tree[root].offers, tree[d].dependencies)]]]

LoadFrom(tree, start, root) ==
  IF root = Failed THEN NotLoaded ELSE Joined(tree, root, tree[start].package, Listed(tree, root))
LoadAt(tree, start) == LoadFrom(tree, start, RootOf(tree, start))
Load(tree, dir) == LoadAt(tree, Nearest(tree, dir))

(* select_one, without --package: the package the command is run in, or the only
   one there is. *)
SelectOne(workspace) ==
  CASE workspace.current # <<>> -> workspace.members[workspace.current].dir
    [] workspace.current = <<>> /\ Cardinality(DOMAIN workspace.members) = 1 ->
         workspace.members[CHOOSE n \in DOMAIN workspace.members : TRUE].dir
    [] OTHER -> None

=============================================================================
