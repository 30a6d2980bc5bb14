---------------------------- MODULE LanguageServer ----------------------------
(***************************************************************************)
(* The language server (slopium-lsp main.rs) and the editor that talks to it: *)
(* documents opened, changed, saved and closed; the package of the document   *)
(* that changed last, built over what is open and what is on disk; and what   *)
(* the editor is shown and answered.                                          *)
(***************************************************************************)
EXTENDS Packages

CONSTANTS
  File,         \* files, in the order of their paths
  ModuleOf,     \* the module each is in its own package
  Home,         \* the package each belongs to, None without a manifest
  Package,      \* name -> [entry, library, resolves, dependencies]: a sequence of
                \* [namespace, package], dependencies of dependencies included
  Content,      \* the texts there are
  Written,      \* the texts a file may hold
  First,        \* what is on disk in the beginning
  NewName,      \* what a rename is asked to write; no text has it
  MaxMessages,  \* bound: notifications the editor sends
  MaxVersion,   \* bound: versions of a document
  None

ASSUME ServerAssumption ==
  /\ MaxMessages \in Nat /\ MaxVersion \in Nat \ {0}
  /\ First = [f \in Range(File) |-> First[f]]
  /\ \A f \in Range(File) : First[f] \in Written[f] /\ Written[f] \subseteq DOMAIN Content
  /\ \A text \in Range(Content) : \A i \in DOMAIN text :
       NewName \notin Range(text[i].says) \cup Range(text[i].from) \cup {text[i].alias}

VARIABLES
  disk,       \* what each file holds
  editor,     \* the editor's buffers, [version, text]; None, not open
  documents,  \* the server's, likewise; what it knows of each by itself
              \* follows from its text
  workspace,  \* [package, files] it has built, None; the rest follows
  shown,      \* the diagnostics the editor shows for each file
  last,       \* the file that was changed last
  current,    \* whether nothing was changed since without the server knowing
  messages
vars == <<disk, editor, documents, workspace, shown, last, current, messages>>

Files == Range(File)

-----------------------------------------------------------------------------
(* Positions: lines and UTF-16 units.  A line ends with a word. *)

Units(text, from, to) ==
  LET before[n \in from .. to + 1] == IF n = from THEN 0 ELSE before[n - 1] + text[n - 1].units IN before[to + 1]
LineEnds(text, i) == {j \in OfRole(text, {"end"}) : j < i}
LineStart(text, i) == IF LineEnds(text, i) = {} THEN 1 ELSE 1 + CHOOSE j \in LineEnds(text, i) : \A k \in LineEnds(text, i) : k <= j

(* Where a reader sees word i, if its first `units` are passed over. *)
Position(text, i, units) == [line |-> Cardinality(LineEnds(text, i)), character |-> Units(text, LineStart(text, i), i - 1) + units]

(* Inside a word, back to where a character starts. *)
Within(word, bytes) == IF word.bytes = word.units THEN bytes ELSE 2 * (bytes \div 4)

(* Mutant of offset_position: a character is a byte. *)
MutantCountsBytes(text, offset) ==
  LET i == CHOOSE j \in 1 .. Len(text) + 1 : /\ Start(text, j) <= offset
                                              /\ j <= Len(text) => offset < Start(text, j) + text[j].bytes
  IN [line |-> Cardinality(LineEnds(text, i)), character |-> offset - Start(text, LineStart(text, i))]

offset_position(text, offset) ==
  LET at == IF offset > size(text) THEN size(text) ELSE offset
      i  == CHOOSE j \in 1 .. Len(text) + 1 : /\ Start(text, j) <= at
                                              /\ j <= Len(text) => at < Start(text, j) + text[j].bytes
  IN IF i > Len(text) THEN Position(text, i, 0) ELSE Position(text, i, Within(text[i], at - Start(text, i)))

span_range(text, at) == [start |-> offset_position(text, at.start), end |-> offset_position(text, at.end)]

(* Where words start only: nothing else is asked for. *)
position_offset(text, position) ==
  LET there == {i \in DOMAIN text : Position(text, i, 0) = position} IN
  IF there = {} THEN None ELSE Start(text, CHOOSE i \in there : TRUE)

-----------------------------------------------------------------------------
(* Packages: their files, and those of their dependencies. *)

FilesOf(p) == SelectSeq(File, LAMBDA f : Home[f] = p)
DependenciesOf(p) == Package[p].dependencies

Sources(p) ==
  LET of(namespace, q) == [k \in DOMAIN FilesOf(q) |-> [file |-> FilesOf(q)[k], namespace |-> namespace]]
  IN of(<<>>, p) \o FlattenSeq([k \in DOMAIN DependenciesOf(p) |->
                                  of(DependenciesOf(p)[k].namespace, DependenciesOf(p)[k].package)])
SourceFiles(p) == {source.file : source \in Range(Sources(p))}

InputOf(p, texts) ==
  [name  |-> p,
   entry |-> ModuleOf[Package[p].entry],
   files |-> [k \in DOMAIN Sources(p) |->
                LET source == Sources(p)[k] IN
                [path |-> source.file, namespace |-> source.namespace, module |-> ModuleOf[source.file],
                 text |-> texts[source.file]]]]
Input(p, files) == InputOf(p, [f \in SourceFiles(p) |-> Content[files[f]]])

validates_entry_point(p) == ~Package[p].library
document_requires_entry_point(f) == Home[f] = None \/ (validates_entry_point(Home[f]) /\ f = Package[Home[f]].entry)

-----------------------------------------------------------------------------
(* The index of a package *)

(* Mutant of resolve_workspace_name: what is taken from elsewhere is not looked at. *)
MutantForgetsImports(modules, own, name) ==
  LET module == longest_module_prefix({m.module : m \in Range(modules)}, name)
      of(m)  == CHOOSE s \in Range(modules) : s.module = m
  IN IF Head(name) \in DOMAIN own.declarations THEN own.declarations[Head(name)] \o Tail(name)
     ELSE IF module = <<>> \/ name[Len(module) + 1] \notin DOMAIN of(module).exports THEN <<>>
     ELSE of(module).exports[name[Len(module) + 1]] \o SubSeq(name, Len(module) + 2, Len(name))

(* Mutant of Shown: what a module declares is offered, exported or not. *)
MutantShowsPrivate(modules, module) ==
  LET under(path, names) == {<<path \o <<name>>, names[name]>> : name \in DOMAIN names} IN
  under(<<>>, module.declarations) \cup under(<<>>, module.imports)
  \cup UNION {under(m.module, m.declarations) : m \in Range(modules)}

(* What a file sees of the others, by which names. *)
Shown(modules, module) ==
  LET under(path, names) == {<<path \o <<name>>, names[name]>> : name \in DOMAIN names} IN
  under(<<>>, module.declarations) \cup under(<<>>, module.imports)
  \cup UNION {under(m.module, m.exports) : m \in Range(modules)}

(* As the compiler looks names up, but over its summaries. *)
resolve_workspace_name(modules, own, name) ==
  LET head   == Head(name)
      module == longest_module_prefix({m.module : m \in Range(modules)}, name)
      rest   == SubSeq(name, Len(module) + 1, Len(name))
      of(m)  == CHOOSE s \in Range(modules) : s.module = m
  IN IF head \in DOMAIN own.declarations THEN own.declarations[head] \o Tail(name)
     ELSE IF head \in DOMAIN own.imports THEN own.imports[head] \o Tail(name)
     ELSE IF module = <<>> \/ Head(rest) \notin DOMAIN of(module).exports THEN <<>>
     ELSE of(module).exports[Head(rest)] \o Tail(rest)

Symbol(canonical, module, i) == [canonical |-> canonical, file |-> module.path, at |-> i]

Defined(module, text) ==
  LET top(i) == module.declarations[text[i].says[1]] IN
  {Symbol(top(i), module, i) : i \in {j \in OfRole(text, Kinds) : \A k \in OfRole(text, Kinds) : text[k].says = text[j].says => ~Before(text, j, k)}}
  \cup {Symbol(top(TopOf(text, i)) \o text[i].says, module, i) : i \in OfRole(text, {"variant"})}

(* What a file mentions: types, what is called or matched, what is taken or
   exported; neither what a function is used as a value for nor the types of an
   extern.  What is not found is not noted. *)
add_workspace_reference(modules, module, text, i) ==
  Symbol(resolve_workspace_name(modules, module, text[i].says), module, atom_span(text, i))
Scanned(modules, module, text, role) == {add_workspace_reference(modules, module, text, i) : i \in OfRole(text, {role})}
scan_type_occurrences(modules, module, text)    == Scanned(modules, module, text, "type")
scan_expr_occurrences(modules, module, text)    == Scanned(modules, module, text, "call")
scan_pattern_occurrences(modules, module, text) == Scanned(modules, module, text, "pattern")
scan_program_occurrences(modules, module, text) ==
  scan_type_occurrences(modules, module, text) \cup scan_expr_occurrences(modules, module, text)
  \cup scan_pattern_occurrences(modules, module, text) \cup Scanned(modules, module, text, "export")
  \cup {Symbol(module.imports[text[i].alias], module, i) : i \in {j \in OfRole(text, {"take"}) : text[j].alias \in DOMAIN module.imports}}

index_workspace_symbols(modules, files) ==
  LET text(k)     == Content[files[modules[k].path]]
      definitions == UNION {Defined(modules[k], text(k)) : k \in DOMAIN modules}
      mentions    == UNION {scan_program_occurrences(modules, modules[k], text(k)) : k \in DOMAIN modules}
  IN [definitions |-> definitions,
      occurrences |-> definitions \cup {s \in mentions : \E d \in definitions : d.canonical = s.canonical},
      visible     |-> [f \in {modules[k].path : k \in DOMAIN modules} |->
                         Shown(modules, CHOOSE m \in Range(modules) : m.path = f)]]

(* What is said of the package as a whole is said where it is entered. *)
Workspace(p, files, package) ==
  LET about(d) == IF d.file = p THEN Package[p].entry ELSE d.file IN
  [diagnostics |-> [f \in SourceFiles(p) |-> {d \in package.diagnostics : about(d) = f}]]
  @@ index_workspace_symbols(package.modules, files)
build_workspace(p, files) == Workspace(p, files, analyze_package(Input(p, files), validates_entry_point(p)))

(* All of them, since neither depends on anything else. *)
Contents(p) == {files \in [SourceFiles(p) -> UNION {Written[f] : f \in SourceFiles(p)}] :
                  \A f \in SourceFiles(p) : files[f] \in Written[f]}

(* A package's files are among the files there are; that there is none is neither
   a document nor a package that was built. *)
ASSUME FilesAssumption ==
  /\ None \notin Files
  /\ \A f \in Files : Home[f] \in DOMAIN Package \cup {None}
  /\ \A f \in Files : \A text \in Written[f], n \in 1 .. MaxVersion : [version |-> n, text |-> text] # None
  /\ \A p \in DOMAIN Package :
       /\ p # None /\ SourceFiles(p) \subseteq Files
       /\ \A files \in Contents(p) : [package |-> p, files |-> files] # None

Built == Table([p \in DOMAIN Package |-> Table([files \in Contents(p) |-> build_workspace(p, files)])])
Known == Table([f \in Files |-> Table([text \in Written[f] |-> analyze_source(f, Content[text], document_requires_entry_point(f))])])

-----------------------------------------------------------------------------
(* Notifications.  The server is sent one at a time and done with it before the
   next. *)

Init ==
  /\ disk = First
  /\ editor = [f \in Files |-> None] /\ documents = editor
  /\ workspace = None
  /\ shown = [f \in Files |-> {}]
  /\ last = None /\ current = FALSE /\ messages = 0

(* The package as it is with the open documents laid over the disk; the file is
   in none, or its package cannot be resolved without fetching: nothing. *)
refresh_workspace(f, docs, stored) ==
  LET p == Home[f] IN
  workspace' = IF p = None \/ ~Package[p].resolves THEN None
               ELSE [package |-> p,
                     files |-> [g \in SourceFiles(p) |-> IF docs[g] = None THEN stored[g] ELSE docs[g].text]]

(* Mutant of Accepted: whatever comes is taken. *)
MutantTakesAnything(f, version) == TRUE

(* A version older than the document's is not taken. *)
Accepted(f, version) == documents[f] = None \/ version >= documents[f].version

update(f, version, text) ==
  /\ documents' = [documents EXCEPT ![f] = [version |-> version, text |-> text]]
  /\ refresh_workspace(f, documents', disk')
  /\ last' = f /\ current' = TRUE

diagnostics(space, f, text) ==
  IF space # None /\ f \in DOMAIN space.files THEN Built[space.package][space.files].diagnostics[f]
  ELSE Known[f][text].diagnostics

Ranges(f, text, found) ==
  {[range |-> span_range(Content[text], d.at), severity |-> d.severity, what |-> d.what] : d \in found}
publish(f) == Ranges(f, documents'[f].text, diagnostics(workspace', f, documents'[f].text))
(* Mutant of publish_open_documents: only the document that was changed. *)
MutantPublishesOne == shown' = [f \in Files |-> IF documents'[f] = None \/ f # last' THEN shown[f] ELSE publish(f)]
publish_open_documents == shown' = [f \in Files |-> IF documents'[f] = None THEN shown[f] ELSE publish(f)]

Send == messages < MaxMessages /\ messages' = messages + 1

didOpen(f) ==
  /\ Send /\ editor[f] = None
  /\ editor' = [editor EXCEPT ![f] = [version |-> 1, text |-> disk[f]]]
  /\ UNCHANGED disk
  /\ update(f, 1, disk[f])
  /\ publish_open_documents

didChange(f, text) ==
  /\ Send /\ editor[f] # None /\ editor[f].version < MaxVersion /\ text # editor[f].text
  /\ editor' = [editor EXCEPT ![f] = [version |-> @.version + 1, text |-> text]]
  /\ UNCHANGED disk
  /\ update(f, editor[f].version + 1, text)
  /\ publish_open_documents

(* A change that was overtaken by one after it. *)
didChangeLate(f, text) ==
  /\ Send /\ editor[f] # None /\ editor[f].version > 1
  /\ UNCHANGED <<disk, editor>>
  /\ IF Accepted(f, editor[f].version - 1)
     THEN update(f, editor[f].version - 1, text) /\ publish_open_documents
     ELSE UNCHANGED <<documents, workspace, shown, last, current>>

(* The text comes along, or it does not. *)
didSave(f, with) ==
  /\ Send /\ editor[f] # None
  /\ disk' = [disk EXCEPT ![f] = editor[f].text]
  /\ UNCHANGED editor
  /\ IF with THEN update(f, documents[f].version, editor[f].text)
     ELSE UNCHANGED <<documents, workspace, last, current>>
  /\ publish_open_documents

didClose(f) ==
  /\ Send /\ editor[f] # None
  /\ editor' = [editor EXCEPT ![f] = None]
  /\ documents' = [documents EXCEPT ![f] = None]
  /\ shown' = [shown EXCEPT ![f] = {}]
  /\ current' = (current /\ editor[f].text = disk[f])
  /\ UNCHANGED <<disk, workspace, last>>

(* A file is written by another program, which tells nobody. *)
Overwrite(f, text) ==
  /\ messages < MaxMessages /\ text # disk[f]
  /\ messages' = messages + 1
  /\ disk' = [disk EXCEPT ![f] = text]
  /\ current' = (current /\ editor[f] # None)
  /\ UNCHANGED <<editor, documents, workspace, shown, last>>

Next == \E f \in Files :
          \/ didOpen(f) \/ didClose(f)
          \/ \E with \in BOOLEAN : didSave(f, with)
          \/ \E text \in Written[f] : didChange(f, text) \/ didChangeLate(f, text) \/ Overwrite(f, text)
Spec == Init /\ [][Next]_vars

-----------------------------------------------------------------------------
(* Requests change nothing.  A place is a file and a span. *)

Place(f, text, i) == [file |-> f, range |-> span_range(text, [start |-> Start(text, i), end |-> Start(text, i) + text[i].bytes])]

NoIndex == [definitions |-> {}, occurrences |-> {}, visible |-> <<>>]
Index == IF workspace = None THEN NoIndex ELSE Built[workspace.package][workspace.files]
workspace_symbol_at(space, occurrences, f, offset) ==
  {o.canonical : o \in {s \in occurrences :
     /\ s.file = f
     /\ LET text == Content[space.files[f]] IN
        Start(text, s.at) <= offset /\ offset < Start(text, s.at) + text[s.at].bytes}}

In(space, s) == Place(s.file, Content[space.files[s.file]], s.at)

(* What is said of a place in a file: as the package has it, in these words or
   those of them at the place, or by itself. *)
Answer(space, f, name, offset, symbol, chosen, alone(_, _)) ==
  IF symbol # {} THEN {In(space, s) : s \in {e \in chosen : e.canonical \in symbol}}
  ELSE {Place(f, Content[name], i) : i \in alone(Content[name], offset)}
Offset(f, position) == position_offset(Content[documents[f].text], position)

DefinitionIn(space, f, name, offset, built) ==
  Answer(space, f, name, offset, workspace_symbol_at(space, built.occurrences, f, offset), built.definitions,
         LAMBDA text, at : symbol_at(Known[f][name], text, at))
definition(f, position) == DefinitionIn(workspace, f, documents[f].text, Offset(f, position), Index)

Among(known, text, offset) == {o.at : o \in UNION {occurrences_of(known, s) : s \in symbol_at(known, text, offset)}}
ReferencesIn(space, f, name, offset, built) ==
  Answer(space, f, name, offset, workspace_symbol_at(space, built.occurrences, f, offset), built.occurrences,
         LAMBDA text, at : Among(Known[f][name], text, at))
references(f, position) == ReferencesIn(workspace, f, documents[f].text, Offset(f, position), Index)

(* The new name is written over every place that refers to it. *)
rename(f, position) == references(f, position)

(* Labels, and what they stand for. *)
Offered(f, built, seen) ==
  IF f \notin DOMAIN built.visible THEN {}
  ELSE {v \in built.visible[f] : v[1] \notin seen /\ \E d \in built.definitions : d.canonical = v[2]}
completion(f, position) ==
  LET text == Content[documents[f].text]
      own  == visible_symbols(Known[f][documents[f].text], text, Offset(f, position))
  IN [own |-> own, offered |-> Offered(f, Index, {TopName(text, i) : i \in own})]

-----------------------------------------------------------------------------
(* What the editor has of each file, and the package of the last change, if it
   can be built. *)
Texts == [f \in Files |-> IF editor[f] = None THEN disk[f] ELSE editor[f].text]
Project == IF last = None \/ Home[last] = None THEN None ELSE IF Package[Home[last]].resolves THEN Home[last] ELSE None
TextsOf(p) == [f \in SourceFiles(p) |-> Texts[f]]

(* Whatever came late, was saved or was closed in between: unless something has
   changed without the server being told, the editor shows for each open file of
   the package that was changed last what a build of its own buffers would say,
   where those buffers have it; without a package, what the file by itself has
   wrong. *)
PublishedIsCurrent ==
  current =>
    \A f \in IF Project = None THEN {last} ELSE SourceFiles(Project) :
      editor[f] # None =>
        shown[f] = Ranges(f, Texts[f], IF Project = None THEN Known[f][Texts[f]].diagnostics
                                       ELSE Built[Project][TextsOf(Project)].diagnostics[f])

(* The units of a package, and what their names mean to the compiler. *)
CompiledUnits(units, exports, taken) ==
  [units |-> units, exports |-> exports, taken |-> taken,
   means |-> Table([k \in DOMAIN units |-> meaning(exports, taken[k], units[k])]),
   functions |-> visible_functions(units, taken)]
CompiledWith(units, exports) == CompiledUnits(units, exports, Imports(units, exports))
CompiledOf(units) == CompiledWith(units, Exports(units))
Compiled(p, files) == CompiledOf(UnitsOf(Input(p, files)))
Compilation == Table([p \in DOMAIN Package |-> Table([files \in Contents(p) |-> Compiled(p, files)])])

(* Where a reader has what is wrong at a word. *)
Sight(text, i) == [start |-> Position(text, i - text[i].back, 0), end |-> Position(text, i + 1, 0)]

(* However the files of a package are laid end to end, and whatever alphabet they
   are written in: what the types complain of is shown in the file that has it, at
   the line and character where it is; what there is to be warned of, in files of
   the package itself.  (What is in a defer or a composition keeps the place it
   has in its own file, and is looked for in another.) *)
Trouble(c, k) ==
  LET wrong(j) == {i \in DOMAIN c.units[j].text : Wrong(c.units, c.means, c.functions, j, i)}
      warned   == IF c.units[k].namespace = <<>> THEN {i \in DOMAIN c.units[k].text : c.units[k].text[i].mark = "warning"} ELSE {}
  IN IF \E j \in DOMAIN c.units : wrong(j) # {} THEN wrong(k) ELSE warned
Plain(c) == \A k \in DOMAIN c.units : \A i \in DOMAIN c.units[k].text : c.units[k].text[i].deep = ""
Says(built, what) == \A f \in DOMAIN built.diagnostics : \A d \in built.diagnostics[f] : d.what \in what
OnlyTyped(built) == Says(built, {"typing", "deprecated", "no main"})
LandRight(c) ==
  Plain(c) => \A k \in DOMAIN c.units : documents[c.units[k].path] # None =>
                {d.range : d \in {e \in shown[c.units[k].path] : e.what # "no main"}}
                  = {Sight(c.units[k].text, i) : i \in Trouble(c, k)}
DiagnosticsLandInTheirFile ==
  workspace # None /\ OnlyTyped(Index) => LandRight(Compilation[workspace.package][workspace.files])

-----------------------------------------------------------------------------
(* What a rename makes of a package *)

(* The new name stands for the whole path, and for what it is taken or exported
   as unless that is another name.  A pattern without a path binds. *)
Rewritten(word) ==
  [word EXCEPT !.says = <<NewName>>,
               !.alias = IF @ = Last(word.says) THEN NewName ELSE @,
               !.role = IF word.bare THEN "binding" ELSE @]
Edited(p, files, places) ==
  [f \in SourceFiles(p) |->
     LET text == Content[files[f]] IN
     Table([i \in DOMAIN text |-> IF Place(f, text, i) \in places THEN Rewritten(text[i]) ELSE text[i]])]

(* The declaration a word is for, to the compiler. *)
Mentioning(c, k, i) ==
  LET unit == c.units[k]
      word == unit.text[i]
  IN CASE word.role \in Kinds    -> Canonical(unit, i)
       [] word.role = "variant"  -> Canonical(unit, TopOf(unit.text, i)) \o word.says
       [] word.role = "take"     -> Imported(c.exports, unit, i)
       [] word.role = "export"   -> Exported(c.exports, unit, word.says)
       [] i \in DOMAIN c.means[k] -> c.means[k][i]
       [] OTHER                  -> <<>>

(* The words that define what each word is for. *)
Whose(c) ==
  LET words    == UNION {{<<k, i>> : i \in DOMAIN c.units[k].text} : k \in DOMAIN c.units}
      text(w)  == c.units[w[1]].text
      names    == Table([w \in words |-> Mentioning(c, w[1], w[2])])
      defining == {w \in words : text(w)[w[2]].role \in Kinds \cup {"variant"}}
  IN Table([w \in words |-> CASE text(w)[w[2]].role = "local"    -> {<<w[1], j>> : j \in BoundFor(text(w), w[2])}
                              [] text(w)[w[2]].role \in Bindings -> {w}
                              [] OTHER -> {d \in defining : names[d] = names[w]}])

(* The compiler refuses what a word says. *)
Refused(c, k, i) ==
  LET unit == c.units[k]
      word == unit.text[i]
  IN CASE word.role = "take"   -> Imported(c.exports, unit, i) = <<>>
       [] word.role = "export" -> Exported(c.exports, unit, word.says) = <<>>
       [] OTHER -> \/ Meant(unit, i) /\ word.role # "value" /\ Private(c.exports, c.taken[k], unit, word.says)
                   \/ i \in DOMAIN c.means[k] /\ Unknown(c.units, word.role, c.means[k][i])
                   \/ refuse_function_shadow(c.units, c.functions, k, i)

(* What the editor does not take for a mention, though the compiler does: a name
   that is a value, a type of an extern, and a type that is spelled before in the
   same place. *)
Overlooked(text, i) == text[i].role \in {"value", "extern type"} \/ atom_span(text, i) # i

(* Somewhere the declaration, or what is inside of it, goes by a path or by
   another name, or is overlooked. *)
Roundabout(c, name) ==
  \E k \in DOMAIN c.units : \E i \in DOMAIN c.units[k].text :
    LET word == c.units[k].text[i] IN
    /\ name # <<>> /\ IsPrefix(name, Mentioning(c, k, i))
    /\ Len(word.says) > 1 \/ word.alias # Last(word.says) \/ Overlooked(c.units[k].text, i)

(* A word is for another declaration, or for none, and nobody says so: but for a
   pattern that came to bind, and `main`, which means the entry's in a file that
   has none of its own. *)
Misled(c, after, k, i) ==
  LET word == c.units[k].text[i]
      becomes == after.units[k].text[i]
  IN
  /\ c.whose[<<k, i>>] # {} /\ after.whose[<<k, i>>] # c.whose[<<k, i>>]
  /\ ~Refused(after, k, i)
  /\ ~(word.bare /\ becomes.role = "binding")
  /\ ~(word.role = "value" /\ becomes.says = <<"main">> /\ Mentioning(after, k, i) = <<"main">>)

Keeps(c, after, name) ==
  \A k \in DOMAIN c.units : \A i \in DOMAIN c.units[k].text :
    /\ ~Misled(c, after, k, i)
    /\ Refused(after, k, i) => Refused(c, k, i) \/ Roundabout(c, name)

Told(c) == [whose |-> Whose(c)] @@ c

(* In a package that links, the answers that are right at each of its words: the
   places a rename writes over, if what comes of it keeps the program, and the
   definition, if there is one to be given. *)
KeepingIn(p, files, c) ==
  LET space == [package |-> p, files |-> files]
      words == UNION {{<<k, i>> : i \in DOMAIN c.units[k].text} : k \in DOMAIN c.units}
      file(w) == c.units[w[1]].path
      defining(w) == {Place(file(d), c.units[d[1]].text, d[2]) : d \in c.whose[w]}
      asked == Table([w \in words |-> ReferencesIn(space, file(w), files[file(w)], Start(c.units[w[1]].text, w[2]), Built[p][files])])
      after == Table([places \in Range(asked) |-> Told(CompiledOf(UnitsOf(InputOf(p, Edited(p, files, places)))))])
  IN {<<file(w), w[2], asked[w], defining(w)>> : w \in {v \in words : Keeps(c, after[asked[v]], Mentioning(c, v[1], v[2]))}}
Linked_(built) == Says(built, {"typing", "deprecated", "no main", "private or does not exist"})
Keeping ==
  Table([p \in DOMAIN Package |->
           Table([files \in {g \in Contents(p) : Linked_(Built[p][g])} |-> KeepingIn(p, files, Told(Compilation[p][files]))])])

(* What is answered at a word is among that. *)
RightAt(f, position, i, right) ==
  \E r \in right : /\ r[1] = f /\ r[2] = i /\ r[3] = rename(f, position)
                    /\ definition(f, position) \in {{}, r[4]}

(* A rename asked for at any word of an open file of a package that links does not
   make a different program of it in silence: every word of every file of the
   package, and of what it depends on, is still for the declaration or the binding
   it was for, or the compiler refuses it; except that a pattern may come to bind,
   and a `main` that is no longer there become the entry's.  And no word is refused
   that was not before, but where the declaration goes by a path or by another name
   somewhere, or the editor overlooks where it is mentioned.  The definition that is
   given for a word is the compiler's. *)
RenameKeepsTheProgram ==
  workspace # None /\ Linked_(Index) =>
    \A f \in SourceFiles(workspace.package) : documents[f] # None =>
      \A i \in DOMAIN Content[documents[f].text] :
        RightAt(f, Position(Content[documents[f].text], i, 0), i, Keeping[workspace.package][workspace.files])

(* In a package that links, a label that is offered in an open file, and stands
   for a declaration, may be written there, and means that declaration to the
   compiler: its own, one it took under that name or one that is exported.  (A
   path through a module is offered as well where a declaration of the file has
   the name the path begins with, and means that one's.) *)
Hidden(unit, label) == Len(label) > 1 /\ Head(label) \in Declared(unit)
MeansThere(c, k, v) ==
  /\ resolve(c.exports, c.taken[k], c.units[k], v[1]) = v[2]
  /\ ~Private(c.exports, c.taken[k], c.units[k], v[1])
AllOfferedRight(c) ==
  \A k \in DOMAIN c.units : documents[c.units[k].path] # None =>
    \A v \in completion(c.units[k].path, Position(c.units[k].text, 1, 0)).offered :
      Hidden(c.units[k], v[1]) \/ MeansThere(c, k, v)
OffersWhatTheCompilerTakes ==
  workspace # None /\ Linked_(Index) => AllOfferedRight(Compilation[workspace.package][workspace.files])
=============================================================================
