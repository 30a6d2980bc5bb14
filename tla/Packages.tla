------------------------------- MODULE Packages -------------------------------
(***************************************************************************)
(* What a compilation makes of the files of a package and of what it depends *)
(* on (package.rs): whose declaration every name of every file is, and where *)
(* what is wrong is reported.                                                *)
(*                                                                           *)
(* A text is a sequence of words.  A word has a `role`; it `says` a path, a  *)
(* sequence of segments with a `:` between them; it belongs to the top-level *)
(* form number `form`; and it takes some `bytes`.  The word that says a      *)
(* form's name has the form's kind for its role.  The expression or type the *)
(* tree keeps for a word begins `back` words before it.  `mark` is what there *)
(* is to say of it besides names, `deep` what it is inside of: a defer or a  *)
(* composition.  A pattern that is `bare` is a path and nothing else.         *)
(***************************************************************************)
EXTENDS Integers, Sequences, SequencesExt, FiniteSets, TLC
LOCAL INSTANCE Relation

CONSTANTS
  builtins,    \* names that belong to the language
  Malformed    \* segments that are no name: a file called `a.b.slp`

Kinds     == {"function", "struct", "enum", "extern", "const"}
Callables == {"function", "extern"}
Types_    == {"type", "extern type"}

(* The same function, with all its values worked out. *)
Table(f) == f @@ <<>>

OfRole(text, roles) == {i \in DOMAIN text : text[i].role \in roles}

-----------------------------------------------------------------------------
(* Places: a span is where a word, or a form, starts and ends. *)

Start(text, i) ==
  LET start[n \in 1 .. i] == IF n = 1 THEN 0 ELSE start[n - 1] + text[n - 1].bytes IN start[i]
size(text) == Start(text, Len(text) + 1)
span(text, i) == [start |-> Start(text, i - text[i].back), end |-> Start(text, i) + text[i].bytes]
Default == [start |-> 0, end |-> 0]

(* Mutant of source_bases: nothing lies between two files. *)
MutantAdjoining(files) ==
  LET base[k \in DOMAIN files] == IF k = 1 THEN 0 ELSE base[k - 1] + size(files[k - 1].text) IN base

(* Files lie one behind the other, a byte apart. *)
source_bases(files) ==
  LET base[k \in DOMAIN files] == IF k = 1 THEN 0 ELSE base[k - 1] + size(files[k - 1].text) + 1 IN base

Diagnostic(file, at, severity, what) == [file |-> file, at |-> at, severity |-> severity, what |-> what]
Error(unit, i, what) == Diagnostic(unit.path, span(unit.text, i), "error", what)
Amiss(path, what) == Diagnostic(path, Default, "error", what)

-----------------------------------------------------------------------------
(* Units: files that could be read, [path, module, namespace, text], where they
   lie. *)

full_module(file) == file.namespace \o file.module
valid_module_name(module) == Range(module) \cap Malformed = {}

Repeats(files, k) == \E j \in 1 .. k - 1 : full_module(files[j]) = full_module(files[k]) /\ valid_module_name(full_module(files[k]))

(* What reading the files one by one has to complain of: where they stop to be
   text, and files that are the same module, or none. *)
Unread(input) ==
  LET files == input.files IN
  UNION {LET file == files[k] IN
         IF ~valid_module_name(full_module(file)) THEN {Amiss(file.path, "invalid module")}
         ELSE IF Repeats(files, k) THEN {Amiss(file.path, "more than one file")}
         ELSE {Error(file, i, "syntax") : i \in {j \in DOMAIN file.text : file.text[j].mark = "syntax"}} : k \in DOMAIN files}
  \cup IF \E file \in Range(files) : full_module(file) = input.entry /\ valid_module_name(input.entry) THEN {}
       ELSE {Amiss(input.name, "no entry module")}

Unit(input, k) ==
  LET file == input.files[k] IN
  [path |-> file.path, namespace |-> file.namespace, module |-> full_module(file), text |-> file.text,
   isEntry |-> full_module(file) = input.entry, base |-> source_bases(input.files)[k]]

-----------------------------------------------------------------------------
(* Declarations *)

Canonical(unit, i) ==
  LET word == unit.text[i] IN
  IF unit.isEntry /\ word.says = <<"main">> /\ word.role = "function" THEN <<"main">> ELSE unit.module \o word.says

(* They are gone through kind by kind, and of two by one name the last is kept. *)
Rank(role) == CHOOSE n \in 1 .. 5 : <<"function", "struct", "enum", "extern", "const">>[n] = role
Before(text, i, j) ==
  IF text[i].role = text[j].role THEN i < j ELSE Rank(text[i].role) < Rank(text[j].role)

Declaring(unit, name) == {i \in OfRole(unit.text, Kinds) : unit.text[i].says = <<name>>}
Declared(unit) == {unit.text[i].says[1] : i \in OfRole(unit.text, Kinds)}
Declaration(unit, name) ==
  CHOOSE i \in Declaring(unit, name) : \A j \in Declaring(unit, name) : ~Before(unit.text, i, j)
declarations(unit) == Table([name \in Declared(unit) |-> Canonical(unit, Declaration(unit, name))])

collect_declarations(unit) ==
  {Error(unit, i, "defined more than once") :
     i \in {j \in OfRole(unit.text, Kinds) : \E k \in Declaring(unit, unit.text[j].says[1]) : Before(unit.text, k, j)}}
  \cup {Error(unit, i, "is a builtin") : i \in {j \in OfRole(unit.text, {"extern"}) : unit.text[j].says[1] \in builtins}}

-----------------------------------------------------------------------------
(* Paths: the longest module a path goes through, and what comes after. *)

Modules(units) == {unit.module : unit \in Range(units)}
longest_module_prefix(modules, path) ==
  LET through == {m \in modules : Len(path) > Len(m) /\ IsPrefix(m, path)} IN
  IF through = {} THEN <<>> ELSE CHOOSE m \in through : \A n \in through : Len(n) <= Len(m)

path_for_unit(modules, unit, path) ==
  IF longest_module_prefix(modules, path) = <<>> /\ unit.namespace # <<>>
     /\ longest_module_prefix(modules, unit.namespace \o path) # <<>>
  THEN unit.namespace \o path ELSE path
module_path_for_unit(modules, unit, path) ==
  IF path \notin modules /\ unit.namespace \o path \in modules THEN unit.namespace \o path ELSE path

(* What a path means by way of the exports of a module; <<>>, nothing. *)
resolve_public_path(exports, path) ==
  LET module == longest_module_prefix(DOMAIN exports, path)
      rest   == SubSeq(path, Len(module) + 1, Len(path))
  IN IF module = <<>> \/ Head(rest) \notin DOMAIN exports[module] THEN <<>>
     ELSE exports[module][Head(rest)] \o Tail(rest)

-----------------------------------------------------------------------------
(* Who depends on whom *)

(* Names with a `:` in types, calls and patterns; a defer is not looked into,
   and neither is a name that is a value. *)
collect_qualified_names(unit) ==
  {unit.text[i].says : i \in {j \in OfRole(unit.text, Types_ \cup {"call", "pattern"}) :
                                unit.text[j].deep # "defer" /\ (Len(unit.text[j].says) > 1 \/ unit.text[j].role = "pattern")}}

dependency_edges(units) ==
  LET modules == Modules(units)
      target(unit, path) == longest_module_prefix(modules, path_for_unit(modules, unit, path))
      named(unit) == {target(unit, path) : path \in collect_qualified_names(unit)
                                                   \cup {unit.text[i].says : i \in OfRole(unit.text, {"export"})}}
      taken(unit) == {module_path_for_unit(modules, unit, unit.text[i].from) : i \in OfRole(unit.text, {"take"})}
  IN UNION {{<<unit.module, m>> : m \in (named(unit) \ {unit.module, <<>>}) \cup (taken(unit) \cap modules)} : unit \in Range(units)}

(* One is reported: at the first module that leads to one. *)
reject_cycles(units) ==
  LET edges  == dependency_edges(units)
      leads  == TransitiveClosure([m, n \in Modules(units) |-> <<m, n>> \in edges], Modules(units))
      astray == {k \in DOMAIN units : \E m \in Modules(units) : leads[m, m] /\ (m = units[k].module \/ leads[units[k].module, m])}
  IN {Amiss(units[k].path, "cycle") : k \in {j \in astray : \A n \in astray : j <= n}}

-----------------------------------------------------------------------------
(* Exports and imports *)

IsLocal(unit, path) == Len(path) = 1 \/ path[1] \in Declared(unit)
LocalPath(unit, path) == IF path[1] \in Declared(unit) THEN declarations(unit)[path[1]] \o Tail(path) ELSE <<>>

(* What an exported path means when so much is known of everyone's exports. *)
Exported(exports, unit, path) ==
  IF IsLocal(unit, path) THEN LocalPath(unit, path)
  ELSE resolve_public_path(exports, path_for_unit(DOMAIN exports, unit, path))

(* Of several words for one alias the last is kept. *)
LastFor(text, items, alias) ==
  CHOOSE i \in items : text[i].alias = alias /\ \A j \in items : text[j].alias = alias => j <= i

ExportTable(exports, unit) ==
  LET items == {i \in OfRole(unit.text, {"export"}) : Exported(exports, unit, unit.text[i].says) # <<>>}
  IN Table([alias \in {unit.text[i].alias : i \in items} |->
              Exported(exports, unit, unit.text[LastFor(unit.text, items, alias)].says)])

(* Re-exports are followed round after round until nothing more is found. *)
Exports(units) ==
  LET of(m) == CHOOSE unit \in Range(units) : unit.module = m
      most  == Cardinality(UNION {{k} \X OfRole(units[k].text, {"export"}) : k \in DOMAIN units})
      rounds[n \in 0 .. most] ==
        IF n = 0 THEN [m \in Modules(units) |-> <<>>]
        ELSE LET before == rounds[n - 1] IN Table([m \in Modules(units) |-> ExportTable(before, of(m))])
  IN rounds[most]

resolve_exports(exports, unit) ==
  LET items == OfRole(unit.text, {"export"})
      found(i) == Exported(exports, unit, unit.text[i].says) # <<>>
  IN {Error(unit, i, "cannot export") : i \in {j \in items : ~found(j)}}
     \cup {Error(unit, i, "exported more than once") :
             i \in {j \in items : found(j) /\ \E k \in items : k < j /\ found(k) /\ unit.text[k].alias = unit.text[j].alias}}

Imported(exports, unit, i) ==
  LET module == module_path_for_unit(DOMAIN exports, unit, unit.text[i].from) IN
  IF module \in DOMAIN exports THEN resolve_public_path(exports, module \o unit.text[i].says) ELSE <<>>

imports(exports, unit) ==
  LET items == {i \in OfRole(unit.text, {"take"}) : Imported(exports, unit, i) # <<>> /\ unit.text[i].alias \notin Declared(unit)}
  IN Table([alias \in {unit.text[i].alias : i \in items} |-> Imported(exports, unit, LastFor(unit.text, items, alias))])

resolve_imports(exports, unit) ==
  LET items == OfRole(unit.text, {"take"})
      known(i) == module_path_for_unit(DOMAIN exports, unit, unit.text[i].from) \in DOMAIN exports
      found(i) == Imported(exports, unit, i) # <<>>
      alias(i) == unit.text[i].alias
      first(i) == \A j \in items : unit.text[j].form = unit.text[i].form => i <= j
  IN {Error(unit, i, IF known(i) THEN "private" ELSE "unknown module") :
        i \in {j \in items : ~found(j) /\ (known(j) \/ first(j))}}
     \cup {Error(unit, i, "collides") :
             i \in {j \in items : found(j) /\ (alias(j) \in Declared(unit) \/ \E k \in items : k < j /\ found(k) /\ alias(k) = alias(j))}}

-----------------------------------------------------------------------------
(* What names mean *)

(* What is found under a name: <<>>, nothing. *)
Found(exports, taken, unit, name) ==
  LET head == Head(name)
      own  == path_for_unit(DOMAIN exports, unit, name)
  IN IF head \in Declared(unit) THEN declarations(unit)[head] \o Tail(name)
     ELSE IF head \in DOMAIN taken THEN taken[head] \o Tail(name)
     ELSE IF resolve_public_path(exports, name) # <<>> THEN resolve_public_path(exports, name)
     ELSE resolve_public_path(exports, own)
OrItself(found, name) == IF found = <<>> THEN name ELSE found
resolve(exports, taken, unit, name) == OrItself(Found(exports, taken, unit, name), name)

(* Names of values are given a meaning as well, but in silence: they may be
   those of locals. *)
Meant(unit, i) ==
  LET word == unit.text[i] IN
  \/ word.role \in Types_ \cup {"pattern", "value"}
  \/ word.role = "call" /\ word.says[1] \notin builtins
meaning(exports, taken, unit) ==
  Table([i \in {j \in DOMAIN unit.text : Meant(unit, j)} |-> resolve(exports, taken, unit, unit.text[i].says)])

(* A name that means nothing, though it goes through a module. *)
Private(exports, taken, unit, name) ==
  /\ Found(exports, taken, unit, name) = <<>>
  /\ longest_module_prefix(DOMAIN exports, name) # <<>>
rewrite_program(exports, taken, unit) ==
  {Error(unit, i, "private or does not exist") :
     i \in {j \in DOMAIN unit.text : /\ Meant(unit, j) /\ unit.text[j].role # "value"
                                    /\ Private(exports, taken, unit, unit.text[j].says)}}

-----------------------------------------------------------------------------
(* Typing, of which there are the names and the marks (sema.rs).  Spans are
   those of the merged program. *)

shift_program(unit, i) ==
  LET at == span(unit.text, i) IN
  IF unit.text[i].deep # "" THEN at ELSE [start |-> at.start + unit.base, end |-> at.end + unit.base]

Canonicals(units, kinds) == UNION {{Canonical(unit, i) : i \in OfRole(unit.text, kinds)} : unit \in Range(units)}
TopOf(text, i) == CHOOSE j \in OfRole(text, Kinds) : text[j].form = text[i].form
Variants(units) ==
  UNION {{Canonical(unit, TopOf(unit.text, i)) \o unit.text[i].says : i \in OfRole(unit.text, {"variant"})} : unit \in Range(units)}

(* The functions a bare name reaches in each module; the entry module answers
   to no name. *)
visible_functions(units, taken) ==
  LET functions == Canonicals(units, Callables)
      names(k) == {name \in Declared(units[k]) : declarations(units[k])[name] \in functions}
                  \cup {alias \in DOMAIN taken[k] : taken[k][alias] \in functions}
  IN [key \in {IF unit.isEntry THEN <<>> ELSE unit.module : unit \in Range(units)} |->
        UNION {names(k) : k \in {j \in DOMAIN units : key = IF units[j].isEntry THEN <<>> ELSE units[j].module}}]

module_of(item) == IF Len(item) = 1 THEN <<>> ELSE <<Head(item)>>

refuse_function_shadow(units, functions, k, i) ==
  LET word == units[k].text[i]
      here == module_of(Canonical(units[k], TopOf(units[k].text, i)))
  IN /\ word.role = "fn binding"
     /\ \/ word.says \in Canonicals(units, Callables)
        \/ here \in DOMAIN functions /\ word.says[1] \in functions[here]

Unknown(units, role, name) ==
  name \notin CASE role = "call"    -> Canonicals(units, Callables \cup {"struct"}) \cup Variants(units)
                [] role \in Types_ -> Canonicals(units, {"struct", "enum"})
                [] role = "value"   -> Canonicals(units, {"function", "const"})
                [] role = "pattern" -> Canonicals(units, {"struct"}) \cup Variants(units)

Wrong(units, means, functions, k, i) ==
  \/ units[k].text[i].mark = "error"
  \/ i \in DOMAIN means[k] /\ Unknown(units, units[k].text[i].role, means[k][i])
  \/ refuse_function_shadow(units, functions, k, i)

(* Everything wrong, of everyone; or what is worth a warning. *)
analyze_with_options(units, means, functions, needsMain, file) ==
  LET words  == UNION {{<<k, i>> : i \in DOMAIN units[k].text} : k \in DOMAIN units}
      wrong  == {w \in words : Wrong(units, means, functions, w[1], w[2])}
      at(w)  == shift_program(units[w[1]], w[2])
      errors == {Diagnostic(file, at(w), "error", "typing") : w \in wrong}
                \cup IF needsMain /\ <<"main">> \notin Canonicals(units, {"function"}) THEN {Amiss(file, "no main")} ELSE {}
  IN IF errors # {} THEN errors
     ELSE {Diagnostic(file, at(w), "warning", "deprecated") : w \in {v \in words : units[v[1]].text[v[2]].mark = "warning"}}

-----------------------------------------------------------------------------
(* Whose a span of the merged program is *)

owning_unit(units, at) ==
  {k \in DOMAIN units : at.start >= units[k].base /\ at.start <= units[k].base + size(units[k].text)}
OwnerOf(units, at) ==
  LET owners == owning_unit(units, at) IN IF owners = {} THEN units[1] ELSE units[CHOOSE k \in owners : \A j \in owners : k <= j]

Less(a, b) == IF a > b THEN a - b ELSE 0
remap_diagnostic(units, d) ==
  LET unit == OwnerOf(units, d.at) IN
  [d EXCEPT !.file = unit.path, !.at = [start |-> Less(d.at.start, unit.base), end |-> Less(d.at.end, unit.base)]]

(* A warning about a dependency is the dependency's business. *)
Reported(units, d) == d.severity = "error" \/ (owning_unit(units, d.at) # {} /\ OwnerOf(units, d.at).namespace = <<>>)

-----------------------------------------------------------------------------
(* The whole of it *)

summaries(units, exports, taken) ==
  [k \in DOMAIN units |->
     [path |-> units[k].path, module |-> units[k].module, declarations |-> declarations(units[k]),
      exports |-> exports[units[k].module], imports |-> taken[k]]]

(* Each stage stops at what it finds. *)
Stops(found, modules, onward) == IF found # {} THEN [diagnostics |-> found, modules |-> modules] ELSE onward

Typed(input, needsMain, units, exports, taken, modules) ==
  [diagnostics |-> {remap_diagnostic(units, d) :
                      d \in {e \in analyze_with_options(units, Table([k \in DOMAIN units |-> meaning(exports, taken[k], units[k])]),
                                                         visible_functions(units, taken), needsMain, input.name) : Reported(units, e)}},
   modules |-> modules]
Named(input, needsMain, units, exports, taken, modules) ==
  Stops(UNION {rewrite_program(exports, taken[k], units[k]) : k \in DOMAIN units}, modules,
        Typed(input, needsMain, units, exports, taken, modules))
Linked(input, needsMain, units, exports, taken, modules) ==
  Stops(UNION {collect_declarations(unit) \cup resolve_exports(exports, unit) \cup resolve_imports(exports, unit)
                 : unit \in Range(units)} \cup reject_cycles(units),
        modules, Named(input, needsMain, units, exports, taken, modules))
Imports(units, exports) == Table([k \in DOMAIN units |-> imports(exports, units[k])])
Summarized(input, needsMain, units, exports, taken) ==
  Linked(input, needsMain, units, exports, taken, summaries(units, exports, taken))
Importing(input, needsMain, units, exports) == Summarized(input, needsMain, units, exports, Imports(units, exports))
Exporting(input, needsMain, units) == Importing(input, needsMain, units, Exports(units))
UnitsOf(input) == Table([k \in DOMAIN input.files |-> Unit(input, k)])

(* input: [name, entry, files]. *)
analyze_package(input, needsMain) == Stops(Unread(input), <<>>, Exporting(input, needsMain, UnitsOf(input)))

-----------------------------------------------------------------------------
(* What an editor knows of one file by itself (analysis.rs): a program without
   modules, in which nothing is taken from anywhere.  Names are those of its own
   declarations, and of what is bound in a function. *)

Bindings == {"binding", "fn binding"}

Alone(path, text) ==
  [path |-> path, namespace |-> <<>>, module |-> <<>>, text |-> text, isEntry |-> FALSE, base |-> 0]

(* Functions share their names with externs and constants, structures with
   enumerations. *)
Share(role, other) == \E roles \in {{"function", "extern"}, {"function", "extern", "const"}, {"struct", "enum"}} :
                        role \in roles /\ other \in roles
Repeated(text) ==
  {i \in OfRole(text, Kinds) : \E j \in OfRole(text, Kinds) : text[j].says = text[i].says
                                 /\ Share(text[i].role, text[j].role) /\ Before(text, j, i)}

NoSymbols == [symbols |-> {}, occurrences |-> {}]

-----------------------------------------------------------------------------
(* The index.  A symbol is the word that defines it. *)

(* The first word of what the tree keeps for word i that is spelled like it. *)
atom_span(text, i) ==
  CHOOSE j \in i - text[i].back .. i : /\ text[j].says = text[i].says
                                       /\ \A k \in i - text[i].back .. j - 1 : text[k].says # text[i].says

(* `E:V` for a variant. *)
TopName(text, i) == IF text[i].role = "variant" THEN text[TopOf(text, i)].says \o text[i].says ELSE text[i].says
TopLevel(text) == OfRole(text, (Kinds \ {"extern"}) \cup {"variant"})

(* Of what is bound in a form under a name, the last before a use. *)
BoundFor(text, i) ==
  LET before == {j \in OfRole(text, Bindings) : j < i /\ text[j].form = text[i].form /\ text[j].says = text[i].says}
  IN {j \in before : \A k \in before : k <= j}

(* The symbol a word refers to, if there is one: a type is no reference. *)
References(text, i) ==
  IF text[i].role = "local" THEN BoundFor(text, i)
  ELSE IF text[i].role \in {"call", "value", "pattern"} THEN {j \in TopLevel(text) : TopName(text, j) = text[i].says}
  ELSE {}

index(text) ==
  LET symbols == TopLevel(text) \cup OfRole(text, Bindings) IN
  [symbols |-> symbols,
   occurrences |-> {[symbol |-> j, at |-> atom_span(text, j), is_definition |-> TRUE] : j \in symbols}
                   \cup UNION {{[symbol |-> j, at |-> atom_span(text, i), is_definition |-> FALSE] : j \in References(text, i)} :
                                 i \in DOMAIN text}]

(* Declarations come before what is bound in functions. *)
SymbolAt(analysis, text, i) ==
  LET here == {o.symbol : o \in {p \in analysis.occurrences : p.at = i}}
      top  == here \cap TopLevel(text)
      from == IF top # {} THEN top ELSE here
  IN {j \in from : \A k \in from : j <= k}
symbol_at(analysis, text, offset) ==
  UNION {SymbolAt(analysis, text, i) : i \in {j \in DOMAIN text : Start(text, j) <= offset /\ offset < Start(text, j) + text[j].bytes}}

occurrences_of(analysis, symbol) == {o \in analysis.occurrences : o.symbol = symbol}

(* A binding is there from where it is bound to the end of its function. *)
visible_symbols(analysis, text, offset) ==
  {i \in analysis.symbols :
     text[i].role \in Bindings =>
       /\ Start(text, i) <= offset
       /\ \E j \in DOMAIN text : text[j].form = text[i].form /\ offset <= Start(text, j) + text[j].bytes}

-----------------------------------------------------------------------------
(* A text that cannot be read or typed has no symbols at all. *)
analyze_source(path, text, needsMain) ==
  LET unit    == Alone(path, text)
      unread  == {Error(unit, i, "syntax") : i \in {j \in DOMAIN text : text[j].mark = "syntax"}}
      means   == [i \in {j \in DOMAIN text : Meant(unit, j)} |-> text[i].says]
      typing  == analyze_with_options(<<unit>>, <<means>>, <<>>, needsMain, path)
                 \cup {Error(unit, i, "defined more than once") : i \in Repeated(text)}
      failed  == \E d \in typing : d.severity = "error"
  IN IF unread # {} THEN [diagnostics |-> unread] @@ NoSymbols
     ELSE IF failed THEN [diagnostics |-> {d \in typing : d.severity = "error"}] @@ NoSymbols
     ELSE [diagnostics |-> typing] @@ index(text)
=============================================================================
