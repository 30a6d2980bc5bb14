------------------------------- MODULE Assembler -------------------------------
(***************************************************************************)
(* From what a generator emits to a laid-out object (asm.rs), the file it is *)
(* written to (elf.rs), and what the system linker makes of that file.       *)
(* Offsets count bytes; an instruction without a fixup has a width of its    *)
(* machine, and a text is one character and the zero after it.               *)
(***************************************************************************)
EXTENDS Lowering

(* The sections every object has; each function's own come after them. *)
TEXT      == 1
RODATA    == 2
GNU_STACK == 3
holds_data(assembly, section) == assembly.sections[section] # "nothing"

(* A symbol's items, where they are put one after the other. *)
Part(section, symbol, items) == [section |-> section, symbol |-> symbol, items |-> items]
Bytes == Inst("bytes", "", None_, None_, None_)

(* The texts of a module, each once, in the order it names them. *)
collect_strings(module, functions) ==
  LET named == Each(functions, LAMBDA f : Each(module.functions[functions[f]].blocks, LAMBDA b :
                 SelectSeq(module.functions[functions[f]].blocks[b].code, LAMBDA i : i.op = "text")))
      first == SelectSeq(Numbers(named), LAMBDA k : \A j \in 1 .. k - 1 : named[j].n # named[k].n)
  IN [k \in DOMAIN first |-> named[first[k]].n]

(* The stops a module's arithmetic can reach. *)
used_traps(module, functions) == UNION {trap_usage(module.functions[f]) : f \in Range(functions)}

(* The section of the k-th function. *)
text_for(k) == Len(<<TEXT, RODATA, GNU_STACK>>) + k

(* The stream: what a program reads, its functions, each in a section that the
   linker can leave out, and the code they share. *)
Stream(module, code) ==
  LET functions == SelectSeq(Numbers(module.functions), LAMBDA f : f \notin module.externs)
      stops     == SelectSeq(Traps, LAMBDA t : t \in used_traps(module, functions))
      strings   == collect_strings(module, functions)
      glue(S, symbols) == FoldSet(LAMBDA s, parts : parts \o <<Part(TEXT, Helper(2, s), code[Helper(2, s)]),
                                                              Part(TEXT, Helper(1, s), code[Helper(1, s)])>>, symbols, S)
  IN [sections |-> <<"text", "rodata", "nothing">> \o [k \in DOMAIN functions |-> "text"],
      parts |-> [k \in DOMAIN stops |-> Part(RODATA, Message(stops[k]), <<Bytes>>)]
                \o [k \in DOMAIN strings |-> Part(RODATA, Text_(strings[k]), <<Bytes>>)]
                \o [k \in DOMAIN functions |-> Part(text_for(k), Code(functions[k]), code[Code(functions[k])])]
                \o glue(DOMAIN module.enums, glue(DOMAIN module.structs, <<>>))
                \o <<Part(TEXT, Start, code[Start])>>]

-----------------------------------------------------------------------------
(* Instructions as bytes *)

IsSymbol(a) == a.k = "value" /\ a.v.k \in {"code", "helper", "runtime", "datum"}
Refers(i) == i.op = "jump" \/ (i.op \in {"call", "mov"} /\ IsSymbol(i.a))

Width(i, arm) ==
  CASE i.op \in {"label", "numeric"} -> 0
    [] i.op = "bytes" -> 2
    [] arm -> IF Refers(i) /\ i.op = "mov" THEN 8 ELSE 4
    [] ~Refers(i) -> 3
    [] i.op = "jump" -> IF i.x = "always" THEN 5 ELSE 6
    [] i.op = "call" -> 5
    [] i.op = "mov"  -> 7

(* What a fixup refers to: a numeric label ahead, a label of its own function
   or of the data, or a symbol. *)
Target(k, symbol, n) == [k |-> k, symbol |-> symbol, n |-> n]
is_local(target) == target.k # "symbol"
TargetOf(i, symbol) ==
  CASE i.to.k = "forward"   -> Target("forward", symbol, i.to.n)
    [] i.to.k = "label"     -> Target("label", symbol, i.to.n)
    [] i.a.v.k = "datum"    -> Target("data", i.a.v, 0)
    [] OTHER                -> Target("symbol", i.a.v, 0)

Fixup(offset, kind, target, addend) == [offset |-> offset, kind |-> kind, target |-> target, addend |-> addend]

(* Mutant of encode: the field is measured from itself. *)
MutantNoAddend(i, symbol, at, arm) ==
  LET target == TargetOf(i, symbol)
      field(kind) == Fixup(IF arm THEN at ELSE at + Width(i, arm) - 4, kind, target, 0)
  IN CASE ~Refers(i) -> <<>>
       [] ~arm -> <<field(IF i.op = "call" THEN "Plt32" ELSE "Pc32")>>
       [] i.op = "mov"  -> <<field("AdrPage21"), Fixup(at + 4, "AddLo12", target, 0)>>
       [] i.op = "call" -> <<field("Call26")>>
       [] OTHER -> <<field(IF i.x = "always" THEN "Jump26" ELSE "CondBr19")>>

(* The fixups of an instruction that begins at an offset: the field of an x86
   instruction is its last four bytes, and counts from their end. *)
encode(i, symbol, at, arm) ==
  LET target == TargetOf(i, symbol)
      last(kind) == Fixup(at + Width(i, arm) - 4, kind, target, -4)
      first(kind) == Fixup(at, kind, target, 0)
  IN CASE ~Refers(i) -> <<>>
       [] ~arm -> <<last(IF i.op = "call" THEN "Plt32" ELSE "Pc32")>>
       [] i.op = "mov"  -> <<first("AdrPage21"), Fixup(at + 4, "AddLo12", target, 0)>>
       [] i.op = "call" -> <<first("Call26")>>
       [] OTHER -> <<first(IF i.x = "always" THEN "Jump26" ELSE "CondBr19")>>

-----------------------------------------------------------------------------
(* Layout: every part behind the one before it in its section. *)

(* Where each item begins, counted from `start`, and where the last one ends. *)
Offsets(items, start, arm) ==
  Fold(LAMBDA s, i : Append(s, Last(s) + Width(i, arm)), <<start>>, items)

run(assembly, arm) ==
  LET parts == assembly.parts
      upto[p \in 0 .. Len(parts)] ==
        IF p = 0 THEN [at |-> <<>>, end |-> [s \in DOMAIN assembly.sections |-> 0]]
        ELSE LET L == upto[p - 1]
                 here == Offsets(parts[p].items, L.end[parts[p].section], arm)
             IN [at |-> Append(L.at, here), end |-> [L.end EXCEPT ![parts[p].section] = Last(here)]]
      fixups(at) ==
        Mapped(assembly.sections, LAMBDA s :
          Each(parts, LAMBDA p :
            IF parts[p].section # s THEN <<>>
            ELSE Each(parts[p].items, LAMBDA k : encode(parts[p].items[k], parts[p].symbol, at[p][k], arm))))
      laid(at) == [sections |-> assembly.sections, parts |-> parts, at |-> at, fixups |-> fixups(at)]
  IN laid(upto[Len(parts)].at)

(* Mutant of Ahead: any numeric label, before the reference too. *)
MutantBehind(object, here, n, offset) ==
  UNION {{object.at[p][k] : k \in {j \in DOMAIN object.parts[p].items : object.parts[p].items[j] = Numeric(n)}}
           : p \in {q \in DOMAIN object.parts : object.parts[q].section = here}}

(* The numeric labels of a section behind a reference. *)
Ahead(object, here, n, offset) ==
  UNION {{object.at[p][k] : k \in {j \in DOMAIN object.parts[p].items :
                                     object.parts[p].items[j] = Numeric(n) /\ object.at[p][j] > offset}}
           : p \in {q \in DOMAIN object.parts : object.parts[q].section = here}}

(* Where a target is, unless this object does not know. *)
Nowhere == [section |-> 0, offset |-> 0]
place(object, here, fixup) ==
  LET target == fixup.target
      ahead == Ahead(object, here, target.n, fixup.offset)
      its == {p \in DOMAIN object.parts : object.parts[p].symbol = target.symbol}
      item(p) == IF target.k = "label" THEN {k \in DOMAIN object.parts[p].items : object.parts[p].items[k] = At_(target.n)} ELSE {1}
      found(p) == IF item(p) = {} THEN Nowhere
                  ELSE [section |-> object.parts[p].section, offset |-> object.at[p][CHOOSE k \in item(p) : TRUE]]
  IN IF target.k = "forward"
     THEN IF ahead = {} THEN Nowhere ELSE [section |-> here, offset |-> Min(ahead)]
     ELSE IF its = {} THEN Nowhere ELSE found(CHOOSE p \in its : TRUE)

(* A distance inside one section is known here; a page, or the low bits of an
   address, is not, and a call is left to the linker where the kind says so. *)
resolvable_in_place(kind) == kind \in {"Pc32", "Call26", "Jump26", "CondBr19"}

(* A branch counts instructions, and its field has so many bits. *)
word_displacement(value, bits) ==
  value % 4 = 0 /\ -(2 ^ (bits + 1)) <= value /\ value < 2 ^ (bits + 1)
patch(kind, value) ==
  CASE kind \in {"Call26", "Jump26"} -> word_displacement(value, 26)
    [] kind = "CondBr19"             -> word_displacement(value, 19)
    [] OTHER                         -> kind \in {"Pc32", "Plt32"}

Resolution(how, fixup, against, value) ==
  [how |-> how, offset |-> fixup.offset, kind |-> fixup.kind, against |-> against, value |-> value]

(* Mutant of Resolved: whatever has a place here is resolved here. *)
MutantAcrossSections(here, fixup, there) ==
  LET distance == there.offset + fixup.addend - fixup.offset IN
  CASE there # Nowhere /\ is_local(fixup.target) /\ resolvable_in_place(fixup.kind) -> Resolution("patch", fixup, 0, distance)
    [] there # Nowhere /\ is_local(fixup.target) /\ ~resolvable_in_place(fixup.kind) ->
         Resolution("section", fixup, there.section, fixup.addend + there.offset)
    [] OTHER -> Resolution("symbol", fixup, fixup.target.symbol, fixup.addend)

(* What becomes of a fixup of the section `here` whose target is `there`: the
   field's value, or what the linker is asked for. *)
Resolved(here, fixup, there) ==
  LET distance == there.offset + fixup.addend - fixup.offset
      inside == there # Nowhere /\ is_local(fixup.target)
  IN CASE inside /\ there.section = here /\ resolvable_in_place(fixup.kind) ->
            Resolution(IF patch(fixup.kind, distance) THEN "patch" ELSE "error", fixup, 0, distance)
       [] inside /\ ~(there.section = here /\ resolvable_in_place(fixup.kind)) ->
            Resolution("section", fixup, there.section, fixup.addend + there.offset)
       [] is_local(fixup.target) /\ there = Nowhere -> Resolution("error", fixup, 0, 0)
       [] OTHER -> Resolution("symbol", fixup, fixup.target.symbol, fixup.addend)

(* Symbols are what the parts define, in their order, and then what references
   name besides, in theirs. *)
resolve(object) ==
  LET resolved == Mapped(object.sections, LAMBDA s :
                    Mapped(object.fixups[s], LAMBDA k :
                      Resolved(s, object.fixups[s][k], place(object, s, object.fixups[s][k]))))
      defined == SelectSeq(Numbers(object.parts), LAMBDA p : object.parts[p].section # RODATA)
      symbol(p) == [name |-> object.parts[p].symbol, section |-> object.parts[p].section, offset |-> object.at[p][1]]
      symbol_index(symbols, r) ==
        IF r.how # "symbol" \/ \E k \in DOMAIN symbols : symbols[k].name = r.against THEN symbols
        ELSE Append(symbols, [name |-> r.against, section |-> 0, offset |-> 0])
      symbols == Fold(symbol_index, [k \in DOMAIN defined |-> symbol(defined[k])],
                      Each(resolved, LAMBDA s : resolved[s]))
      laid(of, rs) ==
        [sections |-> object.sections, parts |-> object.parts, at |-> object.at, symbols |-> of, resolved |-> rs]
  IN laid(symbols, resolved)

-----------------------------------------------------------------------------
(* The file *)

(* The relocation types of the two machines. *)
relocation(kind, arm) ==
  CASE ~arm /\ kind = "Pc32"     -> 2
    [] ~arm /\ kind = "Plt32"    -> 4
    [] arm /\ kind = "AdrPage21" -> 275
    [] arm /\ kind = "AddLo12"   -> 277
    [] arm /\ kind = "CondBr19"  -> 280
    [] arm /\ kind = "Jump26"    -> 282
    [] arm /\ kind = "Call26"    -> 283
    [] OTHER -> 0

Section(kind, link, info, body) == [kind |-> kind, link |-> link, info |-> info, body |-> body]
SymbolEntry(name, global, section, value) == [name |-> name, global |-> global, section |-> section, value |-> value]

(* Mutant of symbol_number: the symbols of the sections are forgotten. *)
MutantNotRenumbered(object, symbol) == CHOOSE k \in DOMAIN object.symbols : object.symbols[k].name = symbol

(* The symbol table opens with a null entry and one for each section; entries
   are counted from zero. *)
symbol_number(object, symbol) ==
  Len(object.sections) + CHOOSE k \in DOMAIN object.symbols : object.symbols[k].name = symbol
section_number(section) == section
SymbolTable(object) ==
  <<SymbolEntry(0, FALSE, 0, 0)>>
  \o [s \in DOMAIN object.sections |-> SymbolEntry(0, FALSE, s, 0)]
  \o [k \in DOMAIN object.symbols |-> SymbolEntry(k, TRUE, object.symbols[k].section, object.symbols[k].offset)]
StringTable(object) == [k \in DOMAIN object.symbols |-> object.symbols[k].name]

Relocations(object, section, arm) ==
  LET asked == SelectSeq(object.resolved[section], LAMBDA r : r.how \in {"section", "symbol"})
      number(r) == IF r.how = "symbol" THEN symbol_number(object, r.against) ELSE section_number(r.against)
  IN Mapped(asked, LAMBDA k : [offset |-> asked[k].offset, type |-> relocation(asked[k].kind, arm),
                               symbol |-> number(asked[k]), addend |-> asked[k].value])

(* A section's number is its place among the file's; those with relocations
   come last, and name the section they are for and the table they count in. *)
write(object, arm) ==
  LET n == Len(object.sections)
      data == Mapped(object.sections, LAMBDA s :
                Section("progbits", 0, 0, SelectSeq(object.resolved[s], LAMBDA r : r.how = "patch")))
      patched == SelectSeq(Mapped(object.sections, LAMBDA s : Section("rela", n + 1, s, Relocations(object, s, arm))),
                           LAMBDA x : x.body # <<>>)
  IN data \o <<Section("symtab", n + 2, n + 1, SymbolTable(object)), Section("strtab", 0, 0, StringTable(object))>> \o patched

(* Nothing unresolvable, no kind the machine has no type for, and nothing asked
   of a section that holds nothing. *)
Writes(object, arm) ==
  \A s \in DOMAIN object.sections : \A r \in Range(object.resolved[s]) :
    /\ r.how # "error"
    /\ r.how \in {"section", "symbol"} => relocation(r.kind, arm) # 0
    /\ r.how = "section" => holds_data(object, r.against)

-----------------------------------------------------------------------------
(* The system linker: it gives each section of a file, and each symbol the file
   does not define, an address, and fills the fields it is asked to. *)

Page == 4096
Room == 2 * Page + 64  \* bound: the bytes of a section

(* A table of symbols has its local ones first. *)
WellFormed(file) ==
  \A table \in {x \in Range(file) : x.kind = "symtab"} :
    \A k \in DOMAIN table.body : table.body[k].global <=> k > table.info

(* The values of the fields of a section. *)
Fields(file, section, arm) ==
  LET base(s) == s * Room
      own == file[section].body
      rela == SelectSeq(file, LAMBDA x : x.kind = "rela" /\ x.info = section)
      table == file[rela[1].link]
      asked == IF rela = <<>> THEN <<>> ELSE rela[1].body
      address(r) == LET e == table.body[r.symbol + 1] IN
                      r.addend + IF e.section # 0 THEN base(e.section) + e.value ELSE base(Len(file) + e.name)
      filled(r, S) ==
        LET P == base(section) + r.offset IN
        CASE r.type = 275 -> (S \div Page) * Page - (P \div Page) * Page
          [] r.type = 277 -> S % Page
          [] OTHER        -> S - P
      known == {r.offset : r \in Range(own)}
      linked == {r.offset : r \in Range(asked)}
  IN [o \in known |-> (CHOOSE r \in Range(own) : r.offset = o).value]
     @@ [o \in linked |-> LET r == CHOOSE x \in Range(asked) : x.offset = o IN filled(r, address(r))]

(* What is at an address: an item of a part, or a symbol of another object. *)
Landing(object, file, address) ==
  LET s == address \div Room
      o == address % Room
      names == file[file[Len(object.sections) + 1].link].body
      parts == {p \in DOMAIN object.parts : object.parts[p].section = s /\ object.at[p][1] <= o /\ o < Last(object.at[p])}
      items(p) == {k \in DOMAIN object.parts[p].items : object.at[p][k] = o}
  IN IF s > Len(file) THEN IF o = 0 /\ s - Len(file) \in DOMAIN names THEN Place(names[s - Len(file)], 1) ELSE None_
     ELSE IF parts = {} THEN None_
     ELSE LET p == CHOOSE q \in parts : TRUE
          IN IF items(p) = {} THEN None_ ELSE Place(object.parts[p].symbol, Min(items(p)))

(* The code as the machine finds it: every reference is to where its field
   leads. *)
Decoded(object, file, fields, arm) ==
  LET leads(p, k) ==
        LET i == object.parts[p].items[k]
            s == object.parts[p].section
            at == object.at[p][k]
            field(o) == fields[s][o]
        IN s * Room + (IF ~arm THEN at + Width(i, arm) ELSE at)
           + (IF ~arm THEN field(at + Width(i, arm) - 4)
              ELSE IF i.op = "mov" THEN ((s * Room + at) \div Page) * Page - (s * Room + at) + field(at) + field(at + 4)
              ELSE field(at))
      code == {object.parts[p].symbol : p \in {q \in DOMAIN object.parts : object.parts[q].section # RODATA}}
      decoded(i, where) ==
        CASE i.op = "jump" /\ where.v \in code -> [i EXCEPT !.to = where]
          [] i.op # "jump" /\ where.n = 1       -> [i EXCEPT !.a = Symbol(where.v)]
          [] OTHER -> Ud
      part(symbol) == CHOOSE p \in DOMAIN object.parts : object.parts[p].symbol = symbol
      found(p) == Mapped(object.parts[p].items, LAMBDA k :
                    LET i == object.parts[p].items[k] IN
                    IF ~Refers(i) THEN i ELSE decoded(i, Landing(object, file, leads(p, k))))
  IN (Start :> found(part(Start))) @@ [symbol \in code |-> found(part(symbol))]

(* An object's file, linked; no program, where it is not written. *)
Linked(object, file, arm) ==
  IF Writes(object, arm) /\ WellFormed(file)
  THEN Decoded(object, file, Mapped(object.sections, LAMBDA s : Fields(file, s, arm)), arm)
  ELSE (Start :> <<Ud>>)
Written(object, arm) == Linked(object, write(object, arm), arm)
Assembled(module, code, arm) == Written(resolve(run(Stream(module, code), arm)), arm)
=============================================================================
