# Verification of Slopium

Slopium is an ahead-of-time compiled language with ownership and no garbage collector: a compiler
(`crates/slopic-core`, driven by `crates/slopic`), a project manager (`crates/slopium`) over a package layer
(`crates/slopium-manifest`), a language server (`crates/slopium-lsp`), a bundled standard library (`std/`) and a C
runtime (`runtime/`). This directory holds TLA+ models of the parts whose correctness depends on more than one step or
more than one actor, the TLC configurations that check them on small instances, and TLAPS proofs of what must hold for
every instance.

Check one run with `tlc -config <run>.cfg <module>.tla` and one proof with `tlapm <module>_proofs.tla`; `PROJECT.json`
lists the runs, the code each definition models, the mutants that show a property can fail, and the hazards.

## The system and its parts

| Part | State it keeps | Operations | Talks to | Correct when |
|---|---|---|---|---|
| Package store (`store.rs`) | archives, signatures and unpacked trees under `$SLOPIUM_HOME`, by digest | insert, file a signature, check out, unpack, place | every project on the machine, through the file system | a tree is whole or absent, nothing stored changes, nobody builds what they do not trust |
| Package sources (`sources.rs`, `git.rs`) | pins and fetched commits of one run | check out, verify a signature, pin a reference | store, registries, git | what is not stored is fetched, what is fetched is verified before it is used |
| Registry client (`registry.rs`) | memory of one run, cached index files | read an index, cache it | registries, other runs | offline is what online last said; one run hears one thing |
| Publishing (`slopium publish`) | archive, signature and index line in a directory | check, write three files | other publishers, clients | what is indexed can be served; a version is published once |
| Resolver (`resolve.rs`, `version.rs`) | choices, pending needs, candidates left | choose, backtrack, settle, merge members | sources, lock, manifests | an answer meets every need, is the newest, comes whenever there is one |
| Lockfile and sessions (`lock.rs`, `main.rs`) | `Slopium.lock` | load, resolve, write; `update` | resolver, other sessions | the lock is the answer, and moves only when asked |
| Manifests and workspaces (`manifest.rs`, `workspace.rs`) | `Slopium.toml` of every package | find a workspace, list members; `add`, `remove`, `new` | sessions | a command means the same packages wherever it runs; an edit says what was asked and nothing else |
| Build cache (`slopium build`) | objects, artifact, stamps | reuse or compile, link, stamp | editors, `slopic`, `cc` | what is called fresh is what a clean build gives |
| Ownership checking (`sema.rs`) | states of bindings, loans, open forms | one rule per expression | drop placement | an accepted body never uses or frees what is gone |
| Drop placement (`mir.rs`) | blocks, live bindings, scopes, loop targets | one lowering per expression | the checker's verdict; the optimizer | everything is dropped once on every path, every defer runs once |
| MIR verifier (`verify.rs`) | per-block sets of defined locals | one check per rule | every pass | refuses what the generators cannot be given, and nothing else |
| Optimizer (`opt.rs`, `opt/inline.rs`) | MIR | devirtualize, inline, fold, simplify, eliminate | verifier | the program does what it did |
| Register allocation (`cfg.rs`, `regalloc.rs`, `codegen.rs`) | order, liveness, intervals, registers | walk, flow, scan, emit | MIR | what is read is what was written |
| Code generation (`lowering.rs`, `codegen.rs`, `aarch64.rs`) | homes of locals, frame, emitted items | one sequence per instruction | allocator, runtime | the code does what the MIR does |
| Assembler, ELF (`asm.rs`, `elf.rs`, `*_inst.rs`) | bytes, fixups, sections, symbols | encode, place, patch, write | linker | a jump lands where its label is |
| Packages of a compilation (`package.rs`, `analysis.rs`) | modules, exports, imports, joined text | resolve names, carry places back | checker, language server | a name means one declaration; a diagnostic stands where its cause is |
| Language server (`slopium-lsp`) | open documents, one workspace | notifications and requests, in order | editor | what is shown belongs to the text that is open; a rename keeps the program, or the compiler says that it does not |
| Front end (`lexer.rs` … `parser.rs`), typing | tokens, trees, tables | parse, type | checker | syntax-directed; errors have places |
| Runtime (`runtime/*.c`) and library (`std/`) | heap of the program | lists, strings, processes | compiled code | bounds and widths are checked |

The behaviours that are hard: runs that share `$SLOPIUM_HOME`, a registry directory or a workspace with no lock between
them; processes killed between two writes; caches whose keys leave something out; backtracking; in the compiler, passes
that must agree about ownership on every path, and tables of instructions that must mean the same on two machines; in
the editor, answers computed from a text that has changed meanwhile.

## The modules

| Module | Models | Uses |
|---|---|---|
| `PackageStore` | `store.rs` as `Sources::checkout` drives it | |
| `ContentCache` | what the store promises: one indivisible step per checkout | refined by `PackageStore` |
| `BuildCache` | `build`, `cache_key`, `module_cache_key` | |
| `Registry` | `publish` into a directory registry | |
| `IndexCache` | `Registry::versions`, `index_file` | |
| `RegistryLives` | publishers and readers of one package | composes the two |
| `Versions`, `Sources` | versions and requirements; the kinds of source a package comes from | |
| `Resolver`, `ResolverCheck` | `resolve.rs`; what an answer has to be | `Sources`, `Versions` |
| `Workspaces` | which packages belong together; the commands that edit a manifest | |
| `Lockfile` | `Session::load` and the commands over a project's life | the one above, and a `Select` that `ResolverCheck`'s properties characterise |
| `BorrowCheck` | the ownership rules of `sema.rs` | |
| `DropLowering` | the scopes, drops and arms of `mir.rs` | extends `BorrowCheck` |
| `Ownership` | a body checked, lowered and run | composes the two |
| `LiveIntervals`, `LinearScan`, `RegAlloc` | `cfg.rs`, `regalloc.rs`, and a function compiled and run | |
| `Mir` | the intermediate language and what a module in it means | |
| `MirVerifier`, `Optimizer` | `verify.rs`; `opt.rs` and `opt/inline.rs` | `Mir` |
| `Lowering`, `X86Emitter`, `Arm64Emitter` | what the two generators share, and each of them | `Mir`, `Machine` |
| `Machine` | the instructions used, on both processors, and the runtime they call | |
| `Assembler` | `asm.rs`, `elf.rs`, and the linker behind them | `Machine` |
| `BackEnd` | a module verified, optimized, generated, assembled and run | composes the seven above |
| `Packages` | names over the files of a package; over one file alone | |
| `LanguageServer` | the server and its editor | composes the two above |
| `MC…` | TLC's values for the constants of each | |
| `PackageStore_proofs`, `RegistryLives_proofs`, `BuildCache_proofs`, `Resolver_proofs`, `Lockfile_proofs`, `RegAlloc_proofs`, `LanguageServer_proofs` | theorems about the module each is named after | |
| `ResolverSearch_proofs` | theorems about what the resolver's search leaves out, and that its answers are stable | `Resolver_proofs` |

**PackageStore.** `archive`, `signature` and `tree` are the three kinds of file, by digest; `run[p]` is the checkout a
process is in the middle of and `outcome[p][k]` how its last one of a package ended. Each action ends at a file-system
call or a network answer, which is where another process can interleave: `Holds`, `Fetch`, `Insert`, `RenameArchive`,
`VerifySignature`, `FileSignature`, `OpenArchive`, `LookForTree`, `Unpack` (one file), `Seal`, `PlaceTree`; `Stop` is a
process killed or an I/O error anywhere; `EditArchive`, `DeleteArchive`, `DeleteTree` and `DeleteStore` are people.
Bytes are what hashing tells apart: a digest, or `Other`.

**BuildCache.** Texts and manifest on disk, objects and artifact with their stamps, and one build that may be under way.
A key is the record of what is hashed. What `slopic` emits for a module is the record of what it depends on. A text has
three parts: its body, its interface as `module_interface` spells it, and its `take`s, which say what the names in that
interface mean (`Resolver::resolve`, package.rs). A key holds other modules' interfaces and not their `take`s, while what
is emitted depends on both (`Interfaces`, `Meanings`).

**Registry, IndexCache, RegistryLives.** The index is a sequence of line texts and line ends, because `writeln!` hands
the two to the system separately. A cached copy is torn while its writer has not finished. `RegistryLives` lets runs read
the very index publishers write, so that `ToldIsServed` relates what a run was told to what can be downloaded.
Nothing in `publish` keeps two publishers of one version apart, and they may overlap in every way; `contested` remembers
the versions to which that has happened, and what is promised of a version is promised until then.

**Sources, Resolver, ResolverCheck.** A world is one record of everything a resolution consults: workspace members,
directories, the bundled library, repositories with heads, rewritten and fetched commits, registries, vendored copies,
pins, options, and pushes that happen meanwhile. The recursive search is frames in `trail`. What is offered
for a name is a set, of which `IsNewest` picks the next to try, as `published` sorts by version. `IsWorld` says what a
world may be. `reject_cycles` is `Cyclic`: there are packages each of which depends on one of them. `ResolverCheck` enumerates
the solutions of a world and holds the search's answer against them.

**Workspaces, Lockfile.** A directory is the path that leads to it, a tree maps directories to what their
manifest says. A manifest is lines, because `with_dependency` and `without_dependency` edit lines while everything else
reads TOML; `odd` marks a line whose first characters do not show what TOML reads in it. `Lockfile` runs commands one
after another, or two at once with kills, over trees that people, `add`, `remove` and `new` change.

**BorrowCheck, DropLowering, Ownership.** A body is a sequence of tokens: statements, and the heads, `else`, arms and
`end` of the forms around them; a pattern is its parts in a sequence, parents first. `BorrowCheck` keeps `Environment`
(names per scope, loans, moved bindings, what a bound borrow came from) and refuses what `sema.rs` refuses.
`DropLowering` keeps the `Builder` (blocks, `live`, `left`, scopes with their defers, loop targets) and emits blocks:
tests of tags, reads of fields, blocks given back. The compiler runs one after the other; neither reads the other's
state, so `Ownership` gives both each token at the same step, which lets `PassesAgree` compare what they believe, and
then runs the blocks on a machine of locals and numbered values that own one another, choosing at every branch, guard and
`try`. "arm" marks in the blocks where a `defer` was passed and is no instruction of the code.

**LiveIntervals, LinearScan, RegAlloc.** A function is blocks of instructions that read some locals and define one. It
is walked, analysed and allocated step by step as the code does, and then run: the value a local is supposed to hold is
kept next to what its register or slot does hold. A drop counts as a call.

**Mir … BackEnd.** `Mir` gives a module a meaning: the events of its first function (calls of C functions, device reads
and writes, a trap, the end) and the blocks it has not given back. `Optimizer` is the pipeline, each pass followed by
`MirVerifier`. The emitters turn every instruction into `Machine`'s instructions, with locals in registers or frame as
`Wanted` asks; `Assembler` lays those out in sections, makes fixups, resolves or leaves them as relocations, writes the
file's symbol table and links it; `Machine` runs what comes back from the linker. `BackEnd`'s properties compare: every
pass's module with the one before, the running code with the module, and what is refused with what is wrong.

**Packages, LanguageServer.** A text is a sequence of words with a role, a path and a length in bytes and in
UTF-16 units. `Packages` resolves every path, lays the texts end to end and carries places back. `LanguageServer` has
what the editor holds, what is on disk, the documents the server was told of, and the workspace it built last; messages
may be overtaken (`didChangeLate`) and files written behind its back (`Overwrite`). What a rename does is written over
the words at the places it answers with (`Rewritten`, `Edited`), and the package that results is compiled by `Packages`.

## What each run checks

| Run | Shows |
|---|---|
| `StoreShared` | two projects, honest sources, kills anywhere: an offline run gets what an online run got (`OfflineReplays`), racers do not fail each other, stored files never change, every online checkout ends well (`EveryCheckoutSucceeds`) |
| `StoreTrust` | two projects that both unpack one digest, bad answers, unsigned archives, edits and deletions: trees are whole, trust is per project, the store implements `ContentCache` |
| `BuildLives` | what would be called fresh, or reused, is what a clean build gives, up to what other modules' names mean; a body change recompiles nothing else |
| `RegistryLives` | publishers of any versions, killed between writes: what is indexed is there, once, for ever, but for a version two were at work on at once; runs that overlap, fail and are killed: cached copies are whole, offline follows online, a run hears one thing, and can download what it was told of |
| `ResolverAnswers` | answers are solutions, newest, stable under their own lock, and given whenever there is one; the search ends |
| `LockLives` | only `update` and edits move the lock, `--locked` keeps passing, a torn or mixed lock does not last |
| `RegAllocRuns` | liveness, sharing, reads and the caller's registers |
| `OwnershipRuns` | 7955 accepted bodies of 27575: no use or drop of what is gone, no leak, defers once, the passes agree |
| `OwnershipLoopLeft` | *violation*: a loop left between a move and the `set` that undoes it |
| `BackEndRuns` | every operation on every kind of integer, control flow, calls, closures, devices, structures, enums, lists and strings, and modules no lowering makes: passes and code keep the meaning, only the wrong is refused |
| `BackEndRemainder` | *violation*: on AArch64 a remainder whose left operand is in the frame |
| `LanguageServer` | what is published is of the open texts and stands where it is; a package renamed at any word means what it meant, or is refused; completions mean what the compiler means |

**Bounds, and why they are enough.** *Store*: two processes, because every conflict is between two; two packages of one
digest under two registries in `StoreTrust`, of which both processes fetch and unpack one and the first alone asks for a
signature on the other, and one of the toolchain in `StoreShared`; two files per archive, so that a
tree can be half there; the theorem covers the rest. *Build*: two modules, one generic and one that may ask for its
instances, four texts, two manifests; every dependency of a key on an input is between at most two modules. *Registry*:
two publishers, two versions, two contents; `Crowds` names who takes part together: two publishers with two kills, or
one publisher with two runs. *Resolver*: three packages, of which one is disputed, in releases and
pre-releases, every requirement set on them, up to two members, locks of any age, one push to a branch. *Lock*: two sessions, workspaces of two packages that may lie in one another, five
states of the registry, one kill among sessions that overlap. *Registers*: four locals and two registers, so that some
must wait; loops and branches of up to four blocks with every pair of instructions of seven kinds, one parameter or
two. *Ownership*: one owned
binding that branches, loops, matches and shadowing act upon, and a few more that take its value or a part of it, borrow
it or stand outside;
values of up to four parts, patterns two deep; nine families of bodies, every member of which is tried on every path.
*Back end*: words of four bits (`WordBits`), so that integers of every kind overflow among a few operands and every pair
is tried; a run stops after `Fuel^3` steps, which no program checked reaches; the limits of the passes are small enough
(`MAX_CALLEE_STATEMENTS = 4`, `MAX_CALLER_GROWTH = 8`) for programs on both sides of each; functions of C answer with
anything above the bits of their result. *Server*: four messages (`MaxMessages`) suffice for open, change, an overtaken
change and a close; versions up to three; in the texts every exception that `RenameKeepsTheProgram` makes is needed (TLC
violates it without any of them), and the new name is in no text (`ServerAssumption`).

**Fairness.** `StoreShared` assumes `WF_vars(Checkout(p))`: a process that has started a checkout keeps executing, as a
process does; nobody has to start one, and `Stop` may end it. `ResolverAnswers` assumes `WF_vars(Resolve)`: the search is
one thread that never waits; nobody has to push, and nobody has to run it again. No other run states liveness. Weak fairness is enough in both because nothing in the code
waits for another process: a step, once possible, stays possible.

**Deadlock.** `CHECK_DEADLOCK FALSE` stands only in the runs whose system really ends: publishers whose versions are all
published, a resolver that has answered, a function, module or body that has run or was refused, an editor that has sent
its last message.

## What is proved

Twenty-nine theorems; twenty-seven state a property that a run checks, for every value of the constants. TLC has checked each
inductive invariant on the constants of the run before it was proved. Every proof is one lemma per action and, below it,
one step per conjunct that the action can disturb. What is assumed of constants is in the `ASSUME`s of the modules, and TLC
evaluates those on every run: types, that markers such as `None` are no data (`NoneAssumption` and the like), in `Resolver`
that worlds are what there may be (`ProblemAssumption`), in `Lockfile` that `Select` is stable
(`StableAssumption`; what it says of `--frozen`, `AnswersAreStable` proves of the resolver), and in `RegAlloc` that
the blocks of a function are numbered and its instructions have the operands of their kind and write no parameter
(`CodeAssumption`). The code relies on the last:
`live_intervals` counts no definition at the entry and `store_parameters` writes every parameter that has a register, so
one that an instruction wrote first could be given the register of another. `sema.rs` makes parameters immutable
(`mutable: false`), and a drop, which clears one, reads it. What a theorem supposes
besides is a definition it names:

| Theorem | Property | Supposes |
|---|---|---|
| `StoreIsSound` | `TreesWhole` | the store is not deleted under a run |
| `TrustIsSound` | `TrustIsPerProject` | nothing: any answers, edits, deletions |
| `OfflineIsSound` | `OfflineReplays` | `NobodyMeddles`, `SignersAgree` |
| `RunsOnlyAdd` | `StoreIsAppendOnly` | `NobodyMeddles` |
| `StoreImplementsCache` | `ImplementsCache` | the store is not deleted under a run |
| `PublishedIsServed`, `PublishedOnce`, `PublicationLasts` | `IndexedIsServed`, `OneEntryPerVersion`, `PublishedIsForever` | nothing |
| `CachedIsWhole`, `OfflineReadsOnline`, `RunsSeeOneIndex` | `CacheIsWhole`, `OfflineFollowsOnline`, `RunSeesOneIndex` | nothing |
| `ToldArchivesAreServed` | `ToldIsServed` | nothing |
| `FreshArtifacts`, `ReusedObjects` | `FreshIsCurrent`, `ReusedIsCurrent` | `Undisturbed` |
| `BodyChangesStayLocal` | `BodyChangeIsLocal` | `LeftToFinish` |
| `AnswersAreSolutions` | `SelectsASolution` | `ProblemAssumption` |
| `DeadEndsAreUnsolvable` | half of `FailsOnlyIfUnsolvable` | `ProblemAssumption`, `IsHonest` |
| `NewerNeverFits`, `PinsStand` | `NothingNewerFits`, `PinsMoveOnlyIfTheyMust` | `ProblemAssumption`, `IsHonest` |
| `AnswersAreStable` | `AnswerIsStable` | `ProblemAssumption` |
| `AnswersStandWritten` | `AnswersAreWritten`, half of `LockIsTheAnswer` | `NeedsCovered` |
| `BuildsMoveNothing` | `BuildMovesNothing` | `NeedsCovered` |
| `LockedPassesAfterwards` | `LockedPasses` | `NeedsCovered`, `MembersAreHome` |
| `ScanIsSound` | `NoSharing`, `SpillsUnderPressure` of the scan | nothing |
| `CompiledFunctionsShareNothing` | `NoSharing`, `SpillsUnderPressure` of compiled functions | nothing |
| `LivenessIsRight` | `LivenessIsExact` | nothing |
| `LocalsKeepTheirValues` | `ReadsSeeWrites` | nothing |
| `PreservedRegisters` | `CallerKeepsRegisters` | nothing |
| `PublishedStaysCurrent` | `PublishedIsCurrent` | nothing |

Why the code needs what is supposed:
- The store deleted under a run leaves a part of a tree in place; see the next section.
- `SignersAgree`: the signature of an archive is one file for every project. Of two projects that trust different keys,
  both of which signed the archive, each finds no signature, fetches the one it accepts and files it; the one filed last
  stays, and the other project's next offline run refuses it. TLC shows it when two registries sign one archive with keys
  of their own. Whoever accepts one published signature must accept the others, or an offline run may fail.
- `Undisturbed`: nobody both brings an old text back and edits or kills during builds. A stamp is written last, so a build
  that is killed, or reads a text that an edit replaces, leaves something newer than its stamp; only when the old text
  comes back does the old stamp vouch for it. `LeftToFinish`: a killed build leaves objects without stamps, and the next
  one compiles them again though they are right.
- `ProblemAssumption`: besides types, that an index has one entry per version (`PublishedOnce`), that commits which are
  named are the repository's, and that an index entry says `toolchain` of the dependencies of which the archive says it
  (`SaysFromWhere`). For what `slopium publish` writes `published_entry` (main.rs:2749) sees to that. It is needed because
  `check_against_index` (resolve.rs:908) compares names and requirements, but not sources: with an index that says
  otherwise, a package of a registry is built where the archive asks for the bundled library. The assumption does not say
  that names and requirements agree; that is checked, and the proof uses that it is. Nor does it restrict locks, which may
  be of any manifests, nor who pushes what. What else it says, it says of directories, tags and commits: two members do
  not share one, only git's packages have a commit, and no reference is spelled like a commit.
- `IsHonest`: an index entry says what its archive says, in name, version and requirements, and what the lock says, and a
  locked commit holds what the lock says. The search chooses by the index and only `Finish` opens archives: an index that
  demands more than the archive does makes it fail, or take an older version, where there was a better answer. The
  properties have this premise themselves; whether an answer is a solution (`SelectsASolution`) does not depend on it.
- `NeedsCovered`: the constant `Manifest`, for which `Select` is assumed stable, has what the workspaces of the trees may
  need. It restricts the constants, not the code. `MembersAreHome`: every member of a workspace, asked for its
  workspace, gives that one. `load_workspace` refuses neither a member that two workspaces list nor one that is a
  workspace itself, and there `--locked` resolves something else. Both hold in all states of `LockLives`; they are in
  `Lockfile`, so that adding `NeedsCovered MembersAreHome` to the invariants of `LockLives.cfg` checks them.

Inductive invariants:
- *Package store.* `TreesWhole` is not inductive, since a process may be about to place a tree. `StoreInv` adds that what
  a process unpacks was hashed before (`OpenedBytesVerified`) and that its temporary directory holds exactly the entries
  before the next one (`ScratchIsPrefix`), over a predicate about one process (`Good`). `TrustInv` adds that whoever is
  past the signature has found a good one (`RunsTrusted`) and that what is filed was published. `ReplayInv` adds what a
  run at work can rely on to be in the store, for which it needs that every step only adds (`Appends`) and that no
  accepted signature is replaced by one that is not (`SignaturesLast`). For the refinement, `Available` is the trees
  and `Answer` the outcomes; only the renaming of a tree, a failure and a deletion are steps of the cache.
- *Registry.* `LivesInv` is two invariants that need little of each other. The publishers' says that those at work are at
  work on different versions, or on one that is `contested` (`Apart`), and of a version that is not: that what is still to
  be listed is not (`NotListedYet`), and that what a publisher wrote is what it will name (`FilesAreMine`). The readers' (`ReaderOK`, `CacheFollows`) needs of the publishers only that
  the index grows (`Kept`), so that it holds however they overlap (`SharedInv`).
- *Build cache.* `CacheInv` has two parts, for the two ways in which a stamp can be right. Where nothing interrupts a
  build, each file is what its stamp says (`CalmInv`). Where builds are overtaken or killed but no text comes back, a stamp
  of the present inputs was written after them (`ForthInv`: `NothingComesBack`, `ObjectOK`, `ArtifactOK`, `BuildOK`). Both
  rest on a lemma about the keys: equal keys have equal meaning (`KeyDecidesObject`).
- *Resolver.* That an answer is a solution is not inductive: `ResolverInv` says of the branch that is searched that every
  need of the member and of what is chosen is met or pending (`Covered`, `SearchInv`), and the same of every frame that
  may be gone back to, with the need it was opened for, of which every candidate left is one that meets it (`IsFrame`,
  `TrailInv`); so `TryNext` can go on from any frame, however much was chosen and dropped in between. Candidates are
  published and not yanked, or the lock's (`IsAllowed`). As long as a package is what the index says, its needs ask of the
  same places as its archive's (`IsAsTold`); `Finish` finds that they are as many of each name and requirement, whatever
  their order, hence replacing them by the archive's leaves nothing unmet. What members have agreed on stays closed and
  without cycles when the next answer is merged (`MergedInv`): of packages each of which depends on one of them, those
  merged before are such a set themselves, since what was merged is closed, and if there are none all are of the new
  answer; neither has a cycle. `MatchesAreAccepted` shows that `VersionReq::matches`
  accepts only what the ranges of `ResolverCheck` do, for all operators, versions and pre-releases.
- *The resolver's search.* That nothing was left out is said of choices (`IsChoice`): an assignment of packages to names in
  which each is one that the name may turn out to be, as far as git has been asked (`IsPossible`), and every need is met.
  `SearchedInv` says of every choice and every frame on the way back that, if the choice agrees with what was chosen
  before the frame, its package for the frame's name is still to be tried there, or is the one being tried, or only the
  pin is being tried and it is another version (`IsTried`). When no frame is left, no choice agrees with the member
  itself, and `SolutionsAreChoices` says that a solution would. The proof needs that whatever is possible is offered and
  nothing else is, for each of the five places a candidate comes from (`DirectoriesFind` to `CandidatesArePossible`), that git
  finds one commit for a reference (`AreUnique`), and that what is chosen grows by one name a frame (`AreLinked`).
  `TakenInv` looks the other way: what was taken was offered, and nothing left in its frame is newer (`AreTaken`). So what
  would fit instead of a package of the answer and is newer was tried before it, and `SearchedInv` says why it was
  dropped: no choice has it, with what was chosen before. For the pins the argument is the same with the lock's choice.
  The premise is about one member because the next members start from nothing, and are only compared at the end. TLC has
  checked `SearchedInv`, for the choices that `Solutions` enumerates, and `TakenInv` on all states of `ResolverAnswers`.
- *The same answer again.* Two searches are compared, the first of which may have gone back any number of times. Of the
  first it matters what its answer has. Each package is what its place has of it (`IsFrom`) and, once `settle` has looked
  into its archive, what it is called and what a vendored copy of it must be (`IsItself`); and nothing is in the answer
  that its members do not lead to: every set that has the members, and of each of its packages all that is needed, has
  the whole answer (`IsLeast`). `WayInv` says so of the branch that is searched and of every frame that may be gone back
  to, since what is pending was asked for by what is chosen, whatever was dropped since; `MadeInv` of what the members
  agree on, whether an index said so first or not (`Looked`). Of the second search
  `AgainInv` says that it is no search: what a need is offered is the lock's package alone, read from no index (`IsServed`),
  so every frame has that one or nothing left, no need disagrees, no frame is exhausted, and each member's answer stands,
  since it is a part of the first (`IsPart`) and that had no cycle. At its end `IsLeast` says that it is all of it:
  the packages of the second answer have all they need and all members, hence everything the lock names. The premise
  `IsHonest` is not needed: what an index said falsely was found by `settle` before there was a lock. TLC has checked
  the three on all states of `ResolverAnswers`, `IsLeast` for the sets of names that occur and
  `IsServed` for the needs that do.
- *Lock.* `LockInv` says who runs while anything stands in peace (`OneAtATime`), what a command alone has read or is
  writing (`AloneOK`), that the last answer is in the file unless it is being written (`PeaceKept`), and that it is an
  answer of `Select` (`AnswersStand`), to which stability applies. Its lemmas about `Workspaces` show that loading stays
  within the manifests there are and that a member at home loads the workspace it is a member of (`HomeLoads`).
- *Registers.* `ScanInv` needs that every busy register is held by an active local (`BusyIsHeld`), or a register called
  free could still be read, and that whoever is waiting starts no earlier than whoever was placed (`WaitingIsAhead`).
  `KeepInv` follows a register from the function's assignment to the frame: a preserved register that any local is
  assigned is among those the prologue saves, no slot of a local is one of theirs, and they hold the caller's values
  until the epilogue. `CompiledInv` adds what connects the analysis with the run (`ReadInv`). The walk has reached what its
  blocks lead to and nothing else (`WalkOK`), and where a round has changed nothing, the blocks it has been through are
  settled (`RoundOK`), so that in the end every reachable block is (`AnalysisOK`). While the function runs, every local
  that is live there is in its place (`RunOK`); between the halves of an operation in place that is what follows it needs
  and its right operand, but not its destination (`Live`). `WrittenIsApart` is the argument of the code's comments: a
  local that is live after an instruction has marks on both sides of what the instruction writes (`MarkedBefore`,
  `MarkedAfter`, by the last place where it is not live and the last where it is), so the hulls meet. For the prologue,
  `ParametersEnter`: were a parameter with a register not live at the entry, the blocks where it is not live would be
  closed under succession and so be all of them. `ExactInv` says that at every moment of the analysis what was found live is
  needed: any set of blocks that a value does not leave unwritten (`Carries`) holds one that reads it first. The
  least such set is the `Carried` of `LivenessIsExact` (`CarriedIs`: as many rounds as there are blocks suffice, since a
  round that adds nothing is the last to add anything); conversely, the blocks that are settled with a local not live
  are such a set, so none it is carried to reads it (`CarriedIsLive`). The positions of blocks, the sets of a block and
  the rounds of `Carried` are recursive functions;
  that they exist is proved by least counterexample (`Least`), as there is no induction.
- *Server.* `ServerInv`: the server's documents are the editor's buffers, and what is shown is what was found in them,
  unless something changed without the server knowing.

Only model-checked:
- Of the resolver, the other half of `FailsOnlyIfUnsolvable`: that an error other than a dead end is only reported of a
  world in which something is missing or unlawful. There are many such errors, and `IsSound` is a list of what is right with a world, not of
  what its packages can run into.
- Liveness under fairness, and `ENABLED`: `EveryCheckoutSucceeds`, `SearchEnds`.
- What recursion over data computes: what a module, a
  machine program, a text or a body means; the other half of `LockIsTheAnswer`, what an edit of lines makes a manifest
  say, which is about folds over its lines. The prover has no induction with an operator for parameter.

## Where code and documents disagree

Two runs show a disagreement; `PROJECT.json` quotes the documents under `findings`. The following were seen while
modelling or with the same models (the setting is named) and are kept out of the passing runs.

*Store, cache and registry*
- The store deleted while a checkout unpacks: the files still to come recreate the directory, and a tree that lacks the
  earlier ones is placed (`Meddling = {"delete_midway"}` violates `TreesWhole`).
- docs/architecture.md:435 says a module's interface is "everything a *consumer's object* can depend on".
  `module_interface` (main.rs:1586-1689) hashes types as they are spelled and no `take`, and package.rs:778-801 and
  950-1005 resolve that spelling through the `take`s. A library whose `make` and `consume` have a `T` in their signatures
  goes from `(take x (T))` to `(take y (T))`; an application that says `(consume (make))` keeps its key, its object,
  compiled for `x`'s `T`, is linked with the library's new one, and the artifact is stamped fresh for good.
  `FreshIsCurrent` and `ReusedIsCurrent` make this one exception (`PassesFor`: the names of other modules' interfaces, for
  a module without generics) and hold every other part of an object to what a clean build gives; without it TLC finds
  the behaviour above in `BuildLives`, which has such a library, for either.
- A build killed between the link and its stamp, and the setting that changed flipped back: the old stamp vouches for
  the new artifact (a life with `undo` and `killed` violates `FreshIsCurrent`).
- A cached index whose write failed is kept, silently, and answers the next offline run.
- docs/packaging.md:471: "A version already in the index is refused". Two publishers of one version at once both publish
  it: whether it is there is asked long before the line is appended. `OneEntryPerVersion` makes that one exception
  (`contested`); without it TLC finds it violated in `RegistryLives`, and `IndexedIsServed` too, because one publisher
  overwrites the archive that the other has listed.

*Resolver*
- An archive's manifest may name another kind of source than its index entry; the search believes the entry and the
  graph is built from the archive. `MCResolver`'s worlds hold that only for other requirements, not for other sources.
- A path, git or toolchain dependency without a requirement refuses a package whose own version is a pre-release.
- `<=1.2` means at most 1.2.0, while `>1` is met by 1.0.1.
- A git pin that no longer meets the requirement is refused even if the branch's head would (docs/packaging.md:211).
- docs/packaging.md:655-658 and `vendor`'s own text (main.rs:2849-2856) say that a member left out by `-p` "stops
  building `--offline`". The configuration `vendor` writes redirects every source of the kinds it copied, and
  `replacement` (resolve.rs:953) fails for a package of such a kind without a copy; every command resolves the whole
  workspace, so after a partial `vendor` every command fails, online as well and for the copied member too.

*Lock, manifests and workspaces*
- A session killed while it writes `Slopium.lock` in place leaves a torn lock that the next session resolves afresh.
- `add`, `remove` and `new` write manifests in place with `fs::write`, though `atomic_write` exists: one killed midway
  loses the manifest. They edit before they resolve and do not restore; two at once lose one edit.
- A `[dependencies]` heading with a comment behind it, and a dotted key, are not seen by `with_dependency`: a second table
  or a duplicate key makes the manifest unreadable.
- main.rs:1053-1056, workspace.rs:202-206 and 273-276, and docs/diagnostics.md:163 (SL1062) say that a package which lies
  in a workspace that does not list it is refused. It loads as a workspace of its own, as docs/decisions.md:699 and the
  test `a_package_inside_a_workspace_that_does_not_list_it_is_reported` say; SL1062 is reached only by a root package
  that excludes itself. A member that two patterns match is refused as two members of one name, and `new` below an
  excluded directory lists a member without effect.
- Two workspaces inside one another that both list a package give it different roots, by where the command runs;
  `LockedPasses` does not hold there, and `MCLockfile` leaves such trees out.

*Ownership*
- A value moved before a `while` whose body sets it again is taken for owned after zero turns; a `while` whose body
  always returns a value is taken to have given it away when it never ran.
- Statements after a `return` that contain a form reset the flag that says the path has left.
- An inner `do` ends the loan of an outer bound borrow that is still used after it.
- A `defer` that reads a bound borrow does not lend what the borrow came from.
- The names a `when` guard reads are not among those still to come (sema.rs:5844-5848): a borrow read only there may be
  read after its value was given away.
- A `try` in a `when` guard of a match by value leaves without dropping what is matched.
- A binding moved before a match and set in every arm, or in a guard, is dropped by nobody: `lower_match` keeps the
  states from before the arms.
- A way out in the middle of a call's arguments does not drop the earlier arguments' temporaries; `return` is kept out of
  that place for this reason, `try` is not.

*Back end*
- `trace_closure_symbol` (opt.rs) resolves the closure of a call through any copy in the block, also of a local assigned
  again before the call (`Programs <- Reassigned` violates `PassesKeepTheMeaning`; opt.rs:4-5 "every pass
  preserves observable behaviour").
- `get-ref` on a list of functions is not read through (lowering.rs:691-715).
- A borrow of an enum without fields (mir.rs:2465-2477) is refused by the verifier (verify.rs:705, 722): an internal error
  for a program that is in order.
- Constant propagation may need more rounds than it has (33), and then refuses the program as a bug of the compiler.

*Names and the editor*
- `module_of` (sema.rs:643) takes the text before the first `:`, while `visible_functions` (package.rs) is keyed by whole
  modules, so that a local may shadow a function in nested modules, in dependencies, and in functions of the entry
  module other than `main`, which sema.rs:629-637 and package.rs:313-320 say it may not.
- A rename misses functions and constants used as values (`scan_expr_occurrences` passes over `ExprKind::Var`,
  main.rs:1376), types of externs, a type spelled like one before it in the same place (a result like a parameter), and
  the paths of an enum's variants when the enum is renamed; it replaces a path whole by the bare name, and the name a
  thing is taken under without the alias; and it does not look whether the new name is taken. What comes of it mostly does
  not compile (`Roundabout`). Two cases compile and mean something else, against analysis.rs:428-429 ("a rename that
  misses one renames a program into a different one"): the pattern `E:V` of a variant without parts becomes the bare new
  name, which binds whatever comes and hides the arms below it (`pattern`, ast.rs:2422-2441); and where a function `main`
  of a module that is not the entry is used as a value, the value is missed and then means the entry's `main`
  (`variable`, sema.rs:1847-1852). Without the last two clauses of `Misled` TLC
  violates `RenameKeepsTheProgram`.
- Completion offers paths whose first segment a declaration of the file hides, and modules whose import would close a
  cycle.
- What stands in a `defer` or a composition is not moved to where its file lies (`shift_expr`), so that a diagnostic there
  lands in another file; import cycles through values and `defer`s are not seen; "no `main`" lands in the first file in
  the order of paths.
- The server keeps one workspace, of the document that changed last: open documents of another package are shown from
  it, and after a close it holds a text nobody has.

The families of values in the `MC` modules are chosen so that these cases stay out, each at the definition concerned:
`MCOwnership` has no `set` of an outer binding in a loop that can be left in its middle, no value moved before a form and
set in it, no `while` whose body always returns, nothing after an exit in a body, no way out in a guard, and bound borrows
only in bodies without forms but the `match` that looks through them. Lifting a restriction that the
tokens can express brings the corresponding violation back.

## What is not modelled, and why

- In modelled parts: power loss (a kill stops a process, and what it wrote stays); collisions of digests and of 64-bit
  keys; permission bits; `rm -rf` in several steps; C sources of a build and targets that skip the link; submodules; build
  metadata of versions; target sections and profiles of manifests; in ownership, lambdas, parameters, temporaries, values
  of forms, immutable bindings, exclusive borrows that are matched and the assignment of fields through them, integer and
  Boolean patterns (they own nothing).
- In the back end: floats, the words of foreign functions, lists of structures, the test harness, debug lines; the length
  of an instruction without a fixup is one number per machine; file offsets, padding and header bytes; branches out of
  reach (a function of more than a megabyte is refused by `too_large_for_a_branch`).
- In the editor: hover, document symbols, semantic tokens; test functions, language items, selection of target sources.
- Parts: lexer, parser and typing are pure functions of one input, recursive over it, whose result is their definition;
  the digests' and signatures' algorithms; formatting; the library's Slopium sources, which are programs rather than the
  compiler; `fmt`, `fix`, `clean` and `tree`, which touch files one by one.

## Plan

Done, in order: the package store, the build cache, publishing, the index cache, the resolver with every source, the lock
with workspaces and manifest edits, register allocation, ownership with matches, the back end down to the linked file,
names and the language server. The proofs of the store, the build cache, the
registry with its readers, the resolver's answers and its search, the lock, register allocation with the analysis under it, and the server's diagnostics followed. What is left to
prove:

1. `MirVerifier`: what `check_initialization` accepts reads nothing undefined, from its flow being a fixpoint.
2. `Lockfile`: `AnswersStandWritten` for what `add`, `remove` and `new` edit, over an abstract edit of lines.
