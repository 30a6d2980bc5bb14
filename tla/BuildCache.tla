----------------------------- MODULE BuildCache -----------------------------
(***************************************************************************)
(* The two-level build cache of `slopium build` (main.rs): one object and   *)
(* stamp per module, one artifact and stamp per package.  The compiler is   *)
(* modelled by what an object depends on: it types the whole package but    *)
(* emits only the owner module (partition_codegen) and never inlines across *)
(* modules (opt/inline.rs).                                                 *)
(*                                                                          *)
(* A key is the record of what is hashed into it, so that two keys are      *)
(* equal exactly when their inputs are: 64-bit collisions are left out.     *)
(***************************************************************************)
EXTENDS Naturals, FiniteSets

CONSTANTS
  Module,      \* owner modules, the package's and its dependencies'
  Lives,       \* what a project may go through, see LivesAssumption
  None,        \* no such file
  Torn         \* a file whose writer has not finished

(* A life: the manifest texts (profile, target and flags are read from one) and
   the texts each module may have, told apart by their body, by their interface as
   it is written, and by their `take`s, which say what the names written in the
   interface mean; whether texts change during a build too, whether an earlier one
   may come back, and whether a build may be killed. *)
ASSUME LivesAssumption ==
  \A l \in Lives :
    /\ l.during \in BOOLEAN /\ l.undo \in BOOLEAN /\ l.killed \in BOOLEAN
    /\ \A m \in Module : \A s \in l.sources[m] :
         /\ s.generic \in BOOLEAN /\ s.ok \in BOOLEAN /\ s.requests \subseteq Module
         /\ \A t \in l.sources[m] :
              /\ s.body # t.iface /\ s.body # t.takes /\ s.iface # t.takes
              /\ s.body = t.body /\ s.iface = t.iface /\ s.takes = t.takes => s = t

(* What a text says, part by part. *)
Said(s) == {s.body, s.iface, s.takes}

(* What a life's modules may say, together. *)
Texts(l) ==
  {t \in [Module -> UNION {l.sources[m] : m \in Module}] :
     \A m \in Module : t[m] \in l.sources[m]}

VARIABLES
  life,                    \* which life this is
  manifest, text,          \* what is on disk to be built
  past,                    \* what texts said that may not come back
  object, objectStamp,     \* objects/<package>/<module>.o and .slop-cache
  artifact, artifactStamp,
  step,                    \* where the build is
  busy, seen,              \* the module being compiled, and the texts slopic read
  key,                     \* cache_key of this build
  units,                   \* ModuleCacheUnits of this build
  todo,                    \* modules still to visit
  said                     \* what the last build reported

disk  == <<object, objectStamp, artifact, artifactStamp>>
local == <<key, units, todo, busy, seen>>
Inputs == <<life, manifest, text, past>>
vars  == <<Inputs, disk, step, local, said>>

-----------------------------------------------------------------------------
(* Keys, and what slopic produces *)

(* Mutant: flags read from the manifest are left out of the key. *)
MutantFlaglessKey(man, src) == [manifest |-> "any", sources |-> src]

(* cache_key: the manifest and every source of the build. *)
PackageKey(man, src) == [manifest |-> man, sources |-> src]

(* module_interface: types and constants the way they are written. *)
Interfaces(src) == [m \in Module |-> src[m].iface]

(* Resolver::resolve: what the names written there are taken to be. *)
Meanings(src) == [m \in Module |-> src[m].takes]

(* Mutant: a generic module's key leaves out its consumers' bodies. *)
MutantGenericKey(man, src, m) ==
  [manifest |-> man, own |-> src[m], ifaces |-> Interfaces(src), sources |-> {}]

(* Mutant: every object's key holds every text. *)
MutantWholeKey(man, src, m) ==
  [manifest |-> man, own |-> src[m], ifaces |-> Interfaces(src),
   sources |-> {<<n, src[n]>> : n \in Module}]

(* module_cache_key: the module, every interface, and for a module with
   generics every text, because anybody's text may ask it for an instance. *)
ModuleKey(man, src, m) ==
  [manifest |-> man,
   own      |-> src[m],
   ifaces   |-> Interfaces(src),
   sources  |-> IF src[m].generic THEN {<<n, src[n]>> : n \in Module} ELSE {}]

(* The modules that ask m for instances of its generics. *)
Instances(src, m) ==
  IF src[m].generic THEN {n \in Module : m \in src[n].requests} ELSE {}

(* The object slopic emits for m: its own code, against everyone's interfaces
   and what their names mean, and the instances of its generics that the build
   reaches. *)
Emitted(man, src, m) ==
  [manifest  |-> man,
   code      |-> src[m].body,
   against   |-> Interfaces(src),
   means     |-> Meanings(src),
   instances |-> Instances(src, m)]

Compiles(src) == \A m \in Module : src[m].ok

(* Everything slopic may emit in a life. *)
Objects(l) ==
  {Emitted(man, src, m) : man \in l.manifests, src \in Texts(l), m \in Module}

(* That a file is missing or unfinished is neither a module, nor a key, nor an
   object, nor a program. *)
ASSUME NoneAssumption ==
  /\ None \notin Module
  /\ \A l \in Lives :
       /\ None \notin Objects(l) /\ Torn \notin Objects(l)
       /\ None \notin [Module -> Objects(l)] /\ Torn \notin [Module -> Objects(l)]
       /\ \A man \in l.manifests, src \in Texts(l) :
            /\ PackageKey(man, src) # None
            /\ \A m \in Module : ModuleKey(man, src, m) # None

-----------------------------------------------------------------------------
Init ==
  /\ life \in Lives
  /\ manifest \in life.manifests
  /\ text \in Texts(life)
  /\ past = [m \in Module |-> {}]
  /\ object = [m \in Module |-> None]
  /\ objectStamp = [m \in Module |-> None]
  /\ artifact = None
  /\ artifactStamp = None
  /\ step = "idle"
  /\ key = None /\ units = None /\ todo = {} /\ busy = None /\ seen = None
  /\ said = "nothing"

(* A build ends: its locals go, and it says how it went. *)
End(how) ==
  /\ step' = "idle" /\ said' = how
  /\ key' = None /\ units' = None /\ todo' = {} /\ busy' = None /\ seen' = None

(* Somebody saves a file, or edits the manifest. *)
Edit(m) ==
  /\ life.during \/ step = "idle"
  /\ \E s \in life.sources[m] \ {text[m]} :
       /\ Said(s) \cap past[m] = {}
       /\ text' = [text EXCEPT ![m] = s]
       /\ past' = IF life.undo THEN past
                  ELSE [past EXCEPT ![m] = @ \cup (Said(text[m]) \ Said(s))]
  /\ UNCHANGED <<life, manifest, disk, step, local, said>>

EditManifest ==
  /\ life.during \/ step = "idle"
  /\ life.undo
  /\ manifest' \in life.manifests \ {manifest}
  /\ UNCHANGED <<life, text, past, disk, step, local, said>>

(* The key is computed, and an artifact stamped with it is taken as it is. *)
Begin ==
  /\ step = "idle"
  /\ LET k == PackageKey(manifest, text) IN
       IF artifact # None /\ artifactStamp = k
       THEN End("fresh")
       ELSE /\ key' = k
            /\ step' = "units"
            /\ UNCHANGED <<units, todo, busy, seen, said>>
  /\ UNCHANGED <<Inputs, disk>>

(* codegen_module_units reads every text again. *)
ReadUnits ==
  /\ step = "units"
  /\ units' = text
  /\ todo' = Module
  /\ step' = "modules"
  /\ UNCHANGED <<Inputs, disk, key, busy, seen, said>>

UnitKey(m) == ModuleKey(key.manifest, units, m)

IsFresh(m) == object[m] # None /\ objectStamp[m] = UnitKey(m)

ReuseObject(m) ==
  /\ step = "modules" /\ m \in todo
  /\ IsFresh(m)
  /\ todo' = todo \ {m}
  /\ UNCHANGED <<Inputs, disk, step, key, units, busy, seen, said>>

(* slopic reads the texts itself and types them all before it writes. *)
StartCompile(m) ==
  /\ step = "modules" /\ m \in todo
  /\ ~IsFresh(m)
  /\ IF Compiles(text)
     THEN /\ object' = [object EXCEPT ![m] = Torn]
          /\ step' = "compiling" /\ busy' = m /\ seen' = text
          /\ UNCHANGED <<key, units, todo, said>>
     ELSE End("error") /\ UNCHANGED object
  /\ UNCHANGED <<Inputs, objectStamp, artifact, artifactStamp>>

FinishCompile(m) ==
  /\ step = "compiling" /\ busy = m
  /\ object' = [object EXCEPT ![m] = Emitted(key.manifest, seen, m)]
  /\ step' = "stamping"
  /\ UNCHANGED <<Inputs, objectStamp, artifact, artifactStamp, local, said>>

(* Mutant: an object is stamped with the texts as they are by now. *)
MutantStampObjectLate(m) ==
  /\ step = "stamping" /\ busy = m
  /\ objectStamp' = [objectStamp EXCEPT ![m] = ModuleKey(key.manifest, text, m)]
  /\ todo' = todo \ {m}
  /\ step' = "modules" /\ busy' = None /\ seen' = None
  /\ UNCHANGED <<Inputs, object, artifact, artifactStamp, key, units, said>>

StampObject(m) ==
  /\ step = "stamping" /\ busy = m
  /\ objectStamp' = [objectStamp EXCEPT ![m] = UnitKey(m)]
  /\ todo' = todo \ {m}
  /\ step' = "modules" /\ busy' = None /\ seen' = None
  /\ UNCHANGED <<Inputs, object, artifact, artifactStamp, key, units, said>>

StartLink ==
  /\ step = "modules" /\ todo = {}
  /\ IF \E m \in Module : object[m] = Torn
     THEN End("error") /\ UNCHANGED artifact
     ELSE /\ artifact' = Torn
          /\ step' = "linking"
          /\ UNCHANGED <<local, said>>
  /\ UNCHANGED <<Inputs, object, objectStamp, artifactStamp>>

FinishLink ==
  /\ step = "linking"
  /\ artifact' = object
  /\ step' = "linked"
  /\ UNCHANGED <<Inputs, object, objectStamp, artifactStamp, local, said>>

(* Mutant: the artifact is stamped with the sources as they are by now. *)
MutantStampLate ==
  /\ step = "linked"
  /\ artifactStamp' = PackageKey(manifest, text)
  /\ End("finished")
  /\ UNCHANGED <<Inputs, object, objectStamp, artifact>>

StampArtifact ==
  /\ step = "linked"
  /\ artifactStamp' = key
  /\ End("finished")
  /\ UNCHANGED <<Inputs, object, objectStamp, artifact>>

Kill ==
  /\ life.killed /\ step # "idle"
  /\ End("killed")
  /\ UNCHANGED <<Inputs, disk>>

Next ==
  \/ \E m \in Module :
       Edit(m) \/ ReuseObject(m) \/ StartCompile(m) \/ FinishCompile(m) \/ StampObject(m)
  \/ EditManifest \/ Begin \/ ReadUnits \/ StartLink \/ FinishLink \/ StampArtifact
  \/ Kill

Spec == Init /\ [][Next]_vars

-----------------------------------------------------------------------------
(* Properties *)

(* An object that can pass for the one slopic would emit for m from src: the
   same code, against the same interfaces, with the same instances.  What the
   names in other modules' interfaces mean may be out of date, unless m holds
   generics: module_interface hashes no `take`, so a library that takes a type
   it names from elsewhere leaves its consumers' keys as they were. *)
PassesFor(o, man, src, m) ==
  /\ o \notin {None, Torn}
  /\ o = [Emitted(man, src, m) EXCEPT !.means = o.means]
  /\ \A n \in Module : o.means[n] # Meanings(src)[n] => n # m /\ ~src[m].generic

(* A program that can pass for what a build from nothing would link. *)
LinksFor(a, man, src) ==
  a \notin {None, Torn} /\ \A m \in Module : PassesFor(a[m], man, src, m)

(* Whenever a build would call the artifact fresh, the artifact is what a
   build from nothing would link, but for what other modules' names have come
   to mean since (docs/architecture.md: flipping a profile setting "in the
   manifest rebuilds"). *)
FreshIsCurrent ==
  step = "idle" /\ artifact # None /\ artifactStamp = PackageKey(manifest, text)
    => LinksFor(artifact, manifest, text)

(* Whenever a build would reuse an object, the object is the one slopic would
   emit from the texts as they are, but for what other modules' names have come
   to mean since: no consumer keeps code compiled against a signature, a constant
   or a set of instances that has changed in the text. *)
ReusedIsCurrent ==
  step = "idle" =>
    \A m \in Module :
      object[m] # None /\ objectStamp[m] = ModuleKey(manifest, text, m)
        => PassesFor(object[m], manifest, text, m)

(* A module without generics is compiled again only if its object could not pass
   for the one that will come out: its own text, the manifest or the text of some
   interface has changed since (docs/architecture.md: "A body-only change keeps
   independent objects fresh"). *)
BodyChangeIsLocal ==
  [][\A m \in Module :
       ~life.during /\ busy # m /\ busy' = m /\ ~text[m].generic
         => ~PassesFor(object[m], key.manifest, text, m)]_vars
=============================================================================
