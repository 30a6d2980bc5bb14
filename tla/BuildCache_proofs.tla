-------------------------- MODULE BuildCache_proofs --------------------------
(***************************************************************************)
(* What a build takes for fresh is current, for any modules, any texts and  *)
(* any manifests.  There are two arguments, one for each way a life can go.  *)
(* Where an earlier text may come back, no build is disturbed: every object  *)
(* on disk is the one its stamp stands for (CalmInv).  Where texts change    *)
(* and builds are killed at any moment, none comes back: a stamp that is not *)
(* current now never will be (ForthInv).  Where both may happen the          *)
(* properties fail, so no life may have both (Undisturbed).                  *)
(***************************************************************************)
EXTENDS BuildCache, TLAPS

(* An earlier text comes back only where builds are left alone. *)
Undisturbed == \A l \in Lives : l.undo => ~l.during /\ ~l.killed

(* No build is killed unless texts change under it too. *)
LeftToFinish == \A l \in Lives : l.killed => l.during

Steps == {"idle", "units", "modules", "compiling", "stamping", "linking", "linked"}
Reading == {"compiling", "stamping"}
Compiled == {"modules", "compiling", "stamping", "linking", "linked"}

TypeOK ==
  /\ life \in Lives
  /\ manifest \in life.manifests
  /\ text \in Texts(life)
  /\ DOMAIN past = Module
  /\ past = [m \in Module |-> past[m]]
  /\ object \in [Module -> Objects(life) \cup {None, Torn}]
  /\ objectStamp = [m \in Module |-> objectStamp[m]]
  /\ step \in Steps
  /\ todo \subseteq Module
  /\ step # "idle" => key.manifest \in life.manifests
  /\ step \in Reading => busy \in todo /\ seen \in Texts(life)

(* A file and its stamp were left by one build of one set of texts, or neither
   was ever written. *)
Paired(o, stamp, m) ==
  \/ o = None /\ stamp = None
  \/ \E man \in life.manifests, src \in Texts(life) :
       o = Emitted(man, src, m) /\ stamp = ModuleKey(man, src, m)
PairedArtifact ==
  \/ artifact = None /\ artifactStamp = None
  \/ \E man \in life.manifests, src \in Texts(life) :
       LinksFor(artifact, man, src) /\ artifactStamp = PackageKey(man, src)

(* A build that is left alone works from the texts that are on disk. *)
CalmInv ==
  /\ step # "idle" => key = PackageKey(manifest, text)
  /\ step \in Compiled => units = text
  /\ step \in Reading => seen = text
  /\ \A m \in Module : ~(step \in Reading /\ m = busy) => Paired(object[m], objectStamp[m], m)
  /\ step = "stamping" => object[busy] = Emitted(manifest, text, busy)
  /\ step \in Compiled =>
       \A m \in Module \ todo : objectStamp[m] = ModuleKey(manifest, text, m) /\ object[m] # None
  /\ step \in {"linking", "linked"} => todo = {}
  /\ step \notin {"linking", "linked"} => PairedArtifact
  /\ step = "linked" => LinksFor(artifact, manifest, text)

(* Texts somebody has read: what they said then is what is said now, or is
   past. *)
Read(src) ==
  /\ src \in Texts(life)
  /\ \A m \in Module :
       Said(src[m]) \subseteq past[m] \cup Said(text[m])

(* Texts b were read after texts a: what still held of a held of b. *)
Since(a, b) ==
  \A m \in Module :
    /\ a[m].body = text[m].body => b[m].body = text[m].body
    /\ a[m].iface = text[m].iface => b[m].iface = text[m].iface
    /\ a[m].takes = text[m].takes => b[m].takes = text[m].takes

IsCurrent(stamp, m) == stamp = ModuleKey(manifest, text, m)

NothingComesBack == \A m \in Module : past[m] \cap Said(text[m]) = {}

(* Every key on disk is of texts that were read, and what bears a current key is
   current. *)
ObjectOK(m) ==
  /\ \/ objectStamp[m] = None
     \/ \E src \in Texts(life) : Read(src) /\ objectStamp[m] = ModuleKey(manifest, src, m)
  /\ IsCurrent(objectStamp[m], m) => PassesFor(object[m], manifest, text, m)
ArtifactOK ==
  /\ \/ artifactStamp = None
     \/ \E src \in Texts(life) : Read(src) /\ artifactStamp = PackageKey(manifest, src)
  /\ artifactStamp = PackageKey(manifest, text) => LinksFor(artifact, manifest, text)

(* A build reads the texts for its key, then for the units, then for each object;
   what it compiles or links again bears no current key meanwhile. *)
BuildOK ==
  /\ step # "idle" =>
       /\ key = PackageKey(manifest, key.sources) /\ Read(key.sources)
       /\ artifactStamp # PackageKey(manifest, text)
  /\ step \in Compiled =>
       /\ Read(units) /\ Since(key.sources, units)
       /\ \A m \in todo : IsCurrent(objectStamp[m], m) => IsCurrent(UnitKey(m), m)
       /\ \A m \in Module \ todo : objectStamp[m] = UnitKey(m)
  /\ step \in Reading =>
       /\ Read(seen) /\ Since(units, seen)
       /\ ~IsCurrent(objectStamp[busy], busy)
  /\ step = "stamping" => object[busy] = Emitted(manifest, seen, busy)
  /\ step \in {"linking", "linked"} => todo = {}
  /\ step = "linked" /\ key.sources = text => LinksFor(artifact, manifest, text)

ForthInv ==
  /\ NothingComesBack
  /\ \A m \in Module : ObjectOK(m)
  /\ ArtifactOK
  /\ BuildOK

CacheInv ==
  /\ TypeOK
  /\ ~life.during /\ ~life.killed => CalmInv
  /\ ~life.undo => ForthInv

-----------------------------------------------------------------------------
(* Texts and keys *)

(* Two texts of a module are the same when they say the same in every part, and
   no part can be taken for another. *)
LEMMA TextsApart ==
  ASSUME NEW l \in Lives, NEW a \in Texts(l), NEW b \in Texts(l), NEW m \in Module
  PROVE  /\ a[m].body # b[m].iface /\ a[m].body # b[m].takes /\ a[m].iface # b[m].takes
         /\ a[m].body = b[m].body /\ a[m].iface = b[m].iface /\ a[m].takes = b[m].takes
              => a[m] = b[m]
<1>1. a[m] \in l.sources[m] /\ b[m] \in l.sources[m]
  BY DEF Texts
<1>. QED BY <1>1, LivesAssumption

(* Source trees that agree on every module are the same. *)
LEMMA SameTexts ==
  ASSUME NEW l \in Lives, NEW a \in Texts(l), NEW b \in Texts(l),
         \A m \in Module : a[m] = b[m]
  PROVE  a = b
  BY DEF Texts

(* What is emitted is among the objects, and neither missing nor unfinished. *)
LEMMA EmittedIsObject ==
  ASSUME NEW l \in Lives, NEW man \in l.manifests, NEW src \in Texts(l), NEW m \in Module
  PROVE  Emitted(man, src, m) \in Objects(l) /\ Emitted(man, src, m) \notin {None, Torn}
<1>1. Emitted(man, src, m) \in Objects(l)
  BY DEF Objects
<1>. QED BY <1>1, NoneAssumption

(* Objects emitted from texts of one key differ in nothing but what other modules'
   names mean, and in nothing at all for a module with generics. *)
LEMMA KeyDecidesObject ==
  ASSUME NEW l \in Lives, NEW a \in Texts(l), NEW b \in Texts(l), NEW m \in Module,
         NEW man \in l.manifests, NEW other, ModuleKey(man, a, m) = ModuleKey(other, b, m)
  PROVE  /\ man = other /\ a[m] = b[m]
         /\ \A n \in Module : a[n].iface = b[n].iface
         /\ a[m].generic => a = b
         /\ PassesFor(Emitted(man, a, m), other, b, m)
<1>1. man = other /\ a[m] = b[m] /\ Interfaces(a) = Interfaces(b)
  BY DEF ModuleKey
<1>2. \A n \in Module : a[n].iface = b[n].iface
  BY <1>1 DEF Interfaces
<1>3. ASSUME a[m].generic PROVE a = b
  <2>1. {<<n, a[n]>> : n \in Module} = {<<n, b[n]>> : n \in Module}
    BY <1>1, <1>3 DEF ModuleKey
  <2>2. ASSUME NEW n \in Module PROVE a[n] = b[n]
    <3>1. <<n, a[n]>> \in {<<k, b[k]>> : k \in Module}
      BY <2>1
    <3>. QED BY <3>1
  <2>. QED BY <2>2, SameTexts
<1>4. Emitted(man, a, m) \notin {None, Torn}
  BY EmittedIsObject
<1>5. Emitted(man, a, m) = [Emitted(other, b, m) EXCEPT !.means = Emitted(man, a, m).means]
  <2>1. Instances(a, m) = Instances(b, m)
    BY <1>1, <1>3 DEF Instances
  <2>. QED BY <1>1, <2>1 DEF Emitted
<1>6. ASSUME NEW n \in Module, Emitted(man, a, m).means[n] # Meanings(b)[n]
      PROVE  n # m /\ ~b[m].generic
  <2>1. a[n].takes # b[n].takes
    BY <1>6 DEF Emitted, Meanings
  <2>. QED BY <1>1, <1>3, <2>1
<1>. QED BY <1>1, <1>2, <1>3, <1>4, <1>5, <1>6 DEF PassesFor

(* And the key holds nothing more of other modules than the interfaces, for a
   module without generics. *)
LEMMA SameKeys ==
  ASSUME NEW l \in Lives, NEW a \in Texts(l), NEW b \in Texts(l), NEW m \in Module,
         NEW man, a[m] = b[m], \A n \in Module : a[n].iface = b[n].iface,
         a[m].generic => a = b
  PROVE  ModuleKey(man, a, m) = ModuleKey(man, b, m)
<1>1. Interfaces(a) = Interfaces(b)
  BY DEF Interfaces
<1>. QED BY <1>1 DEF ModuleKey

(* What passes for an object without generics still does after other modules have
   changed behind their interfaces. *)
LEMMA StillPasses ==
  ASSUME NEW l \in Lives, NEW a \in Texts(l), NEW b \in Texts(l), NEW m \in Module,
         NEW man, a[m] = b[m], \A n \in Module : a[n].iface = b[n].iface,
         ~a[m].generic, NEW o, PassesFor(o, man, a, m)
  PROVE  PassesFor(o, man, b, m)
<1>1. Interfaces(a) = Interfaces(b) /\ Meanings(a)[m] = Meanings(b)[m]
  BY DEF Interfaces, Meanings
<1>2. [Emitted(man, a, m) EXCEPT !.means = o.means] = [Emitted(man, b, m) EXCEPT !.means = o.means]
  <2>1. Instances(a, m) = Instances(b, m)
    BY DEF Instances
  <2>. QED BY <1>1, <2>1 DEF Emitted
<1>. QED BY <1>1, <1>2 DEF PassesFor

(* Objects that all pass are linked into a program that passes. *)
LEMMA PassingLinks ==
  ASSUME NEW l \in Lives, NEW f \in [Module -> Objects(l) \cup {None, Torn}], NEW man, NEW src,
         \A m \in Module : PassesFor(f[m], man, src, m)
  PROVE  LinksFor(f, man, src)
<1>1. \A m \in Module : f[m] \in Objects(l)
  BY DEF PassesFor
<1>2. f \in [Module -> Objects(l)]
  BY <1>1
<1>3. f \notin {None, Torn}
  BY <1>2, NoneAssumption
<1>. QED BY <1>3 DEF LinksFor

(* Texts that were read later are current in all that earlier ones still are. *)
LEMMA SinceCurrent ==
  ASSUME TypeOK, NEW a \in Texts(life), NEW b \in Texts(life), Since(a, b),
         NEW man \in life.manifests
  PROVE  /\ a = text => b = text
         /\ \A m \in Module :
              ModuleKey(man, a, m) = ModuleKey(man, text, m)
                => /\ ModuleKey(man, b, m) = ModuleKey(man, text, m)
                   /\ PassesFor(Emitted(man, b, m), man, text, m)
<1>1. life \in Lives /\ text \in Texts(life)
  BY DEF TypeOK
<1>2. ASSUME a = text PROVE b = text
  <2>1. \A m \in Module : b[m] = text[m]
    BY <1>1, <1>2, TextsApart DEF Since
  <2>. QED BY <1>1, <2>1, SameTexts
<1>3. ASSUME NEW m \in Module, ModuleKey(man, a, m) = ModuleKey(man, text, m)
      PROVE  /\ ModuleKey(man, b, m) = ModuleKey(man, text, m)
             /\ PassesFor(Emitted(man, b, m), man, text, m)
  <2>1. /\ a[m] = text[m]
        /\ \A n \in Module : a[n].iface = text[n].iface
        /\ a[m].generic => a = text
    BY <1>1, <1>3, KeyDecidesObject
  <2>2. \A n \in Module : b[n].iface = text[n].iface
    BY <2>1 DEF Since
  <2>3. b[m] = text[m]
    BY <1>1, <2>1, TextsApart DEF Since
  <2>4. ModuleKey(man, b, m) = ModuleKey(man, text, m)
    BY <1>1, <1>2, <2>1, <2>2, <2>3, SameKeys
  <2>. QED BY <1>1, <2>4, KeyDecidesObject
<1>. QED BY <1>2, <1>3

(* An edit in a life without undo puts nothing back: texts that were read stay
   known, what was read later stays later, and a key that is current after it
   was current before. *)
LEMMA EditGoesForth ==
  ASSUME TypeOK, ~life.undo, NEW e \in Module, Edit(e),
         NothingComesBack
  PROVE  /\ text' \in Texts(life) /\ NothingComesBack'
         /\ \A src : Read(src) => Read(src)' /\ src # text'
         /\ \A a, b : Read(a) /\ Since(a, b) => Since(a, b)'
         /\ \A src : \A man \in life.manifests, m \in Module :
              Read(src) /\ ModuleKey(man, src, m) = ModuleKey(man, text', m)
                => /\ ModuleKey(man, text', m) = ModuleKey(man, text, m)
                   /\ \A o : PassesFor(o, man, text, m) => PassesFor(o, man, text', m)
<1>1. life \in Lives /\ text \in Texts(life) /\ life' = life
  BY DEF TypeOK, Edit
<1>2. PICK s \in life.sources[e] \ {text[e]} :
        /\ Said(s) \cap past[e] = {}
        /\ text' = [text EXCEPT ![e] = s]
        /\ past' = [past EXCEPT ![e] = @ \cup (Said(text[e]) \ Said(s))]
  BY DEF Edit
<1>3. text' \in Texts(life)
  BY <1>1, <1>2 DEF Texts
<1>4. /\ text'[e] = s /\ s # text[e]
      /\ past'[e] = past[e] \cup (Said(text[e]) \ Said(s))
      /\ \A m \in Module \ {e} : text'[m] = text[m] /\ past'[m] = past[m]
  BY <1>1, <1>2 DEF TypeOK, Texts
<1>5. \A m \in Module : past'[m] \cap Said(text'[m]) = {}
  <2>1. ASSUME NEW m \in Module PROVE past'[m] \cap Said(text'[m]) = {}
    <3>1. CASE m = e
      BY <3>1, <1>2, <1>4
    <3>2. CASE m # e
      BY <3>2, <1>4 DEF NothingComesBack
    <3>. QED BY <3>1, <3>2
  <2>. QED BY <2>1
(* What is read of a text is read of what it says now, or never said again. *)
<1>6. ASSUME NEW src, Read(src), NEW m \in Module
      PROVE  /\ src[m].body = text'[m].body => text'[m].body = text[m].body
             /\ src[m].iface = text'[m].iface => text'[m].iface = text[m].iface
             /\ src[m].takes = text'[m].takes => text'[m].takes = text[m].takes
  <2>1. src \in Texts(life) /\ Said(src[m]) \subseteq past[m] \cup Said(text[m])
    BY <1>6 DEF Read
  <2>2. /\ src[m].body # text[m].iface /\ src[m].body # text[m].takes
        /\ src[m].iface # text[m].body /\ src[m].iface # text[m].takes
        /\ src[m].takes # text[m].body /\ src[m].takes # text[m].iface
    BY <1>1, <2>1, TextsApart
  <2>3. CASE m = e
    <3>1. /\ src[m].body \in past[e] \cup {text[e].body}
          /\ src[m].iface \in past[e] \cup {text[e].iface}
          /\ src[m].takes \in past[e] \cup {text[e].takes}
      BY <2>1, <2>2, <2>3 DEF Said
    <3>2. s.body \notin past[e] /\ s.iface \notin past[e] /\ s.takes \notin past[e]
      BY <1>2 DEF Said
    <3>. QED BY <3>1, <3>2, <2>3, <1>4
  <2>4. CASE m # e
    BY <2>4, <1>4
  <2>. QED BY <2>3, <2>4
<1>7. ASSUME NEW src, Read(src) PROVE Read(src)'
  <2>1. ASSUME NEW m \in Module
        PROVE Said(src[m]) \subseteq past'[m] \cup Said(text'[m])
    <3>1. Said(src[m]) \subseteq past[m] \cup Said(text[m])
      BY <1>7 DEF Read
    <3>2. CASE m = e
      BY <3>1, <3>2, <1>4
    <3>3. CASE m # e
      BY <3>1, <3>3, <1>4
    <3>. QED BY <3>2, <3>3
  <2>. QED BY <1>1, <1>7, <2>1 DEF Read
<1>8. ASSUME NEW src, Read(src) PROVE src # text'
  <2>1. SUFFICES ASSUME src = text' PROVE FALSE
    OBVIOUS
  <2>2. s.body = text[e].body /\ s.iface = text[e].iface /\ s.takes = text[e].takes
    BY <2>1, <1>4, <1>6, <1>8
  <2>. QED BY <2>2, <1>1, <1>3, <1>4, TextsApart
<1>9. ASSUME NEW a, NEW b, Read(a), Since(a, b) PROVE Since(a, b)'
  BY <1>6, <1>9 DEF Since
<1>10. ASSUME NEW src, NEW man \in life.manifests, NEW m \in Module, Read(src),
              ModuleKey(man, src, m) = ModuleKey(man, text', m)
       PROVE  /\ ModuleKey(man, text', m) = ModuleKey(man, text, m)
              /\ \A o : PassesFor(o, man, text, m) => PassesFor(o, man, text', m)
  <2>1. src \in Texts(life)
    BY <1>10 DEF Read
  <2>2. /\ src[m] = text'[m]
        /\ \A n \in Module : src[n].iface = text'[n].iface
        /\ src[m].generic => src = text'
    BY <1>1, <1>3, <1>10, <2>1, KeyDecidesObject
  <2>3. \A n \in Module : text'[n].iface = text[n].iface
    BY <1>6, <1>10, <2>2
  <2>4. text'[m] = text[m]
    BY <1>1, <1>3, <1>6, <1>10, <2>2, TextsApart
  <2>5. ~text'[m].generic
    BY <1>8, <1>10, <2>2
  <2>6. ModuleKey(man, text', m) = ModuleKey(man, text, m)
    BY <1>1, <1>3, <2>3, <2>4, <2>5, SameKeys
  <2>7. ASSUME NEW o, PassesFor(o, man, text, m) PROVE PassesFor(o, man, text', m)
    <3>1. text[m] = text'[m] /\ ~text[m].generic /\ \A n \in Module : text[n].iface = text'[n].iface
      BY <2>3, <2>4, <2>5
    <3>. QED BY <1>1, <1>3, <2>7, <3>1, StillPasses
  <2>. QED BY <2>6, <2>7
<1>. QED BY <1>3, <1>5, <1>7, <1>8, <1>9, <1>10 DEF NothingComesBack
-----------------------------------------------------------------------------
(* The inductive invariant: types *)

(* Before the first build nothing is cached. *)
LEMMA TypeInit == Init => TypeOK
  BY DEF Init, TypeOK, Steps, Reading

(* Edits, builds and kills leave the state what it should look like. *)
LEMMA TypeStep == TypeOK /\ [Next]_vars => TypeOK' /\ life' = life
<1>. SUFFICES ASSUME TypeOK, [Next]_vars PROVE TypeOK' /\ life' = life
  OBVIOUS
<1>. USE DEF TypeOK, Steps, Reading, vars, Inputs, disk, local
<1>1. ASSUME NEW e \in Module, Edit(e) PROVE TypeOK' /\ life' = life
  <2>1. PICK s \in life.sources[e] :
          /\ text' = [text EXCEPT ![e] = s]
          /\ \/ past' = past
             \/ past' = [past EXCEPT ![e] = @ \cup (Said(text[e]) \ Said(s))]
    BY <1>1 DEF Edit
  <2>2. text' \in Texts(life)
    BY <2>1 DEF Texts
  <2>3. DOMAIN past' = Module /\ past' = [m \in Module |-> past'[m]]
    BY <2>1
  <2>. QED BY <1>1, <2>2, <2>3 DEF Edit
<1>2. CASE EditManifest
  BY <1>2 DEF EditManifest
<1>3. CASE Begin
  BY <1>3 DEF Begin, End, PackageKey
<1>4. CASE ReadUnits
  BY <1>4 DEF ReadUnits
<1>5. ASSUME NEW m \in Module, ReuseObject(m) PROVE TypeOK' /\ life' = life
  BY <1>5 DEF ReuseObject
<1>6. ASSUME NEW m \in Module, StartCompile(m) PROVE TypeOK' /\ life' = life
  BY <1>6 DEF StartCompile, End
<1>7. ASSUME NEW m \in Module, FinishCompile(m) PROVE TypeOK' /\ life' = life
  <2>1. Emitted(key.manifest, seen, m) \in Objects(life)
    BY <1>7, EmittedIsObject DEF FinishCompile
  <2>. QED BY <1>7, <2>1 DEF FinishCompile
<1>8. ASSUME NEW m \in Module, StampObject(m) PROVE TypeOK' /\ life' = life
  BY <1>8 DEF StampObject
<1>9. CASE StartLink
  BY <1>9 DEF StartLink, End
<1>10. CASE FinishLink
  BY <1>10 DEF FinishLink
<1>11. CASE StampArtifact
  BY <1>11 DEF StampArtifact, End
<1>12. CASE Kill
  BY <1>12 DEF Kill, End
<1>13. CASE UNCHANGED vars
  BY <1>13 DEF Texts
<1>. QED
  BY <1>1, <1>2, <1>3, <1>4, <1>5, <1>6, <1>7, <1>8, <1>9, <1>10, <1>11, <1>12, <1>13 DEF Next

-----------------------------------------------------------------------------
(* The inductive invariant: builds that are left alone *)

(* At first there are no files, and no stamps for them. *)
LEMMA CalmInit == Init => CalmInv
  BY DEF Init, CalmInv, Paired, PairedArtifact, Reading, Compiled

(* What is paired stays paired when neither the file nor its stamp changes. *)
LEMMA PairedLasts ==
  ASSUME life' = life, NEW m, object'[m] = object[m], objectStamp'[m] = objectStamp[m],
         Paired(object[m], objectStamp[m], m)
  PROVE  Paired(object[m], objectStamp[m], m)'
  BY DEF Paired

(* So does the linked program and its stamp. *)
LEMMA PairedArtifactLasts ==
  ASSUME life' = life, artifact' = artifact, artifactStamp' = artifactStamp, PairedArtifact
  PROVE  PairedArtifact'
  BY DEF PairedArtifact

(* Where no build is killed or overtaken by an edit, each file stays paired with
   its stamp. *)
LEMMA CalmStep ==
  ASSUME TypeOK, ~life.during, ~life.killed, CalmInv, [Next]_vars
  PROVE  CalmInv'
<1>. USE DEF Reading, Compiled, Inputs, disk, local
<1>0. life' = life /\ life \in Lives /\ TypeOK'
  BY TypeStep DEF TypeOK
<1>1. ASSUME NEW e \in Module, Edit(e) PROVE CalmInv'
  <2>1. step = "idle" /\ step' = step /\ UNCHANGED disk
    BY <1>1 DEF Edit
  <2>2. \A m \in Module : Paired(object[m], objectStamp[m], m)'
    BY <1>0, <2>1, PairedLasts DEF CalmInv
  <2>3. PairedArtifact'
    BY <1>0, <2>1, PairedArtifactLasts DEF CalmInv
  <2>. QED BY <2>1, <2>2, <2>3 DEF CalmInv
<1>2. CASE EditManifest
  <2>1. step = "idle" /\ step' = step /\ UNCHANGED disk
    BY <1>2 DEF EditManifest
  <2>2. \A m \in Module : Paired(object[m], objectStamp[m], m)'
    BY <1>0, <2>1, PairedLasts DEF CalmInv
  <2>3. PairedArtifact'
    BY <1>0, <2>1, PairedArtifactLasts DEF CalmInv
  <2>. QED BY <2>1, <2>2, <2>3 DEF CalmInv
<1>3. CASE Begin
  <2>1. /\ step = "idle" /\ step' \in {"idle", "units"} /\ UNCHANGED <<Inputs, disk>>
        /\ step' = "units" => key' = PackageKey(manifest, text)
    BY <1>3 DEF Begin, End
  <2>2. \A m \in Module : Paired(object[m], objectStamp[m], m)'
    BY <1>0, <2>1, PairedLasts DEF CalmInv
  <2>3. PairedArtifact'
    BY <1>0, <2>1, PairedArtifactLasts DEF CalmInv
  <2>. QED BY <2>1, <2>2, <2>3 DEF CalmInv
<1>4. CASE ReadUnits
  <2>1. /\ step = "units" /\ step' = "modules" /\ units' = text /\ todo' = Module
        /\ UNCHANGED <<Inputs, disk, key>>
    BY <1>4 DEF ReadUnits
  <2>2. \A m \in Module : Paired(object[m], objectStamp[m], m)'
    BY <1>0, <2>1, PairedLasts DEF CalmInv
  <2>3. PairedArtifact'
    BY <1>0, <2>1, PairedArtifactLasts DEF CalmInv
  <2>. QED BY <2>1, <2>2, <2>3 DEF CalmInv
<1>5. ASSUME NEW k \in Module, ReuseObject(k) PROVE CalmInv'
  <2>1. /\ step = "modules" /\ step' = step /\ todo' = todo \ {k}
        /\ object[k] # None /\ objectStamp[k] = UnitKey(k)
        /\ UNCHANGED <<Inputs, disk, key, units>>
    BY <1>5 DEF ReuseObject, IsFresh
  <2>2. UnitKey(k) = ModuleKey(manifest, text, k)
    BY <2>1 DEF CalmInv, UnitKey, PackageKey
  <2>3. \A m \in Module : Paired(object[m], objectStamp[m], m)'
    BY <1>0, <2>1, PairedLasts DEF CalmInv
  <2>4. PairedArtifact'
    BY <1>0, <2>1, PairedArtifactLasts DEF CalmInv
  <2>. QED BY <2>1, <2>2, <2>3, <2>4 DEF CalmInv
<1>6. ASSUME NEW k \in Module, StartCompile(k) PROVE CalmInv'
  <2>1. CASE Compiles(text)
    <3>1. /\ step = "modules" /\ step' = "compiling" /\ busy' = k /\ seen' = text /\ k \in todo
          /\ object' = [object EXCEPT ![k] = Torn]
          /\ UNCHANGED <<Inputs, objectStamp, artifact, artifactStamp, key, units, todo>>
      BY <1>6, <2>1 DEF StartCompile
    <3>2. \A m \in Module \ {k} : object'[m] = object[m]
      BY <3>1 DEF TypeOK
    <3>3. \A m \in Module \ {k} : Paired(object[m], objectStamp[m], m)'
      BY <1>0, <3>1, <3>2, PairedLasts DEF CalmInv
    <3>4. PairedArtifact'
      BY <1>0, <3>1, PairedArtifactLasts DEF CalmInv
    <3>. QED BY <3>1, <3>2, <3>3, <3>4 DEF CalmInv
  <2>2. CASE ~Compiles(text)
    <3>1. step = "modules" /\ step' = "idle" /\ UNCHANGED <<Inputs, disk>>
      BY <1>6, <2>2 DEF StartCompile, End
    <3>2. \A m \in Module : Paired(object[m], objectStamp[m], m)'
      BY <1>0, <3>1, PairedLasts DEF CalmInv
    <3>3. PairedArtifact'
      BY <1>0, <3>1, PairedArtifactLasts DEF CalmInv
    <3>. QED BY <3>1, <3>2, <3>3 DEF CalmInv
  <2>. QED BY <2>1, <2>2
<1>7. ASSUME NEW k \in Module, FinishCompile(k) PROVE CalmInv'
  <2>1. /\ step = "compiling" /\ step' = "stamping" /\ busy = k /\ busy' = k
        /\ object' = [object EXCEPT ![k] = Emitted(key.manifest, seen, k)]
        /\ UNCHANGED <<Inputs, objectStamp, artifact, artifactStamp, key, units, todo, seen>>
    BY <1>7 DEF FinishCompile
  <2>2. \A m \in Module \ {k} : object'[m] = object[m]
    BY <2>1 DEF TypeOK
  <2>3. \A m \in Module \ {k} : Paired(object[m], objectStamp[m], m)'
    BY <1>0, <2>1, <2>2, PairedLasts DEF CalmInv
  <2>4. PairedArtifact'
    BY <1>0, <2>1, PairedArtifactLasts DEF CalmInv
  <2>5. object'[k] = Emitted(manifest, text, k)
    BY <2>1 DEF CalmInv, PackageKey, TypeOK
  <2>6. k \in todo
    BY <2>1 DEF TypeOK
  <2>. QED BY <2>1, <2>2, <2>3, <2>4, <2>5, <2>6 DEF CalmInv
<1>8. ASSUME NEW k \in Module, StampObject(k) PROVE CalmInv'
  <2>1. /\ step = "stamping" /\ step' = "modules" /\ busy = k /\ todo' = todo \ {k}
        /\ objectStamp' = [objectStamp EXCEPT ![k] = UnitKey(k)]
        /\ UNCHANGED <<Inputs, object, artifact, artifactStamp, key, units>>
    BY <1>8 DEF StampObject
  <2>2. /\ objectStamp'[k] = ModuleKey(manifest, text, k)
        /\ object[k] = Emitted(manifest, text, k)
    BY <2>1 DEF CalmInv, UnitKey, PackageKey, TypeOK
  <2>3. \A m \in Module \ {k} : objectStamp'[m] = objectStamp[m]
    BY <2>1 DEF TypeOK
  <2>4. Paired(object[k], objectStamp[k], k)'
    BY <1>0, <2>1, <2>2 DEF Paired, TypeOK
  <2>5. \A m \in Module \ {k} : Paired(object[m], objectStamp[m], m)'
    BY <1>0, <2>1, <2>3, PairedLasts DEF CalmInv
  <2>6. PairedArtifact'
    BY <1>0, <2>1, PairedArtifactLasts DEF CalmInv
  <2>7. object[k] # None
    BY <1>0, <2>2, EmittedIsObject DEF TypeOK
  <2>. QED BY <2>1, <2>2, <2>3, <2>4, <2>5, <2>6, <2>7 DEF CalmInv
<1>9. CASE StartLink
  <2>1. /\ step = "modules" /\ step' \in {"idle", "linking"} /\ todo = {}
        /\ UNCHANGED <<Inputs, object, objectStamp, artifactStamp>>
        /\ step' = "idle" => artifact' = artifact
        /\ step' = "linking" => UNCHANGED local
    BY <1>9 DEF StartLink, End
  <2>2. \A m \in Module : Paired(object[m], objectStamp[m], m)'
    BY <1>0, <2>1, PairedLasts DEF CalmInv
  <2>3. step' = "idle" => PairedArtifact'
    BY <1>0, <2>1, PairedArtifactLasts DEF CalmInv
  <2>. QED BY <2>1, <2>2, <2>3 DEF CalmInv
<1>10. CASE FinishLink
  <2>1. /\ step = "linking" /\ step' = "linked" /\ artifact' = object
        /\ UNCHANGED <<Inputs, object, objectStamp, artifactStamp, local>>
    BY <1>10 DEF FinishLink
  <2>2. \A m \in Module : Paired(object[m], objectStamp[m], m)'
    BY <1>0, <2>1, PairedLasts DEF CalmInv
  <2>3. ASSUME NEW m \in Module PROVE PassesFor(object[m], manifest, text, m)
    <3>1. objectStamp[m] = ModuleKey(manifest, text, m) /\ object[m] # None
      BY <2>1 DEF CalmInv
    <3>2. PICK man \in life.manifests, src \in Texts(life) :
            object[m] = Emitted(man, src, m) /\ objectStamp[m] = ModuleKey(man, src, m)
      BY <2>1, <3>1 DEF CalmInv, Paired
    <3>3. ModuleKey(man, src, m) = ModuleKey(manifest, text, m) /\ text \in Texts(life)
      BY <3>1, <3>2 DEF TypeOK
    <3>4. PassesFor(Emitted(man, src, m), manifest, text, m)
      BY <1>0, <3>3, KeyDecidesObject
    <3>. QED BY <3>2, <3>4
  <2>4. LinksFor(object, manifest, text)
    BY <1>0, <2>3, PassingLinks DEF TypeOK
  <2>. QED BY <2>1, <2>2, <2>4 DEF CalmInv
<1>11. CASE StampArtifact
  <2>1. /\ step = "linked" /\ step' = "idle" /\ artifactStamp' = key
        /\ UNCHANGED <<Inputs, object, objectStamp, artifact>>
    BY <1>11 DEF StampArtifact, End
  <2>2. \A m \in Module : Paired(object[m], objectStamp[m], m)'
    BY <1>0, <2>1, PairedLasts DEF CalmInv
  <2>3. PairedArtifact'
    BY <1>0, <2>1 DEF PairedArtifact, CalmInv, TypeOK
  <2>. QED BY <2>1, <2>2, <2>3 DEF CalmInv
<1>12. CASE Kill
  BY <1>12 DEF Kill
<1>13. CASE UNCHANGED vars
  <2>1. UNCHANGED <<Inputs, disk, step, local>>
    BY <1>13 DEF vars
  <2>2. \A m \in Module : Paired(object[m], objectStamp[m], m) => Paired(object[m], objectStamp[m], m)'
    BY <1>0, <2>1, PairedLasts
  <2>3. PairedArtifact => PairedArtifact'
    BY <1>0, <2>1, PairedArtifactLasts
  <2>. QED BY <2>1, <2>2, <2>3 DEF CalmInv
<1>. QED
  BY <1>1, <1>2, <1>3, <1>4, <1>5, <1>6, <1>7, <1>8, <1>9, <1>10, <1>11, <1>12, <1>13 DEF Next
-----------------------------------------------------------------------------
(* The inductive invariant: builds among edits and kills *)

(* What is not there yet is not out of date. *)
LEMMA ForthInit == Init => ForthInv
<1>. SUFFICES ASSUME Init PROVE ForthInv
  OBVIOUS
<1>1. life \in Lives /\ manifest \in life.manifests /\ text \in Texts(life)
  BY DEF Init
<1>2. NothingComesBack
  BY DEF Init, NothingComesBack
<1>3. ASSUME NEW m \in Module PROVE ObjectOK(m)
  <2>1. objectStamp[m] = None
    BY DEF Init
  <2>. QED BY <1>1, <2>1, NoneAssumption DEF ObjectOK, IsCurrent
<1>4. ArtifactOK
  BY <1>1, NoneAssumption DEF Init, ArtifactOK
<1>5. BuildOK
  BY DEF Init, BuildOK, Reading, Compiled
<1>. QED BY <1>2, <1>3, <1>4, <1>5 DEF ForthInv

(* As long as no text changes, what was read stays read and current. *)
LEMMA StillRead ==
  ASSUME UNCHANGED Inputs
  PROVE  /\ \A src : Read(src) => Read(src)'
         /\ \A a, b : Since(a, b) => Since(a, b)'
         /\ NothingComesBack => NothingComesBack'
  BY DEF Inputs, Read, Since, NothingComesBack

(* A cached object that is current stays so while manifest and sources do not
   change. *)
LEMMA ObjectLasts ==
  ASSUME UNCHANGED Inputs, NEW m, object'[m] = object[m], objectStamp'[m] = objectStamp[m],
         ObjectOK(m)
  PROVE  ObjectOK(m)'
  BY StillRead DEF ObjectOK, IsCurrent, Inputs

(* So does the linked program. *)
LEMMA ArtifactLasts ==
  ASSUME UNCHANGED Inputs, UNCHANGED <<artifact, artifactStamp>>, ArtifactOK
  PROVE  ArtifactOK'
  BY StillRead DEF ArtifactOK, Inputs

(* An edit that nobody takes back makes no object of an older text current again.
   *)
LEMMA ForthEdit ==
  ASSUME TypeOK, ~life.undo, ForthInv, NEW e \in Module, Edit(e)
  PROVE  ForthInv'
<1>. USE DEF Reading, Compiled
<1>1. UNCHANGED <<life, manifest, disk, step, local, said>>
  BY DEF Edit
<1>2. /\ text' \in Texts(life) /\ NothingComesBack'
      /\ \A src : Read(src) => Read(src)' /\ src # text'
      /\ \A a, b : Read(a) /\ Since(a, b) => Since(a, b)'
      /\ \A src : \A man \in life.manifests, m \in Module :
           Read(src) /\ ModuleKey(man, src, m) = ModuleKey(man, text', m)
             => /\ ModuleKey(man, text', m) = ModuleKey(man, text, m)
                /\ \A o : PassesFor(o, man, text, m) => PassesFor(o, man, text', m)
  BY EditGoesForth DEF ForthInv
<1>3. life \in Lives /\ manifest \in life.manifests
  BY DEF TypeOK
(* A key on disk that is current now was current before. *)
<1>4. ASSUME NEW m \in Module, IsCurrent(objectStamp[m], m)'
      PROVE  /\ IsCurrent(objectStamp[m], m)
             /\ ModuleKey(manifest, text', m) = ModuleKey(manifest, text, m)
             /\ \A o : PassesFor(o, manifest, text, m) => PassesFor(o, manifest, text', m)
  <2>1. objectStamp[m] = ModuleKey(manifest, text', m)
    BY <1>1, <1>4 DEF IsCurrent, disk
  <2>2. objectStamp[m] # None
    BY <1>2, <1>3, <2>1, NoneAssumption
  <2>3. PICK src \in Texts(life) : Read(src) /\ objectStamp[m] = ModuleKey(manifest, src, m)
    BY <2>2 DEF ForthInv, ObjectOK
  <2>4. /\ ModuleKey(manifest, text', m) = ModuleKey(manifest, text, m)
        /\ \A o : PassesFor(o, manifest, text, m) => PassesFor(o, manifest, text', m)
    BY <1>2, <1>3, <2>1, <2>3
  <2>. QED BY <2>1, <2>4 DEF IsCurrent
<1>5. artifactStamp' # PackageKey(manifest', text')
  <2>1. artifactStamp # PackageKey(manifest, text')
    <3>1. CASE artifactStamp = None
      BY <3>1, <1>2, <1>3, NoneAssumption
    <3>2. ASSUME NEW src \in Texts(life), Read(src), artifactStamp = PackageKey(manifest, src)
          PROVE  artifactStamp # PackageKey(manifest, text')
      BY <3>2, <1>2 DEF PackageKey
    <3>. QED BY <3>1, <3>2 DEF ForthInv, ArtifactOK
  <2>. QED BY <1>1, <2>1 DEF disk
<1>6. ASSUME NEW m \in Module PROVE ObjectOK(m)'
  <2>1. \/ objectStamp[m] = None
        \/ \E src \in Texts(life) : Read(src)' /\ objectStamp[m] = ModuleKey(manifest, src, m)
    BY <1>2 DEF ForthInv, ObjectOK
  <2>2. IsCurrent(objectStamp[m], m)' => PassesFor(object[m], manifest, text', m)
    BY <1>4 DEF ForthInv, ObjectOK
  <2>. QED BY <1>1, <2>1, <2>2 DEF ObjectOK, disk
<1>7. ArtifactOK'
  <2>1. \/ artifactStamp = None
        \/ \E src \in Texts(life) : Read(src)' /\ artifactStamp = PackageKey(manifest, src)
    BY <1>2 DEF ForthInv, ArtifactOK
  <2>. QED BY <1>1, <1>5, <2>1 DEF ArtifactOK, disk
<1>8. BuildOK'
  <2>1. step # "idle" => /\ key = PackageKey(manifest, key.sources) /\ Read(key.sources)'
                         /\ key.sources # text'
    BY <1>1, <1>2 DEF ForthInv, BuildOK, local
  <2>2. step \in Compiled => Read(units)' /\ Since(key.sources, units)'
    BY <1>1, <1>2 DEF ForthInv, BuildOK, local
  <2>3. ASSUME NEW m \in todo, step \in Compiled, IsCurrent(objectStamp[m], m)'
        PROVE  IsCurrent(UnitKey(m), m)'
    <3>1. IsCurrent(UnitKey(m), m)
      BY <1>4, <2>3 DEF ForthInv, BuildOK, TypeOK
    <3>2. UnitKey(m)' = UnitKey(m) /\ ModuleKey(manifest, text', m) = ModuleKey(manifest, text, m)
      BY <1>1, <1>4, <2>3 DEF UnitKey, local, TypeOK
    <3>. QED BY <1>1, <3>1, <3>2 DEF IsCurrent
  <2>4. step \in Compiled => \A m \in Module \ todo : objectStamp[m] = UnitKey(m)'
    BY <1>1 DEF ForthInv, BuildOK, UnitKey, local
  <2>5. step \in Reading => Read(seen)' /\ Since(units, seen)'
    BY <1>1, <1>2 DEF ForthInv, BuildOK, local
  <2>6. step \in Reading => ~IsCurrent(objectStamp[busy], busy)'
    BY <1>1, <1>4 DEF ForthInv, BuildOK, TypeOK, local
  <2>7. /\ step = "stamping" => object[busy] = Emitted(manifest, seen, busy)
        /\ step \in {"linking", "linked"} => todo = {}
    BY DEF ForthInv, BuildOK
  <2>. QED
    BY <1>1, <1>5, <2>1, <2>2, <2>3, <2>4, <2>5, <2>6, <2>7 DEF BuildOK, disk, local
<1>. QED BY <1>2, <1>6, <1>7, <1>8 DEF ForthInv
(* An object that is written while it bears no current key leaves everything
   said of objects true. *)
LEMMA WritingForth ==
  ASSUME UNCHANGED Inputs, NEW m, ObjectOK(m), objectStamp'[m] = objectStamp[m],
         ~IsCurrent(objectStamp[m], m)
  PROVE  ObjectOK(m)' /\ ~IsCurrent(objectStamp[m], m)'
  BY StillRead DEF ObjectOK, IsCurrent, Inputs

(* The key a build has computed for a module stays the same while nothing is
   edited. *)
LEMMA UnitKeyLasts ==
  ASSUME UNCHANGED <<Inputs, key, units>>, NEW m
  PROVE  UnitKey(m)' = UnitKey(m) /\ (IsCurrent(UnitKey(m), m)' <=> IsCurrent(UnitKey(m), m))
  BY DEF UnitKey, IsCurrent, Inputs

(* Where nothing is undone, what is stamped as current is, or will be looked at
   again. *)
LEMMA ForthStep ==
  ASSUME TypeOK, ~life.undo, ForthInv, [Next]_vars
  PROVE  ForthInv'
<1>. USE DEF Reading, Compiled
<1>0. life' = life /\ life \in Lives /\ manifest \in life.manifests /\ text \in Texts(life)
  BY TypeStep DEF TypeOK
<1>1. ASSUME NEW e \in Module, Edit(e) PROVE ForthInv'
  BY <1>1, ForthEdit
<1>2. CASE EditManifest
  BY <1>2 DEF EditManifest
<1>3. CASE Begin
  <2>1. /\ step = "idle" /\ UNCHANGED <<Inputs, disk>>
        /\ \/ step' = "idle"
           \/ /\ step' = "units" /\ key' = PackageKey(manifest, text)
              /\ ~(artifact # None /\ artifactStamp = PackageKey(manifest, text))
    BY <1>3 DEF Begin, End
  <2>2. NothingComesBack' /\ \A m \in Module : ObjectOK(m)'
    BY <2>1, StillRead, ObjectLasts DEF ForthInv, disk
  <2>3. ArtifactOK'
    BY <2>1, ArtifactLasts DEF ForthInv, disk
  <2>4. artifactStamp = PackageKey(manifest, text) => artifact # None
    BY DEF ForthInv, ArtifactOK, LinksFor
  <2>5. Read(text)
    BY <1>0 DEF Read
  <2>6. Read(text)'
    BY <2>1, <2>5, StillRead DEF Inputs
  <2>7. CASE step' = "idle"
    <3>1. BuildOK'
      BY <2>7 DEF BuildOK
    <3>. QED BY <2>2, <2>3, <3>1 DEF ForthInv
  <2>8. CASE step' = "units"
    <3>1. key' = PackageKey(manifest', text') /\ artifactStamp' # PackageKey(manifest', text')
      BY <2>1, <2>4, <2>8 DEF Inputs, disk
    <3>2. key'.sources = text'
      BY <3>1 DEF PackageKey
    <3>3. Read(key.sources)'
      BY <2>1, <2>6, <3>2 DEF Inputs
    <3>4. BuildOK'
      BY <2>8, <3>1, <3>2, <3>3 DEF BuildOK
    <3>. QED BY <2>2, <2>3, <3>4 DEF ForthInv
  <2>. QED BY <2>1, <2>7, <2>8
<1>4. CASE ReadUnits
  <2>1. /\ step = "units" /\ step' = "modules" /\ units' = text /\ todo' = Module
        /\ UNCHANGED <<Inputs, disk, key>>
    BY <1>4 DEF ReadUnits
  <2>2. NothingComesBack' /\ \A m \in Module : ObjectOK(m)'
    BY <2>1, StillRead, ObjectLasts DEF ForthInv, disk
  <2>3. ArtifactOK'
    BY <2>1, ArtifactLasts DEF ForthInv, disk
  <2>4. /\ key = PackageKey(manifest, key.sources) /\ Read(key.sources)'
        /\ artifactStamp' # PackageKey(manifest', text')
    BY <2>1, StillRead DEF ForthInv, BuildOK, Inputs, disk
  <2>5. Read(units)' /\ Since(key.sources, units)'
    BY <1>0, <2>1 DEF Read, Since, Inputs
  <2>6. key.manifest = manifest
    BY <2>4 DEF PackageKey
  <2>7. \A m \in Module : IsCurrent(UnitKey(m), m)'
    BY <2>1, <2>6 DEF UnitKey, IsCurrent, Inputs
  <2>8. BuildOK'
    BY <2>1, <2>4, <2>5, <2>7 DEF BuildOK, Inputs
  <2>. QED BY <2>2, <2>3, <2>8 DEF ForthInv
<1>5. ASSUME NEW k \in Module, ReuseObject(k) PROVE ForthInv'
  <2>1. /\ step = "modules" /\ step' = step /\ todo' = todo \ {k}
        /\ objectStamp[k] = UnitKey(k)
        /\ UNCHANGED <<Inputs, disk, key, units>>
    BY <1>5 DEF ReuseObject, IsFresh
  <2>2. NothingComesBack' /\ \A m \in Module : ObjectOK(m)'
    BY <2>1, StillRead, ObjectLasts DEF ForthInv, disk
  <2>3. ArtifactOK'
    BY <2>1, ArtifactLasts DEF ForthInv, disk
  <2>4. BuildOK'
    BY <2>1, StillRead DEF ForthInv, BuildOK, Inputs, disk, IsCurrent, UnitKey
  <2>. QED BY <2>2, <2>3, <2>4 DEF ForthInv
<1>6. ASSUME NEW k \in Module, StartCompile(k) PROVE ForthInv'
  <2>1. CASE ~Compiles(text)
    <3>1. step' = "idle" /\ UNCHANGED <<Inputs, disk>>
      BY <1>6, <2>1 DEF StartCompile, End, disk
    <3>2. NothingComesBack' /\ \A m \in Module : ObjectOK(m)'
      BY <3>1, StillRead, ObjectLasts DEF ForthInv, disk
    <3>3. ArtifactOK'
      BY <3>1, ArtifactLasts DEF ForthInv, disk
    <3>4. BuildOK'
      BY <3>1 DEF BuildOK
    <3>. QED BY <3>2, <3>3, <3>4 DEF ForthInv
  <2>2. CASE Compiles(text)
    <3>1. /\ step = "modules" /\ step' = "compiling" /\ busy' = k /\ seen' = text /\ k \in todo
          /\ object' = [object EXCEPT ![k] = Torn]
          /\ ~IsFresh(k)
          /\ UNCHANGED <<Inputs, objectStamp, artifact, artifactStamp, key, units, todo>>
      BY <1>6, <2>2 DEF StartCompile
    <3>2. ~IsCurrent(objectStamp[k], k)
      <4>1. SUFFICES ASSUME IsCurrent(objectStamp[k], k) PROVE FALSE
        OBVIOUS
      <4>2. IsCurrent(UnitKey(k), k)
        BY <3>1, <4>1 DEF ForthInv, BuildOK
      <4>3. objectStamp[k] = UnitKey(k)
        BY <4>1, <4>2 DEF IsCurrent
      <4>4. PassesFor(object[k], manifest, text, k)
        BY <4>1 DEF ForthInv, ObjectOK
      <4>. QED BY <3>1, <4>3, <4>4 DEF IsFresh, PassesFor
    <3>3. \A m \in Module : m # k => object'[m] = object[m] /\ objectStamp'[m] = objectStamp[m]
      BY <3>1 DEF TypeOK
    <3>4. \A m \in Module : ObjectOK(m)'
      <4>1. ObjectOK(k)'
        BY <3>1, <3>2, WritingForth DEF ForthInv
      <4>. QED BY <3>1, <3>3, <4>1, ObjectLasts DEF ForthInv
    <3>5. NothingComesBack' /\ ArtifactOK'
      BY <3>1, StillRead, ArtifactLasts DEF ForthInv
    <3>6. Read(seen)' /\ Since(units, seen)'
      BY <1>0, <3>1 DEF Read, Since, Inputs
    <3>7. ~IsCurrent(objectStamp[busy], busy)'
      BY <3>1, <3>2 DEF IsCurrent, Inputs
    <3>8. /\ key = PackageKey(manifest, key.sources) /\ Read(key.sources)'
          /\ artifactStamp' # PackageKey(manifest', text')
          /\ Read(units)' /\ Since(key.sources, units)'
      BY <3>1, StillRead DEF ForthInv, BuildOK, Inputs
    <3>9. /\ \A m \in todo : IsCurrent(objectStamp[m], m)' => IsCurrent(UnitKey(m), m)'
          /\ \A m \in Module \ todo : objectStamp[m] = UnitKey(m)'
      BY <3>1 DEF ForthInv, BuildOK, Inputs, IsCurrent, UnitKey
    <3>10. BuildOK'
      BY <3>1, <3>6, <3>7, <3>8, <3>9 DEF BuildOK, Inputs
    <3>. QED BY <3>4, <3>5, <3>10 DEF ForthInv
  <2>. QED BY <2>1, <2>2
<1>7. ASSUME NEW k \in Module, FinishCompile(k) PROVE ForthInv'
  <2>1. /\ step = "compiling" /\ step' = "stamping" /\ busy = k
        /\ object' = [object EXCEPT ![k] = Emitted(key.manifest, seen, k)]
        /\ UNCHANGED <<Inputs, objectStamp, artifact, artifactStamp, local>>
    BY <1>7 DEF FinishCompile
  <2>2. ~IsCurrent(objectStamp[k], k)
    BY <2>1 DEF ForthInv, BuildOK
  <2>3. \A m \in Module : m # k => object'[m] = object[m] /\ objectStamp'[m] = objectStamp[m]
    BY <2>1 DEF TypeOK
  <2>4. \A m \in Module : ObjectOK(m)'
    <3>1. ObjectOK(k)'
      BY <2>1, <2>2, WritingForth DEF ForthInv
    <3>. QED BY <2>1, <2>3, <3>1, ObjectLasts DEF ForthInv
  <2>5. NothingComesBack' /\ ArtifactOK'
    BY <2>1, StillRead, ArtifactLasts DEF ForthInv
  <2>6. key = PackageKey(manifest, key.sources)
    BY <2>1 DEF ForthInv, BuildOK
  <2>7. object'[k] = Emitted(manifest, seen, k)
    BY <2>1, <2>6 DEF PackageKey, TypeOK
  <2>8. /\ Read(key.sources)' /\ artifactStamp' # PackageKey(manifest', text')
        /\ Read(units)' /\ Since(key.sources, units)' /\ Read(seen)' /\ Since(units, seen)'
        /\ ~IsCurrent(objectStamp[busy], busy)'
    BY <2>1, StillRead DEF ForthInv, BuildOK, Inputs, local, IsCurrent
  <2>9. /\ \A m \in todo : IsCurrent(objectStamp[m], m)' => IsCurrent(UnitKey(m), m)'
        /\ \A m \in Module \ todo : objectStamp[m] = UnitKey(m)'
    BY <2>1 DEF ForthInv, BuildOK, Inputs, IsCurrent, UnitKey, local
  <2>10. BuildOK'
    BY <2>1, <2>6, <2>7, <2>8, <2>9 DEF BuildOK, Inputs, local
  <2>. QED BY <2>4, <2>5, <2>10 DEF ForthInv
<1>8. ASSUME NEW k \in Module, StampObject(k) PROVE ForthInv'
  <2>1. /\ step = "stamping" /\ step' = "modules" /\ busy = k /\ todo' = todo \ {k}
        /\ objectStamp' = [objectStamp EXCEPT ![k] = UnitKey(k)]
        /\ UNCHANGED <<Inputs, object, artifact, artifactStamp, key, units>>
    BY <1>8 DEF StampObject
  <2>2. /\ key = PackageKey(manifest, key.sources) /\ Read(units) /\ Read(seen) /\ Since(units, seen)
        /\ object[k] = Emitted(manifest, seen, k)
    BY <2>1 DEF ForthInv, BuildOK
  <2>3. UnitKey(k) = ModuleKey(manifest, units, k)
    BY <2>2 DEF UnitKey, PackageKey
  <2>4. IsCurrent(UnitKey(k), k) => PassesFor(object[k], manifest, text, k)
    <3>1. units \in Texts(life) /\ seen \in Texts(life)
      BY <2>2 DEF Read
    <3>2. ModuleKey(manifest, units, k) = ModuleKey(manifest, text, k)
            => PassesFor(Emitted(manifest, seen, k), manifest, text, k)
      BY <1>0, <2>2, <3>1, SinceCurrent
    <3>. QED BY <2>2, <2>3, <3>2 DEF IsCurrent
  <2>5. objectStamp'[k] = UnitKey(k) /\ \A m \in Module : m # k => objectStamp'[m] = objectStamp[m]
    BY <2>1 DEF TypeOK
  <2>6. \A m \in Module : ObjectOK(m)'
    <3>1. ObjectOK(k)'
      <4>1. units \in Texts(life) /\ Read(units)'
        BY <2>1, <2>2, StillRead DEF Read
      <4>2. /\ objectStamp'[k] = ModuleKey(manifest, units, k)
            /\ IsCurrent(objectStamp[k], k)' => PassesFor(object[k], manifest, text, k)
        BY <2>1, <2>3, <2>4, <2>5 DEF IsCurrent, Inputs
      <4>. QED BY <2>1, <4>1, <4>2 DEF ObjectOK, Inputs
    <3>. QED BY <2>1, <2>5, <3>1, ObjectLasts DEF ForthInv
  <2>7. NothingComesBack' /\ ArtifactOK'
    BY <2>1, StillRead, ArtifactLasts DEF ForthInv
  <2>8. /\ Read(key.sources)' /\ artifactStamp' # PackageKey(manifest', text')
        /\ Read(units)' /\ Since(key.sources, units)'
    BY <2>1, StillRead DEF ForthInv, BuildOK, Inputs
  <2>9. /\ \A m \in todo' : IsCurrent(objectStamp[m], m)' => IsCurrent(UnitKey(m), m)'
        /\ \A m \in Module \ todo' : objectStamp'[m] = UnitKey(m)'
    BY <2>1, <2>5 DEF ForthInv, BuildOK, Inputs, IsCurrent, UnitKey, TypeOK
  <2>10. BuildOK'
    BY <2>1, <2>2, <2>8, <2>9 DEF BuildOK, Inputs
  <2>. QED BY <2>6, <2>7, <2>10 DEF ForthInv
<1>9. CASE StartLink
  <2>1. /\ step = "modules" /\ step' \in {"idle", "linking"} /\ todo = {}
        /\ UNCHANGED <<Inputs, object, objectStamp, artifactStamp>>
        /\ step' = "idle" => artifact' = artifact
        /\ step' = "linking" => UNCHANGED local
    BY <1>9 DEF StartLink, End
  <2>2. NothingComesBack' /\ \A m \in Module : ObjectOK(m)'
    BY <2>1, StillRead, ObjectLasts DEF ForthInv
  <2>3. artifactStamp # PackageKey(manifest, text)
    BY <2>1 DEF ForthInv, BuildOK
  <2>4. ArtifactOK'
    BY <2>1, <2>3, StillRead DEF ForthInv, ArtifactOK, Inputs
  <2>5. BuildOK'
    BY <2>1, StillRead DEF ForthInv, BuildOK, Inputs, IsCurrent, UnitKey, local
  <2>. QED BY <2>2, <2>4, <2>5 DEF ForthInv
<1>10. CASE FinishLink
  <2>1. /\ step = "linking" /\ step' = "linked" /\ artifact' = object
        /\ UNCHANGED <<Inputs, object, objectStamp, artifactStamp, local>>
    BY <1>10 DEF FinishLink
  <2>2. NothingComesBack' /\ \A m \in Module : ObjectOK(m)'
    BY <2>1, StillRead, ObjectLasts DEF ForthInv
  <2>3. /\ todo = {} /\ artifactStamp # PackageKey(manifest, text)
        /\ key = PackageKey(manifest, key.sources)
        /\ Read(key.sources) /\ Read(units) /\ Since(key.sources, units)
        /\ \A m \in Module \ todo : objectStamp[m] = UnitKey(m)
    BY <2>1 DEF ForthInv, BuildOK
  <2>4. ArtifactOK'
    BY <2>1, <2>3, StillRead DEF ForthInv, ArtifactOK, Inputs
  <2>5. ASSUME key.sources = text PROVE LinksFor(object, manifest, text)
    <3>1. units = text
      BY <1>0, <2>3, <2>5, SinceCurrent DEF Read
    <3>2. \A m \in Module : IsCurrent(objectStamp[m], m)
      BY <2>3, <3>1 DEF UnitKey, PackageKey, IsCurrent
    <3>3. \A m \in Module : PassesFor(object[m], manifest, text, m)
      BY <3>2 DEF ForthInv, ObjectOK
    <3>. QED BY <1>0, <3>3, PassingLinks DEF TypeOK
  <2>6. key'.sources = text' => LinksFor(artifact', manifest', text')
    BY <2>1, <2>5 DEF Inputs, local
  <2>7. BuildOK'
    BY <2>1, <2>6, StillRead DEF ForthInv, BuildOK, Inputs, IsCurrent, UnitKey, local
  <2>. QED BY <2>2, <2>4, <2>7 DEF ForthInv
<1>11. CASE StampArtifact
  <2>1. /\ step = "linked" /\ step' = "idle" /\ artifactStamp' = key
        /\ UNCHANGED <<Inputs, object, objectStamp, artifact>>
    BY <1>11 DEF StampArtifact, End
  <2>2. NothingComesBack' /\ \A m \in Module : ObjectOK(m)'
    BY <2>1, StillRead, ObjectLasts DEF ForthInv
  <2>3. /\ key = PackageKey(manifest, key.sources) /\ Read(key.sources)
        /\ key.sources = text => LinksFor(artifact, manifest, text)
    BY <2>1 DEF ForthInv, BuildOK
  <2>4. ArtifactOK'
    <3>1. key.sources \in Texts(life)
      BY <2>3 DEF Read
    <3>2. \A src : Read(src) => Read(src)'
      BY <2>1, StillRead
    <3>3. key = PackageKey(manifest, text) => LinksFor(artifact, manifest, text)
      BY <2>3 DEF PackageKey
    <3>. QED BY <2>1, <2>3, <3>1, <3>2, <3>3 DEF ArtifactOK, Inputs
  <2>5. BuildOK'
    BY <2>1 DEF BuildOK
  <2>. QED BY <2>2, <2>4, <2>5 DEF ForthInv
<1>12. CASE Kill
  <2>1. step' = "idle" /\ UNCHANGED <<Inputs, disk>>
    BY <1>12 DEF Kill, End
  <2>2. NothingComesBack' /\ \A m \in Module : ObjectOK(m)'
    BY <2>1, StillRead, ObjectLasts DEF ForthInv, disk
  <2>3. ArtifactOK'
    BY <2>1, ArtifactLasts DEF ForthInv, disk
  <2>4. BuildOK'
    BY <2>1 DEF BuildOK
  <2>. QED BY <2>2, <2>3, <2>4 DEF ForthInv
<1>13. CASE UNCHANGED vars
  <2>1. UNCHANGED <<Inputs, disk, step, local>>
    BY <1>13 DEF vars
  <2>2. NothingComesBack' /\ \A m \in Module : ObjectOK(m)'
    BY <2>1, StillRead, ObjectLasts DEF ForthInv, disk
  <2>3. ArtifactOK'
    BY <2>1, ArtifactLasts DEF ForthInv, disk
  <2>4. BuildOK'
    BY <2>1, StillRead DEF ForthInv, BuildOK, Inputs, IsCurrent, UnitKey, local, disk
  <2>. QED BY <2>2, <2>3, <2>4 DEF ForthInv
<1>. QED
  BY <1>1, <1>2, <1>3, <1>4, <1>5, <1>6, <1>7, <1>8, <1>9, <1>10, <1>11, <1>12, <1>13 DEF Next
-----------------------------------------------------------------------------
(* Theorems *)

(* CacheInv holds before the first build. *)
LEMMA CacheInit == Init => CacheInv
  BY TypeInit, CalmInit, ForthInit DEF CacheInv

(* Every edit and every step of a build keeps CacheInv. *)
LEMMA CacheStep == CacheInv /\ [Next]_vars => CacheInv'
<1>. SUFFICES ASSUME CacheInv, [Next]_vars PROVE CacheInv'
  OBVIOUS
<1>1. TypeOK /\ TypeOK' /\ life' = life
  BY TypeStep DEF CacheInv
<1>2. ~life.during /\ ~life.killed => CalmInv'
  BY <1>1, CalmStep DEF CacheInv
<1>3. ~life.undo => ForthInv'
  BY <1>1, ForthStep DEF CacheInv
<1>. QED BY <1>1, <1>2, <1>3 DEF CacheInv

(* The invariant of `slopium build`, whatever the project goes through: what
   CalmInv says of builds that are left alone, and what ForthInv says of builds
   among edits and kills. *)
THEOREM CacheInvariant == Spec => []CacheInv
  BY CacheInit, CacheStep, PTL DEF Spec

(* main.rs, build: an artifact whose stamp is this build's cache_key is taken as
   it is, and rightly so for any modules, texts and manifests, but for objects in
   which a name of another module's interface still means what it used to. *)
THEOREM FreshArtifacts ==
  ASSUME Undisturbed
  PROVE  Spec => []FreshIsCurrent
<1>1. CacheInv => FreshIsCurrent
  <2>. SUFFICES ASSUME CacheInv, step = "idle", artifact # None,
                       artifactStamp = PackageKey(manifest, text)
                PROVE  LinksFor(artifact, manifest, text)
    BY DEF FreshIsCurrent
  <2>1. CASE life.undo
    <3>1. CalmInv
      BY <2>1 DEF Undisturbed, CacheInv, TypeOK
    <3>2. PICK man \in life.manifests, src \in Texts(life) :
            LinksFor(artifact, man, src) /\ artifactStamp = PackageKey(man, src)
      BY <3>1 DEF CalmInv, PairedArtifact
    <3>. QED BY <3>2 DEF PackageKey
  <2>2. CASE ~life.undo
    BY <2>2 DEF CacheInv, ForthInv, ArtifactOK
  <2>. QED BY <2>1, <2>2
<1>. QED BY <1>1, CacheInvariant, PTL

(* main.rs, build: an object whose stamp is this build's module_cache_key is what
   slopic would emit now, for any modules, texts and manifests, but for what the
   names in other modules' interfaces mean; a module with generics is spared that
   too. *)
THEOREM ReusedObjects ==
  ASSUME Undisturbed
  PROVE  Spec => []ReusedIsCurrent
<1>1. CacheInv => ReusedIsCurrent
  <2>. SUFFICES ASSUME CacheInv, step = "idle", NEW m \in Module, object[m] # None,
                       objectStamp[m] = ModuleKey(manifest, text, m)
                PROVE  PassesFor(object[m], manifest, text, m)
    BY DEF ReusedIsCurrent
  <2>1. CASE life.undo
    <3>1. CalmInv
      BY <2>1 DEF Undisturbed, CacheInv, TypeOK
    <3>2. PICK man \in life.manifests, src \in Texts(life) :
            object[m] = Emitted(man, src, m) /\ objectStamp[m] = ModuleKey(man, src, m)
      BY <3>1 DEF CalmInv, Paired, Reading
    <3>3. life \in Lives /\ text \in Texts(life) /\ ModuleKey(man, src, m) = ModuleKey(manifest, text, m)
      BY <3>2 DEF CacheInv, TypeOK
    <3>4. PassesFor(Emitted(man, src, m), manifest, text, m)
      BY <3>3, KeyDecidesObject
    <3>. QED BY <3>2, <3>4
  <2>2. CASE ~life.undo
    BY <2>2 DEF CacheInv, ForthInv, ObjectOK, IsCurrent
  <2>. QED BY <2>1, <2>2
<1>. QED BY <1>1, CacheInvariant, PTL

(* module_cache_key: a module without generics is compiled again only when its
   object could not pass for the one that comes out, unless a build was killed between an object
   and its stamp. *)
THEOREM BodyChangesStayLocal ==
  ASSUME LeftToFinish
  PROVE  Spec => BodyChangeIsLocal
<1>1. ASSUME CacheInv, [Next]_vars, NEW m \in Module,
             ~life.during, busy # m, busy' = m, ~text[m].generic
      PROVE  ~PassesFor(object[m], key.manifest, text, m)
  <2>1. life \in Lives /\ manifest \in life.manifests /\ text \in Texts(life) /\ CalmInv
    BY <1>1 DEF CacheInv, TypeOK, LeftToFinish
  <2>2. m # None
    BY NoneAssumption
  <2>3. StartCompile(m) /\ Compiles(text)
    BY <1>1, <2>2
    DEF Next, vars, Inputs, disk, local, End, Edit, EditManifest, Begin, ReadUnits, ReuseObject,
        StartCompile, FinishCompile, StampObject, StartLink, FinishLink, StampArtifact, Kill
  <2>4. step = "modules" /\ ~IsFresh(m)
    BY <2>3 DEF StartCompile
  <2>5. key = PackageKey(manifest, text) /\ units = text /\ Paired(object[m], objectStamp[m], m)
    BY <2>1, <2>4 DEF CalmInv, Compiled, Reading
  <2>6. SUFFICES ASSUME PassesFor(object[m], manifest, text, m) PROVE FALSE
    BY <2>5 DEF PackageKey
  <2>7. object[m] # None
    BY <2>6 DEF PassesFor
  <2>8. PICK man \in life.manifests, src \in Texts(life) :
          object[m] = Emitted(man, src, m) /\ objectStamp[m] = ModuleKey(man, src, m)
    BY <2>5, <2>7 DEF Paired
  <2>9. /\ man = manifest /\ src[m].body = text[m].body /\ Interfaces(src) = Interfaces(text)
        /\ src[m].takes = text[m].takes
    <3>1. Emitted(man, src, m) = [Emitted(manifest, text, m) EXCEPT !.means = Meanings(src)]
      BY <2>6, <2>8 DEF PassesFor, Emitted
    <3>2. Meanings(src)[m] = Meanings(text)[m]
      BY <2>6, <2>8 DEF PassesFor, Emitted
    <3>. QED BY <3>1, <3>2 DEF Emitted, Meanings
  <2>10. \A n \in Module : src[n].iface = text[n].iface
    BY <2>9 DEF Interfaces
  <2>11. src[m] = text[m]
    BY <2>1, <2>9, <2>10, TextsApart
  <2>12. ModuleKey(manifest, src, m) = ModuleKey(manifest, text, m)
    BY <1>1, <2>1, <2>10, <2>11, SameKeys
  <2>13. objectStamp[m] = UnitKey(m)
    BY <2>5, <2>8, <2>9, <2>12 DEF UnitKey, PackageKey
  <2>. QED BY <2>4, <2>7, <2>13 DEF IsFresh
<1>2. CacheInv /\ [Next]_vars =>
        [\A m \in Module :
           ~life.during /\ busy # m /\ busy' = m /\ ~text[m].generic
             => ~PassesFor(object[m], key.manifest, text, m)]_vars
  BY <1>1
<1>. QED BY <1>2, CacheInvariant, PTL DEF Spec, BodyChangeIsLocal
=============================================================================
